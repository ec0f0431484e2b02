-------------------------- MODULE AvailabilityProofs --------------------------
(***************************************************************************)
(* What the availability tracker knows, for any entities, integrations and *)
(* windows, and any number of connections, saves, restarts and faults.     *)
(***************************************************************************)
EXTENDS Availability, FiniteSetTheorems, SequenceTheorems, TLAPS

Types == TypeOK /\ IsFiniteSet(drops)

-----------------------------------------------------------------------------
(* Messages *)

LEMMA AnEvent ==
  ASSUME NEW m \in Messages, m.kind = "event"
  PROVE  m.entity \in Entities /\ m.old \in States /\ m.new \in States
<1>1. ~(m \in [kind : {"registry"}, granted : BOOLEAN])
  OBVIOUS
<1>2. ~(m \in [kind : {"states"}, core : [Entities -> Tracked]])
  OBVIOUS
<1>3. m \in [kind : {"event"}, entity : Entities, old : States, new : States]
  BY <1>1, <1>2 DEF Messages
<1> QED
  BY <1>3

LEMMA ASnapshot ==
  ASSUME NEW m \in Messages, m.kind = "states"
  PROVE  m.core \in [Entities -> Tracked]
<1>1. ~(m \in [kind : {"registry"}, granted : BOOLEAN])
  OBVIOUS
<1>2. ~(m \in [kind : {"event"}, entity : Entities, old : States, new : States])
  OBVIOUS
<1>3. m \in [kind : {"states"}, core : [Entities -> Tracked]]
  BY <1>1, <1>2 DEF Messages
<1> QED
  BY <1>3

\* A message is taken from the channel, and one is put into it.
LEMMA TakeOne ==
  ASSUME NEW M, NEW c \in Seq(M), c # <<>>
  PROVE  /\ Tail(c) \in Seq(M) /\ Len(Tail(c)) = Len(c) - 1 /\ Len(c) \in Nat \ {0}
         /\ Head(c) = c[1] /\ Head(c) \in M
         /\ \A i \in 1 .. Len(Tail(c)) : Tail(c)[i] = c[i + 1]
  OBVIOUS

LEMMA PutOne ==
  ASSUME NEW M, NEW c \in Seq(M), NEW m \in M
  PROVE  /\ Append(c, m) \in Seq(M) /\ Len(Append(c, m)) = Len(c) + 1 /\ Len(c) \in Nat
         /\ Append(c, m)[Len(c) + 1] = m
         /\ \A i \in 1 .. Len(c) : Append(c, m)[i] = c[i]
  OBVIOUS

-----------------------------------------------------------------------------
(* Types *)

LEMMA EmptyTyped == \A S : <<>> \in Seq(S)
  OBVIOUS

LEMMA NothingTyped == Nothing \in [Entities -> Tracked]
  BY DEF Nothing, NotTracked, Tracked, States

LEMMA DropTyped ==
  ASSUME Types, NEW m \in Messages, m.kind = "event"
  PROVE  Drop(m) \in Drops
<1>1. m.entity \in Entities
  BY AnEvent
<1>2. PlatformFor(m.entity) \in Integrations
  BY <1>1 DEF PlatformFor, Integrations
<1>3. Cardinality({d \in drops : d.ts = clock /\ d.entity = m.entity}) \in Nat
  BY FS_Subset, FS_CardinalityType DEF Types
<1>4. clock \in Nat
  BY DEF Types, TypeOK
<1> QED
  BY <1>1, <1>2, <1>3, <1>4 DEF Drop, Drops

LEMMA ObservedTyped ==
  ASSUME Types, NEW m \in Messages, m.kind = "event", m.new # Absent
  PROVE  Observed(m) \in [Entities -> Tracked]
<1>1. m.entity \in Entities /\ m.new \in States
  BY AnEvent
<1>2. [state |-> m.new, since |-> clock] \in Tracked
  BY <1>1 DEF Tracked, Types, TypeOK
<1> QED
  BY <1>1, <1>2 DEF Observed, Types, TypeOK

\* What check_cluster leaves.
LEMMA ClusterTyped ==
  ASSUME Types, NEW ds \in SUBSET Drops, NEW known,
         CheckCluster(ds, known)
  PROVE  /\ lastCluster' \in Nat /\ outage' \in Seq(Outages)
<1>1. CASE UNCHANGED <<lastCluster, outage>>
  BY <1>1 DEF Types, TypeOK
<1>2. CASE /\ lastCluster' = clock
           /\ outage' = <<[run |-> run, ts |-> clock, drops |->
                {d \in Counted(ds, known) : d.integration \in Affected(Counted(ds, known))}]>>
  <2> DEFINE o == [run |-> run, ts |-> clock, drops |->
                {d \in Counted(ds, known) : d.integration \in Affected(Counted(ds, known))}]
  <2>1. o \in Outages
    BY DEF Outages, Counted, Types, TypeOK
  <2> HIDE DEF o
  <2>2. <<o>> \in Seq(Outages)
    BY <2>1
  <2> QED
    BY <1>2, <2>2 DEF Types, TypeOK, o
<1> QED
  BY <1>1, <1>2 DEF CheckCluster

LEMMA HandleEventTyped == ASSUME Types, HandleEvent PROVE Types'
<1> DEFINE m == Head(channel)
<1>1. /\ m \in Messages /\ m.kind = "event"
      /\ channel' = Tail(channel) /\ Tail(channel) \in Seq(Messages)
  BY TakeOne DEF HandleEvent, Receive, Types, TypeOK
<1>2. Drop(m) \in Drops
  BY <1>1, DropTyped
<1>3. losses' \subseteq Drops
  BY <1>2 DEF HandleEvent, Pruned, Types, TypeOK
<1>4. drops' \subseteq Drops /\ IsFiniteSet(drops')
  <2>1. CASE drops' = drops
    BY <2>1 DEF Types, TypeOK
  <2>2. CASE drops' = Pruned(drops \cup {Drop(m)})
    <3>1. IsFiniteSet(drops \cup {Drop(m)})
      BY FS_AddElement DEF Types
    <3> QED
      BY <1>2, <2>2, <3>1, FS_Subset DEF Pruned, Types, TypeOK
  <2> QED
    BY <2>1, <2>2 DEF HandleEvent, tracker
<1>5. states' \in [Entities -> Tracked]
  BY <1>1, ObservedTyped DEF HandleEvent, tracker, Types, TypeOK
<1>6. lastCluster' \in Nat /\ outage' \in Seq(Outages)
  <2>1. CASE CheckCluster(drops', states')
    BY <1>4, <2>1, ClusterTyped DEF Types, TypeOK
  <2>2. CASE UNCHANGED <<lastCluster, outage>>
    BY <2>2 DEF Types, TypeOK
  <2> QED
    BY <2>1, <2>2 DEF HandleEvent, tracker
<1> QED
  BY <1>1, <1>3, <1>4, <1>5, <1>6 DEF HandleEvent, Types, TypeOK, maps, storage, counts

LEMMA CoreChangeTyped == ASSUME Types, CoreChange PROVE Types'
<1>1. PICK e \in Entities, s \in States :
        /\ core' = [core EXCEPT ![e] = [state |-> s, since |-> clock]]
        /\ healthyAt' = [healthyAt EXCEPT ![e] =
              CASE s = Absent -> 0
                [] s # Absent /\ core[e].state \in Healthy -> clock
                [] s # Absent /\ core[e].state \notin Healthy -> @]
        /\ brokenUntil' \in {brokenUntil, [brokenUntil EXCEPT ![e] = clock]}
        /\ channel' \in {channel, Append(channel,
              [kind |-> "event", entity |-> e, old |-> core[e].state, new |-> s])}
  BY DEF CoreChange
<1>2. core[e].state \in States /\ clock \in Nat
  BY DEF Types, TypeOK, Tracked
<1>3. core' \in [Entities -> Tracked]
  BY <1>1, <1>2 DEF Types, TypeOK, Tracked
<1>4. healthyAt' \in [Entities -> Nat] /\ brokenUntil' \in [Entities -> Nat]
  BY <1>1, <1>2 DEF Types, TypeOK
<1>5. channel' \in Seq(Messages)
  <2>1. [kind |-> "event", entity |-> e, old |-> core[e].state, new |-> s] \in Messages
    BY <1>2 DEF Messages
  <2> QED
    <3> DEFINE m == [kind |-> "event", entity |-> e, old |-> core[e].state, new |-> s]
    <3>1. m \in Messages /\ channel' \in {channel, Append(channel, m)}
      BY <1>1, <2>1
    <3> HIDE DEF m
    <3>2. channel \in Seq(Messages)
      BY DEF Types, TypeOK
    <3> QED
      BY <3>1, <3>2
<1>6. changes' \in Nat
  <2>1. changes' = changes + 1 /\ changes \in Nat
    BY DEF CoreChange, Types, TypeOK
  <2> QED
    BY <2>1
<1> QED
  BY <1>3, <1>4, <1>5, <1>6 DEF CoreChange, Types, TypeOK, tracker, maps, storage

LEMMA CoreAnswersTyped == ASSUME Types, CoreAnswers PROVE Types'
<1>1. requests' \in Seq({"subscribe", "registry", "states"}) /\ subscribed' \in BOOLEAN
  BY TakeOne DEF CoreAnswers, Types, TypeOK
<1>2. channel' \in Seq(Messages)
  <2>1. [kind |-> "states", core |-> core] \in Messages
    BY DEF Messages, Types, TypeOK
  <2>2. \A granted \in RegistryAnswers : [kind |-> "registry", granted |-> granted] \in Messages
    BY AvailabilityAssumption DEF Messages
  <2>3. channel \in Seq(Messages)
    BY DEF Types, TypeOK
  <2>4. PICK m \in Messages : channel' \in {channel, Append(channel, m)}
    BY <2>1, <2>2 DEF CoreAnswers
  <2> QED
    BY <2>3, <2>4
<1> QED
  BY <1>1, <1>2 DEF CoreAnswers, Types, TypeOK, tracker, maps, storage, counts, history

LEMMA HandleStatesTyped == ASSUME Types, HandleStates PROVE Types'
<1>1. channel' \in Seq(Messages) /\ Head(channel) \in Messages /\ Head(channel).kind = "states"
  BY TakeOne DEF HandleStates, Receive, Types, TypeOK
<1>2. states' \in [Entities -> Tracked]
  BY <1>1, ASnapshot DEF HandleStates, Seeded, Types, TypeOK
<1> QED
  BY <1>1, <1>2 DEF HandleStates, Types, TypeOK, maps, storage, counts, history

\* The other steps of the watcher.
LEMMA WatcherTyped ==
  ASSUME Types, Disconnect \/ CoreRestart \/ Connect \/ HandleRegistry
                  \/ RecordOutage \/ RecordOutageFails
  PROVE  Types'
<1>1. CASE Disconnect
  BY <1>1, EmptyTyped
     DEF Types, TypeOK, Disconnect, HangUp, tracker, maps, storage, counts, history
<1>2. CASE CoreRestart
  <2>1. changes' \in Nat /\ healthyAt' \in [Entities -> Nat]
    BY <1>2 DEF Types, TypeOK, CoreRestart
  <2> QED
    BY <1>2, <2>1, NothingTyped, EmptyTyped
       DEF Types, TypeOK, CoreRestart, HangUp, tracker, maps, storage
<1>3. CASE Connect
  BY <1>3 DEF Types, TypeOK, Connect, SessionRequests, tracker, maps, storage, history
<1>4. CASE HandleRegistry
  <2>1. channel' \in Seq(Messages)
    BY <1>4, TakeOne DEF HandleRegistry, Receive, Types, TypeOK
  <2> QED
    BY <1>4, <2>1 DEF Types, TypeOK, HandleRegistry, tracker, storage, counts, history
<1>5. CASE RecordOutage
  BY <1>5 DEF Types, TypeOK, RecordOutage, network, tracker, maps, storage, counts, history
<1>6. CASE RecordOutageFails
  <2>1. outages' \in Seq(Outages)
    <3>1. outages \in Seq(Outages) /\ outage \in Seq(Outages)
      BY DEF Types, TypeOK
    <3>2. outages \o outage \in Seq(Outages)
      BY <3>1
    <3> QED
      BY <1>6, <3>1, <3>2 DEF RecordOutageFails
  <2> QED
    BY <1>6, <2>1, EmptyTyped
       DEF Types, TypeOK, RecordOutageFails, HangUp, tracker, maps, storage, counts
<1> QED
  BY <1>1, <1>2, <1>3, <1>4, <1>5, <1>6

LEMMA LoopsTyped ==
  ASSUME Types, Tick \/ AskFallback \/ AnswerFallback \/ TakeRows \/ SaveRows
                  \/ SaveRowsFails \/ Restart
  PROVE  Types'
<1>1. CASE Tick
  BY <1>1 DEF Types, TypeOK, Tick, network, tracker, maps, storage, counts, history
<1>2. CASE AskFallback \/ AnswerFallback
  BY <1>2 DEF Types, TypeOK, AskFallback, AnswerFallback, network, tracker, storage, counts, history
<1>3. CASE TakeRows
  <2>1. [e \in Entities |-> IF states[e].state \in Dead THEN states[e] ELSE NotTracked]
          \in [Entities -> Tracked]
    BY DEF Types, TypeOK, NotTracked, Tracked, States
  <2>2. saving' \in Seq([Entities -> Tracked])
    BY <1>3, <2>1 DEF TakeRows
  <2> QED
    BY <1>3, <2>2 DEF Types, TypeOK, TakeRows, network, tracker, maps, history
<1>4. CASE SaveRows \/ SaveRowsFails
  <2>1. table' \in [Entities -> Tracked]
    BY <1>4, NothingTyped DEF SaveRows, SaveRowsFails, Types, TypeOK
  <2> QED
    BY <1>4, <2>1, EmptyTyped
       DEF Types, TypeOK, SaveRows, SaveRowsFails, network, tracker, maps, counts, history
<1>5. CASE Restart
  <2>1. run' \in Nat
    BY <1>5 DEF Types, TypeOK, Restart
  <2> QED
    BY <1>5, <2>1, FS_EmptySet, EmptyTyped DEF Types, TypeOK, Restart, HangUp
<1> QED
  BY <1>1, <1>2, <1>3, <1>4, <1>5

LEMMA TypesInit == Init => Types
<1> SUFFICES ASSUME Init PROVE Types
  OBVIOUS
<1>1. StartTime \in Nat
  BY AvailabilityAssumption DEF StartTime
<1>2. core \in [Entities -> Tracked]
  BY <1>1 DEF Init, Tracked, States
<1> QED
  BY <1>1, <1>2, NothingTyped, FS_EmptySet, EmptyTyped DEF Init, Types, TypeOK

LEMMA TypesStep == ASSUME Types, [Next]_vars PROVE Types'
<1>1. CASE UNCHANGED vars
  BY <1>1 DEF Types, TypeOK, vars, network, tracker, maps, storage, counts, history
<1> QED
  BY <1>1, HandleEventTyped, CoreChangeTyped, CoreAnswersTyped, HandleStatesTyped,
     WatcherTyped, LoopsTyped DEF Next

-----------------------------------------------------------------------------
(* The session *)

\* Core's answer to the last request is in the channel at most once, and then the
\* session has nothing left to ask; and no event comes before the subscription.
SessionInv ==
  /\ session = "down" => ~subscribed /\ requests = <<>>
  /\ session = "seeded" => requests = <<>>
  /\ \A n \in 1 .. Len(channel) : channel[n].kind = "states" =>
       /\ session = "open" /\ requests = <<>>
       /\ \A k \in 1 .. Len(channel) : channel[k].kind = "states" => k = n
  /\ ~subscribed => /\ channel = <<>> /\ session # "seeded"
                    /\ requests \in {<<>>, SessionRequests}
  /\ subscribed => requests \in {<<>>, <<"states">>, <<"registry", "states">>}

\* A step that takes a message, unless it is the snapshot, or leaves it all alone.
LEMMA SessionTakes ==
  ASSUME Types, SessionInv, UNCHANGED <<requests, subscribed>>, channel # <<>>,
         channel' = Tail(channel),
         \/ session' = session
         \/ session' = "seeded" /\ Head(channel).kind = "states"
  PROVE  SessionInv'
<1>1. /\ Len(channel') = Len(channel) - 1 /\ Len(channel) \in Nat \ {0}
      /\ Head(channel) = channel[1]
      /\ \A i \in 1 .. Len(channel') : channel'[i] = channel[i + 1]
  BY TakeOne DEF Types, TypeOK
<1>2. subscribed
  BY DEF SessionInv
<1>3. ASSUME NEW n \in 1 .. Len(channel'), channel'[n].kind = "states"
      PROVE  /\ session = "open" /\ requests = <<>> /\ session' = session
             /\ \A k \in 1 .. Len(channel') : channel'[k].kind = "states" => k = n
  <2>1. n + 1 \in 1 .. Len(channel) /\ channel[n + 1].kind = "states" /\ 1 \in 1 .. Len(channel)
    BY <1>1, <1>3
  <2>2. /\ session = "open" /\ requests = <<>>
        /\ \A k \in 1 .. Len(channel) : channel[k].kind = "states" => k = n + 1
    BY <2>1 DEF SessionInv
  <2>3. Head(channel).kind # "states"
    BY <1>1, <2>1, <2>2
  <2>4. ASSUME NEW k \in 1 .. Len(channel'), channel'[k].kind = "states" PROVE k = n
    <3>1. k + 1 \in 1 .. Len(channel) /\ channel[k + 1].kind = "states"
      BY <1>1, <2>4
    <3> QED
      BY <2>2, <3>1
  <2> QED
    BY <2>2, <2>3, <2>4
<1>4. session' = "seeded" => requests = <<>>
  BY <1>1 DEF SessionInv
<1>5. session' = "down" => session = "down"
  OBVIOUS
<1> QED
  BY <1>2, <1>3, <1>4, <1>5 DEF SessionInv

LEMMA SessionAnswers == ASSUME Types, SessionInv, CoreAnswers PROVE SessionInv'
<1> DEFINE r == Head(requests)
<1>1. requests' = Tail(requests) /\ requests # <<>> /\ session' = session /\ session = "open"
  BY DEF CoreAnswers, SessionInv, Types, TypeOK
<1>2. \A n \in 1 .. Len(channel) : channel[n].kind # "states"
  BY <1>1 DEF SessionInv
<1>3. CASE ~subscribed
  <2>1. requests = SessionRequests /\ channel = <<>>
    BY <1>1, <1>3 DEF SessionInv
  <2>2. r = "subscribe" /\ requests' = <<"registry", "states">>
    BY <1>1, <2>1 DEF SessionRequests
  <2>3. subscribed' /\ channel' = channel
    BY <2>2 DEF CoreAnswers
  <2> QED
    BY <1>1, <1>2, <2>2, <2>3 DEF SessionInv
<1>4. CASE subscribed /\ requests = <<"registry", "states">>
  <2>1. r = "registry" /\ requests' = <<"states">> /\ subscribed'
    <3>1. /\ Head(<<"registry", "states">>) = "registry"
          /\ Tail(<<"registry", "states">>) = <<"states">>
      OBVIOUS
    <3>2. subscribed' = (subscribed \/ r = "subscribe")
      BY DEF CoreAnswers
    <3> QED
      BY <1>1, <1>4, <3>1, <3>2
  <2>2. PICK granted \in RegistryAnswers :
          channel' = Append(channel, [kind |-> "registry", granted |-> granted])
    BY <2>1 DEF CoreAnswers
  <2>3. [kind |-> "registry", granted |-> granted] \in Messages
    BY AvailabilityAssumption DEF Messages
  <2>4. \A n \in 1 .. Len(channel') : channel'[n].kind # "states"
    <3> DEFINE m == [kind |-> "registry", granted |-> granted]
    <3>1. m.kind # "states"
      OBVIOUS
    <3> HIDE DEF m
    <3>2. /\ Len(channel') = Len(channel) + 1 /\ Len(channel) \in Nat
          /\ channel'[Len(channel) + 1] = m
          /\ \A i \in 1 .. Len(channel) : channel'[i] = channel[i]
      BY <2>2, <2>3, PutOne DEF Types, TypeOK, m
    <3> QED
      BY <1>2, <3>1, <3>2
  <2> QED
    BY <1>1, <2>1, <2>4 DEF SessionInv
<1>5. CASE subscribed /\ requests = <<"states">>
  <2>1. r = "states" /\ requests' = <<>> /\ subscribed'
    <3>1. Head(<<"states">>) = "states" /\ Tail(<<"states">>) = <<>>
      OBVIOUS
    <3>2. subscribed' = (subscribed \/ r = "subscribe")
      BY DEF CoreAnswers
    <3> QED
      BY <1>1, <1>5, <3>1, <3>2
  <2> DEFINE m == [kind |-> "states", core |-> core]
  <2>2. channel' = Append(channel, m) /\ m \in Messages
    BY <2>1 DEF CoreAnswers, Messages, Types, TypeOK
  <2> HIDE DEF m
  <2>3. /\ Len(channel') = Len(channel) + 1 /\ Len(channel) \in Nat
        /\ \A i \in 1 .. Len(channel) : channel'[i] = channel[i]
    BY <2>2, PutOne DEF Types, TypeOK
  <2>4. \A n \in 1 .. Len(channel') : channel'[n].kind = "states" => n = Len(channel')
    BY <1>2, <2>3
  <2> QED
    BY <1>1, <2>1, <2>4 DEF SessionInv
<1> QED
  BY <1>1, <1>3, <1>4, <1>5 DEF SessionInv

LEMMA SessionChange == ASSUME Types, SessionInv, CoreChange PROVE SessionInv'
<1>1. UNCHANGED <<requests, subscribed, session>>
  BY DEF CoreChange
<1>2. PICK e \in Entities, s \in States :
        channel' = IF subscribed
                     THEN Append(channel, [kind |-> "event", entity |-> e,
                                           old |-> core[e].state, new |-> s])
                     ELSE channel
  BY DEF CoreChange
<1>3. CASE ~subscribed
  BY <1>1, <1>2, <1>3 DEF SessionInv
<1>4. CASE subscribed
  <2> DEFINE m == [kind |-> "event", entity |-> e, old |-> core[e].state, new |-> s]
  <2>1. channel' = Append(channel, m) /\ m \in Messages /\ m.kind # "states"
    BY <1>2, <1>4 DEF Messages, Types, TypeOK, Tracked
  <2> HIDE DEF m
  <2>2. /\ Len(channel') = Len(channel) + 1 /\ Len(channel) \in Nat
        /\ channel'[Len(channel) + 1] = m
        /\ \A i \in 1 .. Len(channel) : channel'[i] = channel[i]
    BY <2>1, PutOne DEF Types, TypeOK
  <2>3. \A n \in 1 .. Len(channel') : channel'[n].kind = "states" =>
          n \in 1 .. Len(channel) /\ channel[n].kind = "states"
    BY <2>1, <2>2
  <2> QED
    BY <1>1, <1>4, <2>3 DEF SessionInv
<1> QED
  BY <1>3, <1>4

\* The connection is lost.
LEMMA SessionEnds == ASSUME Types, HangUp PROVE SessionInv'
  BY DEF HangUp, SessionInv

LEMMA SessionStep == ASSUME Types, SessionInv, [Next]_vars PROVE SessionInv'
<1>1. CASE CoreChange \/ CoreAnswers
  BY <1>1, SessionChange, SessionAnswers
<1>2. CASE HandleEvent \/ HandleStates \/ HandleRegistry
  BY <1>2, SessionTakes DEF HandleEvent, HandleStates, HandleRegistry, Receive
<1>3. CASE Disconnect \/ CoreRestart \/ RecordOutageFails \/ Restart
  BY <1>3, SessionEnds DEF Disconnect, CoreRestart, RecordOutageFails, Restart
<1>4. CASE Connect
  BY <1>4 DEF Connect, SessionInv
<1>5. CASE UNCHANGED network
  BY <1>5 DEF network, SessionInv
<1> QED
  BY <1>1, <1>2, <1>3, <1>4, <1>5
     DEF Next, Tick, RecordOutage, AskFallback, AnswerFallback, TakeRows, SaveRows,
         SaveRowsFails, vars

-----------------------------------------------------------------------------
(* What the channel says *)

Informs(m, e) == m.kind = "states" \/ (m.kind = "event" /\ m.entity = e)
Says(m, e) == IF m.kind = "states" THEN m.core[e].state ELSE m.new

\* The last of the first p messages about e says s; none of them is about e.
Told(c, p, e, s) ==
  \E k \in 1 .. p : /\ Informs(c[k], e) /\ Says(c[k], e) = s
                    /\ \A j \in (k + 1) .. p : ~Informs(c[j], e)
Silent(c, p, e) == \A j \in 1 .. p : ~Informs(c[j], e)

\* A message more.
LEMMA PutView ==
  ASSUME NEW c \in Seq(Messages), NEW m \in Messages, NEW d, d = Append(c, m), NEW e, NEW s
  PROVE  /\ ~Informs(m, e) /\ Told(c, Len(c), e, s) => Told(d, Len(d), e, s)
         /\ ~Informs(m, e) /\ Silent(c, Len(c), e) => Silent(d, Len(d), e)
         /\ Informs(m, e) /\ Says(m, e) = s => Told(d, Len(d), e, s)
         /\ \A p \in 0 .. Len(c) : /\ Told(c, p, e, s) => Told(d, p, e, s)
                                   /\ Silent(c, p, e) => Silent(d, p, e)
<1>1. /\ Len(d) = Len(c) + 1 /\ Len(c) \in Nat /\ d[Len(d)] = m
      /\ \A i \in 1 .. Len(c) : d[i] = c[i]
  BY PutOne
<1>2. ASSUME NEW p \in 0 .. Len(c), Told(c, p, e, s) PROVE Told(d, p, e, s)
  <2>1. PICK k \in 1 .. p : /\ Informs(c[k], e) /\ Says(c[k], e) = s
                            /\ \A j \in (k + 1) .. p : ~Informs(c[j], e)
    BY <1>2 DEF Told
  <2>2. d[k] = c[k] /\ \A j \in (k + 1) .. p : d[j] = c[j]
    BY <1>1
  <2> QED
    BY <2>1, <2>2 DEF Told
<1>3. \A p \in 0 .. Len(c) : Silent(c, p, e) => Silent(d, p, e)
  <2> SUFFICES ASSUME NEW p \in 0 .. Len(c), Silent(c, p, e), NEW j \in 1 .. p
               PROVE  ~Informs(d[j], e)
    BY DEF Silent
  <2>1. d[j] = c[j]
    BY <1>1
  <2> QED
    BY <2>1 DEF Silent
<1>4. ASSUME ~Informs(m, e), Told(c, Len(c), e, s) PROVE Told(d, Len(d), e, s)
  <2>1. PICK k \in 1 .. Len(c) : /\ Informs(c[k], e) /\ Says(c[k], e) = s
                                 /\ \A j \in (k + 1) .. Len(c) : ~Informs(c[j], e)
    BY <1>4 DEF Told
  <2>2. d[k] = c[k] /\ k \in 1 .. Len(d)
    BY <1>1
  <2>3. ASSUME NEW j \in (k + 1) .. Len(d) PROVE ~Informs(d[j], e)
    <3>1. CASE j = Len(d)
      BY <1>1, <1>4, <3>1
    <3>2. CASE j # Len(d)
      <4>1. j \in (k + 1) .. Len(c) /\ d[j] = c[j]
        BY <1>1, <3>2
      <4> QED
        BY <2>1, <4>1
    <3> QED
      BY <3>1, <3>2
  <2> QED
    BY <2>1, <2>2, <2>3 DEF Told
<1>5. ASSUME ~Informs(m, e), Silent(c, Len(c), e) PROVE Silent(d, Len(d), e)
  <2> SUFFICES ASSUME NEW j \in 1 .. Len(d) PROVE ~Informs(d[j], e)
    BY DEF Silent
  <2>1. CASE j = Len(d)
    BY <1>1, <1>5, <2>1
  <2>2. CASE j # Len(d)
    <3>1. j \in 1 .. Len(c) /\ d[j] = c[j]
      BY <1>1, <2>2
    <3> QED
      BY <1>5, <3>1 DEF Silent
  <2> QED
    BY <2>1, <2>2
<1>6. ASSUME Informs(m, e), Says(m, e) = s PROVE Told(d, Len(d), e, s)
  <2>1. Len(d) \in 1 .. Len(d) /\ \A j \in (Len(d) + 1) .. Len(d) : ~Informs(d[j], e)
    BY <1>1
  <2> QED
    BY <1>1, <1>6, <2>1 DEF Told
<1> QED
  BY <1>2, <1>3, <1>4, <1>5, <1>6

\* A message less.
LEMMA TakeTold ==
  ASSUME NEW c \in Seq(Messages), c # <<>>, NEW p \in 1 .. Len(c), NEW e, NEW s,
         Told(c, p, e, s)
  PROVE  \/ Told(Tail(c), p - 1, e, s)
         \/ Silent(Tail(c), p - 1, e) /\ Informs(Head(c), e) /\ Says(Head(c), e) = s
<1> DEFINE d == Tail(c)
<1>1. /\ Len(d) = Len(c) - 1 /\ Len(c) \in Nat \ {0} /\ Head(c) = c[1]
      /\ \A i \in 1 .. Len(d) : d[i] = c[i + 1]
  BY TakeOne
<1> HIDE DEF d
<1>2. PICK k \in 1 .. p : /\ Informs(c[k], e) /\ Says(c[k], e) = s
                          /\ \A j \in (k + 1) .. p : ~Informs(c[j], e)
  BY DEF Told
<1>3. ASSUME NEW j \in 1 .. (p - 1), j >= k PROVE ~Informs(d[j], e)
  <2>1. d[j] = c[j + 1] /\ j + 1 \in (k + 1) .. p
    BY <1>1, <1>3
  <2> QED
    BY <1>2, <2>1
<1>4. CASE k = 1
  <2>1. Silent(d, p - 1, e)
    BY <1>3, <1>4 DEF Silent
  <2> QED
    BY <1>1, <1>2, <1>4, <2>1 DEF d
<1>5. CASE k # 1
  <2>1. k - 1 \in 1 .. (p - 1) /\ d[k - 1] = c[k]
    BY <1>1, <1>5
  <2>2. \A j \in ((k - 1) + 1) .. (p - 1) : j \in 1 .. (p - 1) /\ j >= k
    BY <1>1, <1>5
  <2>3. Told(d, p - 1, e, s)
    BY <1>2, <1>3, <2>1, <2>2 DEF Told
  <2> QED
    BY <2>3 DEF d
<1> QED
  BY <1>4, <1>5

LEMMA TakeSilent ==
  ASSUME NEW c \in Seq(Messages), c # <<>>, NEW p \in 1 .. Len(c), NEW e, Silent(c, p, e)
  PROVE  Silent(Tail(c), p - 1, e) /\ ~Informs(Head(c), e)
<1>1. /\ Len(Tail(c)) = Len(c) - 1 /\ Len(c) \in Nat \ {0} /\ Head(c) = c[1]
      /\ \A i \in 1 .. Len(Tail(c)) : Tail(c)[i] = c[i + 1]
  BY TakeOne
<1>2. \A j \in 1 .. (p - 1) : Tail(c)[j] = c[j + 1] /\ j + 1 \in 1 .. p
  BY <1>1
<1>3. 1 \in 1 .. p
  BY <1>1
<1> QED
  BY <1>1, <1>2, <1>3 DEF Silent

-----------------------------------------------------------------------------
(* The view *)

\* What the tracker holds of e, if anything, is s.
Held(e, s) == (session = "seeded" /\ s # Absent) => states[e].state = s

\* Somebody knows the state of each entity: the last message about it says so, or
\* there is none and the tracker does, once it is seeded.  In the same way the
\* state before an event is known when the event comes.
ViewInv ==
  /\ \A e \in Entities :
       \/ Told(channel, Len(channel), e, core[e].state)
       \/ Silent(channel, Len(channel), e) /\ Held(e, core[e].state)
  /\ \A n \in 1 .. Len(channel) : channel[n].kind = "event" =>
       \/ Told(channel, n - 1, channel[n].entity, channel[n].old)
       \/ /\ Silent(channel, n - 1, channel[n].entity)
          /\ Held(channel[n].entity, channel[n].old)

\* A message is handled: the tracker now holds what it said.
LEMMA ViewTakes ==
  ASSUME Types, ViewInv, channel # <<>>, channel' = Tail(channel), core' = core,
         \A e \in Entities : ~Informs(Head(channel), e) =>
            states'[e] = states[e] /\ session' = session,
         \A e \in Entities :
            (Informs(Head(channel), e) /\ session' = "seeded" /\ Says(Head(channel), e) # Absent)
              => states'[e].state = Says(Head(channel), e)
  PROVE  ViewInv'
<1>1. /\ Len(channel') = Len(channel) - 1 /\ Len(channel) \in Nat \ {0}
      /\ channel \in Seq(Messages)
      /\ \A i \in 1 .. Len(channel') : channel'[i] = channel[i + 1]
  BY TakeOne DEF Types, TypeOK
<1>2. ASSUME NEW p \in 1 .. Len(channel), NEW e \in Entities, NEW s,
             \/ Told(channel, p, e, s)
             \/ Silent(channel, p, e) /\ Held(e, s)
      PROVE  \/ Told(channel', p - 1, e, s)
             \/ Silent(channel', p - 1, e)
                /\ ((session' = "seeded" /\ s # Absent) => states'[e].state = s)
  <2>1. CASE Told(channel, p, e, s)
    <3>1. \/ Told(channel', p - 1, e, s)
          \/ /\ Silent(channel', p - 1, e)
             /\ Informs(Head(channel), e) /\ Says(Head(channel), e) = s
      BY <1>1, <2>1, TakeTold
    <3> QED
      BY <3>1
  <2>2. CASE Silent(channel, p, e) /\ Held(e, s)
    <3>1. Silent(channel', p - 1, e) /\ ~Informs(Head(channel), e)
      BY <1>1, <2>2, TakeSilent
    <3> QED
      BY <2>2, <3>1 DEF Held
  <2> QED
    BY <1>2, <2>1, <2>2
<1>3. ASSUME NEW e \in Entities
      PROVE  \/ Told(channel', Len(channel'), e, core'[e].state)
             \/ /\ Silent(channel', Len(channel'), e)
                /\ (session' = "seeded" /\ core'[e].state # Absent)
                     => states'[e].state = core'[e].state
  <2>1. Len(channel) \in 1 .. Len(channel)
    BY <1>1
  <2>2. \/ Told(channel, Len(channel), e, core[e].state)
        \/ Silent(channel, Len(channel), e) /\ Held(e, core[e].state)
    BY DEF ViewInv
  <2> QED
    BY <1>1, <1>2, <2>1, <2>2
<1>4. ASSUME NEW n \in 1 .. Len(channel'), channel'[n].kind = "event"
      PROVE  \/ Told(channel', n - 1, channel'[n].entity, channel'[n].old)
             \/ /\ Silent(channel', n - 1, channel'[n].entity)
                /\ (session' = "seeded" /\ channel'[n].old # Absent)
                     => states'[channel'[n].entity].state = channel'[n].old
  <2> DEFINE m == channel[n + 1]
  <2>1. channel'[n] = m /\ n + 1 \in 1 .. Len(channel) /\ n \in 1 .. Len(channel)
    BY <1>1
  <2>2. m \in Messages /\ m.kind = "event" /\ (n + 1) - 1 = n
    BY <1>1, <1>4, <2>1
  <2>3. m.entity \in Entities
    BY <2>2, AnEvent
  <2>4. \/ Told(channel, n, m.entity, m.old)
        \/ Silent(channel, n, m.entity) /\ Held(m.entity, m.old)
    BY <2>1, <2>2 DEF ViewInv
  <2> HIDE DEF m
  <2> QED
    BY <1>2, <2>1, <2>3, <2>4
<1> QED
  BY <1>3, <1>4 DEF ViewInv, Held

LEMMA ViewPuts ==
  ASSUME Types, ViewInv, UNCHANGED <<session, states>>, NEW m \in Messages,
         channel' = Append(channel, m),
         \A e \in Entities : IF Informs(m, e) THEN core'[e].state = Says(m, e)
                                              ELSE core'[e] = core[e],
         m.kind = "event" => m.old = core[m.entity].state
  PROVE  ViewInv'
<1>1. /\ Len(channel') = Len(channel) + 1 /\ Len(channel) \in Nat
      /\ channel'[Len(channel')] = m /\ channel \in Seq(Messages)
      /\ \A i \in 1 .. Len(channel) : channel'[i] = channel[i]
  BY PutOne DEF Types, TypeOK
<1>2. ASSUME NEW e \in Entities
      PROVE  \/ Told(channel', Len(channel'), e, core'[e].state)
             \/ Silent(channel', Len(channel'), e) /\ Held(e, core'[e].state)
  <2>1. CASE Informs(m, e)
    <3> DEFINE s == Says(m, e)
    <3>1. core'[e].state = s
      BY <2>1
    <3> HIDE DEF s
    <3>2. Told(channel', Len(channel'), e, s)
      BY <1>1, <2>1, PutView DEF s
    <3> QED
      BY <3>1, <3>2
  <2>2. CASE ~Informs(m, e)
    <3>1. \/ Told(channel, Len(channel), e, core[e].state)
          \/ Silent(channel, Len(channel), e) /\ Held(e, core[e].state)
      BY DEF ViewInv
    <3>2. core'[e] = core[e]
      BY <2>2
    <3>3. CASE Told(channel, Len(channel), e, core[e].state)
      <4> DEFINE s == core[e].state
      <4>1. Told(channel, Len(channel), e, s)
        BY <3>3
      <4> HIDE DEF s
      <4>2. Told(channel', Len(channel'), e, s)
        BY <1>1, <2>2, <4>1, PutView
      <4> QED
        BY <3>2, <4>2 DEF s
    <3>4. CASE Silent(channel, Len(channel), e) /\ Held(e, core[e].state)
      BY <1>1, <2>2, <3>2, <3>4, PutView
    <3> QED
      BY <3>1, <3>3, <3>4
  <2> QED
    BY <2>1, <2>2
<1>3. ASSUME NEW n \in 1 .. Len(channel'), channel'[n].kind = "event"
      PROVE  \/ Told(channel', n - 1, channel'[n].entity, channel'[n].old)
             \/ /\ Silent(channel', n - 1, channel'[n].entity)
                /\ Held(channel'[n].entity, channel'[n].old)
  <2>1. CASE n \in 1 .. Len(channel)
    <3> DEFINE x == channel[n]
    <3>1. channel'[n] = x /\ n - 1 \in 0 .. Len(channel)
      BY <1>1, <2>1
    <3>2. \/ Told(channel, n - 1, x.entity, x.old)
          \/ Silent(channel, n - 1, x.entity) /\ Held(x.entity, x.old)
      BY <1>3, <2>1, <3>1 DEF ViewInv
    <3> HIDE DEF x
    <3>3. \/ Told(channel', n - 1, x.entity, x.old)
          \/ Silent(channel', n - 1, x.entity) /\ Held(x.entity, x.old)
      <4>1. CASE Told(channel, n - 1, x.entity, x.old)
        BY <1>1, <3>1, <4>1, PutView
      <4>2. CASE Silent(channel, n - 1, x.entity) /\ Held(x.entity, x.old)
        BY <1>1, <3>1, <4>2, PutView
      <4> QED
        BY <3>2, <4>1, <4>2
    <3> QED
      BY <3>1, <3>3
  <2>2. CASE n = Len(channel')
    <3>1. channel'[n] = m /\ n - 1 = Len(channel) /\ m.entity \in Entities
      BY <1>1, <1>3, <2>2, AnEvent
    <3>2. \/ Told(channel, Len(channel), m.entity, m.old)
          \/ Silent(channel, Len(channel), m.entity) /\ Held(m.entity, m.old)
      BY <1>3, <3>1 DEF ViewInv
    <3>3. \/ Told(channel', Len(channel), m.entity, m.old)
          \/ Silent(channel', Len(channel), m.entity) /\ Held(m.entity, m.old)
      <4>0. Len(channel) \in 0 .. Len(channel)
        BY <1>1
      <4>1. CASE Told(channel, Len(channel), m.entity, m.old)
        BY <1>1, <4>0, <4>1, PutView
      <4>2. CASE Silent(channel, Len(channel), m.entity) /\ Held(m.entity, m.old)
        BY <1>1, <4>0, <4>2, PutView
      <4> QED
        BY <3>2, <4>1, <4>2
    <3> QED
      BY <3>1, <3>3
  <2> QED
    BY <1>1, <2>1, <2>2
<1>4. \A e, s : Held(e, s)' <=> ((session' = "seeded" /\ s # Absent) => states'[e].state = s)
  BY DEF Held
<1> QED
  BY <1>2, <1>3, <1>4 DEF ViewInv, Held

\* What a change in Core does.
LEMMA ChangeFacts ==
  ASSUME Types, CoreChange
  PROVE  /\ UNCHANGED <<clock, requests, subscribed, session, states>>
         /\ \E e \in Entities, s \in States :
              LET old == core[e].state
              IN  /\ s # old
                  /\ core' = [core EXCEPT ![e] = [state |-> s, since |-> clock]]
                  /\ healthyAt' = [healthyAt EXCEPT ![e] =
                        IF s = Absent THEN 0 ELSE IF old \in Healthy THEN clock ELSE @]
                  /\ channel' = IF subscribed
                       THEN Append(channel, [kind |-> "event", entity |-> e,
                                             old |-> old, new |-> s])
                       ELSE channel
<1>1. PICK e \in Entities, s \in States :
        /\ s # core[e].state
        /\ core' = [core EXCEPT ![e] = [state |-> s, since |-> clock]]
        /\ healthyAt' = [healthyAt EXCEPT ![e] =
              CASE s = Absent -> 0
                [] s # Absent /\ core[e].state \in Healthy -> clock
                [] s # Absent /\ core[e].state \notin Healthy -> @]
        /\ channel' = IF subscribed
             THEN Append(channel, [kind |-> "event", entity |-> e,
                                   old |-> core[e].state, new |-> s])
             ELSE channel
  BY DEF CoreChange
<1>2. (CASE s = Absent -> 0
         [] s # Absent /\ core[e].state \in Healthy -> clock
         [] s # Absent /\ core[e].state \notin Healthy -> healthyAt[e])
        = IF s = Absent THEN 0 ELSE IF core[e].state \in Healthy THEN clock ELSE healthyAt[e]
  OBVIOUS
<1>3. healthyAt' = [healthyAt EXCEPT ![e] =
         IF s = Absent THEN 0 ELSE IF core[e].state \in Healthy THEN clock ELSE @]
  BY <1>1, <1>2 DEF Types, TypeOK
<1> QED
  BY <1>1, <1>3 DEF CoreChange, tracker

LEMMA ViewChange == ASSUME Types, SessionInv, ViewInv, CoreChange PROVE ViewInv'
<1>1. PICK e \in Entities, s \in States :
        /\ core' = [core EXCEPT ![e] = [state |-> s, since |-> clock]]
        /\ channel' = IF subscribed
             THEN Append(channel, [kind |-> "event", entity |-> e,
                                   old |-> core[e].state, new |-> s])
             ELSE channel
  BY ChangeFacts
<1>2. UNCHANGED <<session, states>>
  BY ChangeFacts
<1>3. CASE subscribed
  <2> DEFINE m == [kind |-> "event", entity |-> e, old |-> core[e].state, new |-> s]
  <2>1. m \in Messages
    BY DEF Messages, Types, TypeOK, Tracked
  <2>2. \A x \in Entities : /\ Informs(m, x) <=> x = e
                            /\ Says(m, x) = s
    BY DEF Informs, Says
  <2>3. \A x \in Entities : IF Informs(m, x) THEN core'[x].state = Says(m, x)
                                             ELSE core'[x] = core[x]
    BY <1>1, <2>2 DEF Types, TypeOK
  <2>4. channel' = Append(channel, m) /\ m.old = core[m.entity].state
    BY <1>1, <1>3
  <2> HIDE DEF m
  <2> QED
    BY <1>2, <2>1, <2>3, <2>4, ViewPuts
<1>4. CASE ~subscribed
  <2>1. channel' = <<>> /\ session' # "seeded"
    BY <1>1, <1>2, <1>4 DEF SessionInv
  <2> QED
    BY <2>1 DEF ViewInv, Silent, Held
<1> QED
  BY <1>3, <1>4

LEMMA ViewAnswers == ASSUME Types, ViewInv, CoreAnswers PROVE ViewInv'
<1>1. UNCHANGED <<session, states, core>>
  BY DEF CoreAnswers, tracker
<1>2. CASE channel' = channel
  BY <1>1, <1>2 DEF ViewInv, Held
<1>3. ASSUME NEW granted \in RegistryAnswers,
             channel' = Append(channel, [kind |-> "registry", granted |-> granted])
      PROVE  ViewInv'
  <2> DEFINE m == [kind |-> "registry", granted |-> granted]
  <2>1. m \in Messages /\ m.kind # "event" /\ \A e : ~Informs(m, e)
    BY AvailabilityAssumption DEF Messages, Informs
  <2> HIDE DEF m
  <2> QED
    BY <1>1, <1>3, <2>1, ViewPuts DEF m
<1>4. CASE channel' = Append(channel, [kind |-> "states", core |-> core])
  <2> DEFINE m == [kind |-> "states", core |-> core]
  <2>1. /\ m \in Messages /\ m.kind # "event"
        /\ \A e \in Entities : Informs(m, e) /\ Says(m, e) = core[e].state
    BY DEF Messages, Informs, Says, Types, TypeOK
  <2> HIDE DEF m
  <2> QED
    BY <1>1, <1>4, <2>1, ViewPuts DEF m
<1> QED
  BY <1>2, <1>3, <1>4 DEF CoreAnswers

LEMMA ViewHandles ==
  ASSUME Types, ViewInv, HandleEvent \/ HandleStates \/ HandleRegistry
  PROVE  ViewInv'
<1> DEFINE m == Head(channel)
<1>1. m \in Messages /\ channel # <<>> /\ channel' = Tail(channel) /\ core' = core
  BY TakeOne DEF HandleEvent, HandleStates, HandleRegistry, Receive, Types, TypeOK
<1>2. CASE HandleEvent
  <2>1. m.kind = "event" /\ session' = session
    BY <1>2 DEF HandleEvent, Receive
  <2>2. m.entity \in Entities
    BY <1>1, <2>1, AnEvent
  <2>3. \/ m.new = Absent /\ states' = states
        \/ m.new # Absent /\ states' = Observed(m)
    BY <1>2 DEF HandleEvent, tracker
  <2>4. \A e \in Entities : ~Informs(m, e) => states'[e] = states[e]
    BY <2>1, <2>3 DEF Informs, Observed, Types, TypeOK
  <2>5. \A e \in Entities : Informs(m, e) /\ Says(m, e) # Absent => states'[e].state = Says(m, e)
    BY <2>1, <2>2, <2>3 DEF Informs, Says, Observed, Types, TypeOK
  <2> HIDE DEF m
  <2> QED
    BY <1>1, <2>1, <2>4, <2>5, ViewTakes DEF m
<1>3. CASE HandleStates
  <2>1. m.kind = "states" /\ states' = [e \in Entities |-> Seeded(m.core[e], states[e])]
    BY <1>3 DEF HandleStates, Receive
  <2>2. \A e \in Entities : Informs(m, e) /\ Says(m, e) = m.core[e].state
    BY <2>1 DEF Informs, Says
  <2>3. \A e \in Entities : Says(m, e) # Absent => states'[e].state = Says(m, e)
    BY <2>1, <2>2 DEF Seeded
  <2> HIDE DEF m
  <2> QED
    BY <1>1, <2>2, <2>3, ViewTakes DEF m
<1>4. CASE HandleRegistry
  <2>1. m.kind = "registry" /\ session' = session /\ states' = states
    BY <1>4 DEF HandleRegistry, Receive, tracker
  <2>2. \A e : ~Informs(m, e)
    BY <2>1 DEF Informs
  <2> HIDE DEF m
  <2> QED
    BY <1>1, <2>1, <2>2, ViewTakes DEF m
<1> QED
  BY <1>2, <1>3, <1>4

\* Nothing is on its way, and nothing is taken for granted.
LEMMA ViewEmpty == ASSUME channel' = <<>>, session' # "seeded" PROVE ViewInv'
  BY DEF ViewInv, Silent, Held

LEMMA ViewStep == ASSUME Types, SessionInv, ViewInv, [Next]_vars PROVE ViewInv'
<1>1. CASE CoreChange \/ CoreAnswers
  BY <1>1, ViewChange, ViewAnswers
<1>2. CASE HandleEvent \/ HandleStates \/ HandleRegistry
  BY <1>2, ViewHandles
<1>3. CASE Disconnect \/ CoreRestart \/ RecordOutageFails \/ Restart
  BY <1>3, ViewEmpty DEF Disconnect, CoreRestart, RecordOutageFails, Restart, HangUp
<1>4. CASE Connect
  BY <1>4, ViewEmpty DEF Connect, SessionInv
<1>5. CASE UNCHANGED <<channel, session, states, core>>
  BY <1>5 DEF ViewInv, Held
<1> QED
  BY <1>1, <1>2, <1>3, <1>4, <1>5
     DEF Next, Tick, RecordOutage, AskFallback, AnswerFallback, TakeRows, SaveRows,
         SaveRowsFails, vars, network, tracker

-----------------------------------------------------------------------------
(* Dates *)

\* No state lies in the future, and an entity has not been healthy since it died.
CoreInv ==
  \A e \in Entities :
    /\ core[e].since <= clock /\ healthyAt[e] <= clock
    /\ core[e].state \in Dead => healthyAt[e] <= core[e].since
    /\ core[e].state = Absent => healthyAt[e] = 0

\* From message k on, an event says that e has recovered.
Heals(c, k, e) ==
  \E n \in k .. Len(c) : c[n].kind = "event" /\ c[n].entity = e /\ c[n].new \in Healthy

\* An entity that the tracker, or a snapshot on its way, holds for dead has not
\* been healthy since, unless the event of its recovery is still to come.
FreshInv ==
  \A e \in Entities :
    /\ session = "seeded" /\ states[e].state \in Dead =>
         healthyAt[e] <= states[e].since \/ Heals(channel, 1, e)
    /\ \A n \in 1 .. Len(channel) : channel[n].kind = "states" =>
         LET sent == channel[n].core[e]
         IN  /\ sent.state \in Dead =>
                  healthyAt[e] <= sent.since \/ Heals(channel, n + 1, e)
             /\ sent.state = Absent => healthyAt[e] = 0 \/ Heals(channel, n + 1, e)

\* The three kinds of states.
LEMMA Kinds ==
  /\ \A s : ~(s \in Dead /\ s \in Healthy) /\ Absent \notin Dead /\ Absent \notin Healthy
  BY AvailabilityAssumption, AbsentIsNoState

LEMMA CoreInit == Init => CoreInv
  BY Kinds, AvailabilityAssumption DEF Init, CoreInv, StartTime

LEMMA CoreStep == ASSUME Types, CoreInv, [Next]_vars PROVE CoreInv'
<1>1. CASE CoreChange
  <2>1. PICK e \in Entities, s \in States :
          /\ core' = [core EXCEPT ![e] = [state |-> s, since |-> clock]]
          /\ healthyAt' = [healthyAt EXCEPT ![e] =
                IF s = Absent THEN 0 ELSE IF core[e].state \in Healthy THEN clock ELSE @]
    BY <1>1, ChangeFacts
  <2>2. clock' = clock /\ clock \in Nat /\ \A x \in Entities : healthyAt[x] \in Nat
    BY <1>1, ChangeFacts DEF Types, TypeOK
  <2>3. ASSUME NEW x \in Entities
        PROVE  /\ core'[x].since <= clock /\ healthyAt'[x] <= clock
               /\ core'[x].state \in Dead => healthyAt'[x] <= core'[x].since
               /\ core'[x].state = Absent => healthyAt'[x] = 0
    <3>1. CASE x = e
      <4>1. core'[x] = [state |-> s, since |-> clock]
        BY <2>1, <3>1 DEF Types, TypeOK
      <4>2. healthyAt'[x] \in {0, clock, healthyAt[x]} /\ (s = Absent => healthyAt'[x] = 0)
        BY <2>1, <3>1 DEF Types, TypeOK
      <4> QED
        BY <2>2, <4>1, <4>2 DEF CoreInv
    <3>2. CASE x # e
      <4>1. core'[x] = core[x] /\ healthyAt'[x] = healthyAt[x]
        BY <2>1, <3>2 DEF Types, TypeOK
      <4> QED
        BY <4>1 DEF CoreInv
    <3> QED
      BY <3>1, <3>2
  <2> QED
    BY <2>2, <2>3 DEF CoreInv
<1>2. CASE CoreRestart
  BY <1>2, Kinds DEF CoreRestart, CoreInv, Nothing, NotTracked, Types, TypeOK
<1>3. CASE UNCHANGED <<core, healthyAt>> /\ clock' \in {clock, clock + 1}
  <2>1. \A e \in Entities : core[e].since \in Nat /\ healthyAt[e] \in Nat
    BY DEF Types, TypeOK, Tracked
  <2>2. clock \in Nat
    BY DEF Types, TypeOK
  <2> QED
    BY <1>3, <2>1, <2>2 DEF CoreInv
<1> QED
  BY <1>1, <1>2, <1>3
     DEF Next, CoreAnswers, Disconnect, Connect, HandleEvent, HandleStates, HandleRegistry,
         Tick, RecordOutage, RecordOutageFails, AskFallback, AnswerFallback, TakeRows,
         SaveRows, SaveRowsFails, Restart, vars, history

LEMMA HealsPut ==
  ASSUME NEW c \in Seq(Messages), NEW m \in Messages, NEW k \in Nat \ {0}, NEW e, Heals(c, k, e)
  PROVE  Heals(Append(c, m), k, e)
<1>1. PICK n \in k .. Len(c) : c[n].kind = "event" /\ c[n].entity = e /\ c[n].new \in Healthy
  BY DEF Heals
<1>2. n \in k .. Len(Append(c, m)) /\ Append(c, m)[n] = c[n]
  BY PutOne
<1> QED
  BY <1>1, <1>2 DEF Heals

LEMMA HealsTake ==
  ASSUME NEW c \in Seq(Messages), c # <<>>, NEW k \in Nat \ {0}, NEW e, Heals(c, k + 1, e)
  PROVE  Heals(Tail(c), k, e)
<1>1. PICK n \in (k + 1) .. Len(c) :
        c[n].kind = "event" /\ c[n].entity = e /\ c[n].new \in Healthy
  BY DEF Heals
<1>2. Len(Tail(c)) = Len(c) - 1 /\ Len(c) \in Nat
      /\ \A i \in 1 .. Len(Tail(c)) : Tail(c)[i] = c[i + 1]
  BY TakeOne
<1>3. n - 1 \in k .. Len(Tail(c)) /\ Tail(c)[n - 1] = c[n]
  BY <1>2
<1> QED
  BY <1>1, <1>3 DEF Heals

LEMMA HealsLater ==
  ASSUME NEW c \in Seq(Messages), c # <<>>, NEW e, Heals(c, 1, e),
         ~(Head(c).kind = "event" /\ Head(c).entity = e /\ Head(c).new \in Healthy)
  PROVE  Heals(c, 1 + 1, e)
<1>1. PICK n \in 1 .. Len(c) : c[n].kind = "event" /\ c[n].entity = e /\ c[n].new \in Healthy
  BY DEF Heals
<1>2. Head(c) = c[1] /\ Len(c) \in Nat
  BY TakeOne
<1>3. n \in (1 + 1) .. Len(c)
  BY <1>1, <1>2
<1> QED
  BY <1>1, <1>3 DEF Heals

\* A message that is handled without a snapshot.
LEMMA FreshTakes ==
  ASSUME Types, FreshInv, channel # <<>>, channel' = Tail(channel),
         UNCHANGED <<session, healthyAt>>, Head(channel).kind # "states",
         \A e \in Entities : states'[e].state \in Dead =>
           \/ healthyAt[e] <= states'[e].since
           \/ /\ states'[e] = states[e]
              /\ ~(/\ Head(channel).kind = "event" /\ Head(channel).entity = e
                   /\ Head(channel).new \in Healthy)
  PROVE  FreshInv'
<1>1. /\ Len(channel') = Len(channel) - 1 /\ Len(channel) \in Nat \ {0}
      /\ channel \in Seq(Messages)
      /\ \A i \in 1 .. Len(channel') : channel'[i] = channel[i + 1]
  BY TakeOne DEF Types, TypeOK
<1>2. ASSUME NEW e \in Entities, session' = "seeded", states'[e].state \in Dead
      PROVE  healthyAt[e] <= states'[e].since \/ Heals(channel', 1, e)
  <2>1. CASE healthyAt[e] <= states'[e].since
    BY <2>1
  <2>2. CASE /\ states'[e] = states[e]
             /\ ~(/\ Head(channel).kind = "event" /\ Head(channel).entity = e
                  /\ Head(channel).new \in Healthy)
    <3>1. healthyAt[e] <= states[e].since \/ Heals(channel, 1, e)
      BY <1>2, <2>2 DEF FreshInv
    <3>2. ASSUME Heals(channel, 1, e) PROVE Heals(channel', 1, e)
      <4>1. Heals(channel, 1 + 1, e)
        BY <1>1, <2>2, <3>2, HealsLater
      <4> QED
        BY <1>1, <4>1, HealsTake
    <3> QED
      BY <2>2, <3>1, <3>2
  <2> QED
    BY <1>2, <2>1, <2>2
<1>3. ASSUME NEW e \in Entities, NEW n \in 1 .. Len(channel'), channel'[n].kind = "states"
      PROVE  /\ channel'[n].core[e].state \in Dead =>
                  healthyAt[e] <= channel'[n].core[e].since \/ Heals(channel', n + 1, e)
             /\ channel'[n].core[e].state = Absent =>
                  healthyAt[e] = 0 \/ Heals(channel', n + 1, e)
  <2>1. channel'[n] = channel[n + 1] /\ n + 1 \in 1 .. Len(channel) /\ n \in Nat
    BY <1>1
  <2>2. /\ channel[n + 1].core[e].state \in Dead =>
             healthyAt[e] <= channel[n + 1].core[e].since \/ Heals(channel, (n + 1) + 1, e)
        /\ channel[n + 1].core[e].state = Absent =>
             healthyAt[e] = 0 \/ Heals(channel, (n + 1) + 1, e)
    BY <1>3, <2>1 DEF FreshInv
  <2>3. Heals(channel, (n + 1) + 1, e) => Heals(channel', n + 1, e)
    BY <1>1, <2>1, HealsTake
  <2> QED
    BY <2>1, <2>2, <2>3
<1> QED
  BY <1>2, <1>3 DEF FreshInv

LEMMA FreshHandles ==
  ASSUME Types, CoreInv, FreshInv, HandleEvent \/ HandleRegistry
  PROVE  FreshInv'
<1> DEFINE m == Head(channel)
<1>1. /\ m \in Messages /\ channel # <<>> /\ channel' = Tail(channel)
      /\ UNCHANGED <<session, healthyAt>>
  BY TakeOne DEF HandleEvent, HandleRegistry, Receive, Types, TypeOK, history
<1>2. CASE HandleEvent
  <2>1. m.kind = "event"
    BY <1>2 DEF HandleEvent, Receive
  <2>2. m.entity \in Entities /\ m.new \in States
    BY <1>1, <2>1, AnEvent
  <2>3. \/ m.new = Absent /\ states' = states
        \/ m.new # Absent /\ states' = Observed(m)
    BY <1>2 DEF HandleEvent, tracker
  <2>4. ASSUME NEW e \in Entities, states'[e].state \in Dead
        PROVE  \/ healthyAt[e] <= states'[e].since
               \/ /\ states'[e] = states[e]
                  /\ ~(m.kind = "event" /\ m.entity = e /\ m.new \in Healthy)
    <3>1. CASE e # m.entity
      BY <2>3, <3>1 DEF Observed, Types, TypeOK
    <3>2. CASE m.new = Absent
      BY <2>3, <3>2, Kinds
    <3>3. CASE e = m.entity /\ m.new # Absent /\ states[e].state = m.new
      <4>1. states' = states
        BY <2>3, <3>3 DEF Observed
      <4> QED
        BY <2>4, <3>3, <4>1, Kinds
    <3>4. CASE e = m.entity /\ m.new # Absent /\ states[e].state # m.new
      <4>1. states'[e].since = clock
        BY <2>2, <2>3, <3>4 DEF Observed, Types, TypeOK
      <4> QED
        BY <4>1 DEF CoreInv
    <3> QED
      BY <3>1, <3>2, <3>3, <3>4
  <2> HIDE DEF m
  <2> QED
    BY <1>1, <2>1, <2>4, FreshTakes DEF m
<1>3. CASE HandleRegistry
  <2>1. m.kind = "registry" /\ states' = states
    BY <1>3 DEF HandleRegistry, Receive, tracker
  <2> HIDE DEF m
  <2> QED
    BY <1>1, <2>1, FreshTakes DEF m
<1> QED
  BY <1>2, <1>3

\* The snapshot arrives.
LEMMA FreshSeeds ==
  ASSUME Types, SessionInv, FreshInv, HandleStates
  PROVE  FreshInv'
<1> DEFINE m == Head(channel)
<1>1. /\ Len(channel') = Len(channel) - 1 /\ Len(channel) \in Nat \ {0}
      /\ channel \in Seq(Messages) /\ channel # <<>> /\ channel' = Tail(channel)
      /\ \A i \in 1 .. Len(channel') : channel'[i] = channel[i + 1]
      /\ m = channel[1] /\ m.kind = "states" /\ healthyAt' = healthyAt
  BY TakeOne DEF HandleStates, Receive, Types, TypeOK, history
<1>2. \A n \in 1 .. Len(channel') : channel'[n].kind # "states"
  <2> SUFFICES ASSUME NEW n \in 1 .. Len(channel'), channel'[n].kind = "states" PROVE FALSE
    OBVIOUS
  <2>1. n + 1 \in 1 .. Len(channel) /\ 1 \in 1 .. Len(channel) /\ n + 1 # 1
    BY <1>1
  <2> QED
    BY <1>1, <2>1 DEF SessionInv
<1>3. ASSUME NEW e \in Entities, states'[e].state \in Dead
      PROVE  healthyAt[e] <= states'[e].since \/ Heals(channel', 1, e)
  <2> DEFINE sent == m.core[e]
  <2>1. states'[e] = Seeded(sent, states[e])
    BY DEF HandleStates
  <2>2. 1 \in 1 .. Len(channel)
    BY <1>1
  <2>3. /\ sent.state \in Dead => healthyAt[e] <= sent.since \/ Heals(channel, 1 + 1, e)
        /\ sent.state = Absent => healthyAt[e] = 0 \/ Heals(channel, 1 + 1, e)
    BY <1>1, <2>2 DEF FreshInv
  <2>4. Heals(channel, 1 + 1, e) => Heals(channel', 1, e)
    BY <1>1, HealsTake
  <2>5. states[e].since \in Nat /\ healthyAt[e] \in Nat
    BY DEF Types, TypeOK, Tracked
  <2> HIDE DEF sent
  <2>6. CASE sent.state = Absent
    BY <2>1, <2>3, <2>4, <2>5, <2>6 DEF Seeded
  <2>7. CASE sent.state # Absent
    BY <1>3, <2>1, <2>3, <2>4, <2>7 DEF Seeded
  <2> QED
    BY <2>6, <2>7
<1> QED
  BY <1>1, <1>2, <1>3 DEF FreshInv

LEMMA FreshAnswers == ASSUME Types, CoreInv, FreshInv, CoreAnswers PROVE FreshInv'
<1>1. UNCHANGED <<session, states, core, healthyAt>>
  BY DEF CoreAnswers, tracker, history
<1>2. CASE channel' = channel
  BY <1>1, <1>2 DEF FreshInv
<1>3. ASSUME NEW m \in Messages, channel' = Append(channel, m),
             m.kind = "states" => m.core = core
      PROVE  FreshInv'
  <2>1. /\ Len(channel') = Len(channel) + 1 /\ Len(channel) \in Nat
        /\ channel'[Len(channel) + 1] = m /\ channel \in Seq(Messages)
        /\ \A i \in 1 .. Len(channel) : channel'[i] = channel[i]
    BY <1>3, PutOne DEF Types, TypeOK
  <2>2. \A k \in Nat \ {0} : \A e : Heals(channel, k, e) => Heals(channel', k, e)
    BY <1>3, <2>1, HealsPut
  <2>3. ASSUME NEW e \in Entities, NEW n \in 1 .. Len(channel'), channel'[n].kind = "states"
        PROVE  /\ channel'[n].core[e].state \in Dead =>
                    healthyAt[e] <= channel'[n].core[e].since \/ Heals(channel', n + 1, e)
               /\ channel'[n].core[e].state = Absent =>
                    healthyAt[e] = 0 \/ Heals(channel', n + 1, e)
    <3>1. CASE n = Len(channel')
      BY <1>3, <2>1, <2>3, <3>1 DEF CoreInv
    <3>2. CASE n # Len(channel')
      <4>1. n \in 1 .. Len(channel) /\ channel'[n] = channel[n] /\ n + 1 \in Nat \ {0}
        BY <2>1, <3>2
      <4>2. /\ channel[n].core[e].state \in Dead =>
                 healthyAt[e] <= channel[n].core[e].since \/ Heals(channel, n + 1, e)
            /\ channel[n].core[e].state = Absent =>
                 healthyAt[e] = 0 \/ Heals(channel, n + 1, e)
        BY <2>3, <4>1 DEF FreshInv
      <4> QED
        BY <2>2, <4>1, <4>2
    <3> QED
      BY <3>1, <3>2
  <2>4. \A e \in Entities : session = "seeded" /\ states[e].state \in Dead =>
          healthyAt[e] <= states[e].since \/ Heals(channel', 1, e)
    <3>1. \A e : Heals(channel, 1, e) => Heals(channel', 1, e)
      BY <2>2
    <3> QED
      BY <3>1 DEF FreshInv
  <2> QED
    BY <1>1, <2>3, <2>4 DEF FreshInv
<1>4. \A granted \in RegistryAnswers :
        /\ [kind |-> "registry", granted |-> granted] \in Messages
        /\ [kind |-> "registry", granted |-> granted].kind # "states"
  BY AvailabilityAssumption DEF Messages
<1>5. /\ [kind |-> "states", core |-> core] \in Messages
      /\ [kind |-> "states", core |-> core].core = core
  BY DEF Messages, Types, TypeOK
<1>6. CASE channel' = Append(channel, [kind |-> "states", core |-> core])
  BY <1>3, <1>5, <1>6
<1>7. ASSUME NEW granted \in RegistryAnswers,
             channel' = Append(channel, [kind |-> "registry", granted |-> granted])
      PROVE  FreshInv'
  BY <1>3, <1>4, <1>7
<1> QED
  BY <1>2, <1>6, <1>7 DEF CoreAnswers

\* An entity that is healthy, and may not be any more, was not held for dead, or
\* the event that says it recovered is on its way.
LEMMA HealthyIsKnown ==
  ASSUME Types, SessionInv, ViewInv, NEW e \in Entities, core[e].state \in Healthy
  PROVE  /\ session = "seeded" /\ states[e].state \in Dead => Heals(channel, 1, e)
         /\ \A n \in 1 .. Len(channel) :
              (/\ channel[n].kind = "states"
               /\ channel[n].core[e].state \in Dead \cup {Absent}) => Heals(channel, n + 1, e)
<1> DEFINE s == core[e].state
<1>0. Len(channel) \in Nat /\ s \in Healthy /\ s \notin Dead \cup {Absent}
  BY Kinds DEF Types, TypeOK
<1>1. \/ Told(channel, Len(channel), e, s)
      \/ Silent(channel, Len(channel), e) /\ Held(e, s)
  BY DEF ViewInv
<1> HIDE DEF s
<1>2. CASE Silent(channel, Len(channel), e) /\ Held(e, s)
  <2>1. session = "seeded" => states[e].state = s
    BY <1>0, <1>2 DEF Held
  <2>2. \A n \in 1 .. Len(channel) : channel[n].kind # "states"
    BY <1>2 DEF Silent, Informs
  <2> QED
    BY <1>0, <2>1, <2>2
<1>3. CASE Told(channel, Len(channel), e, s)
  <2>1. PICK k \in 1 .. Len(channel) :
          /\ Informs(channel[k], e) /\ Says(channel[k], e) = s
          /\ \A j \in (k + 1) .. Len(channel) : ~Informs(channel[j], e)
    BY <1>3 DEF Told
  <2>2. CASE channel[k].kind = "states"
    <3>1. session = "open" /\ \A n \in 1 .. Len(channel) : channel[n].kind = "states" => n = k
      BY <2>2 DEF SessionInv
    <3>2. channel[k].core[e].state = s
      BY <2>1, <2>2 DEF Says
    <3> QED
      BY <1>0, <3>1, <3>2
  <2>3. CASE channel[k].kind # "states"
    <3>1. /\ channel[k].kind = "event" /\ channel[k].entity = e
          /\ channel[k].new \in Healthy
      BY <1>0, <2>1, <2>3 DEF Informs, Says
    <3>2. \A n \in 1 .. k : Heals(channel, n, e)
      BY <1>0, <3>1 DEF Heals
    <3>3. ASSUME NEW n \in 1 .. Len(channel), channel[n].kind = "states"
          PROVE  n + 1 \in 1 .. k
      <4>1. n # k
        BY <2>3, <3>3
      <4>2. ~(n \in (k + 1) .. Len(channel))
        BY <2>1, <3>3 DEF Informs
      <4> QED
        BY <1>0, <4>1, <4>2
    <3>4. 1 \in 1 .. k
      BY <1>0
    <3> QED
      BY <3>2, <3>3, <3>4
  <2> QED
    BY <2>2, <2>3
<1> QED
  BY <1>1, <1>2, <1>3

LEMMA FreshChange ==
  ASSUME Types, SessionInv, ViewInv, FreshInv, CoreChange
  PROVE  FreshInv'
<1>1. PICK e \in Entities, s \in States :
        /\ healthyAt' = [healthyAt EXCEPT ![e] =
              IF s = Absent THEN 0 ELSE IF core[e].state \in Healthy THEN clock ELSE @]
        /\ channel' = IF subscribed
             THEN Append(channel, [kind |-> "event", entity |-> e,
                                   old |-> core[e].state, new |-> s])
             ELSE channel
  BY ChangeFacts
<1>2. UNCHANGED <<session, states>>
  BY ChangeFacts
<1>3. CASE ~subscribed
  <2>1. channel' = <<>> /\ session' # "seeded"
    BY <1>1, <1>2, <1>3 DEF SessionInv
  <2> QED
    BY <2>1 DEF FreshInv
<1>4. CASE subscribed
  <2> DEFINE m == [kind |-> "event", entity |-> e, old |-> core[e].state, new |-> s]
  <2>1. m \in Messages /\ m.kind # "states" /\ channel' = Append(channel, m)
    BY <1>1, <1>4 DEF Messages, Types, TypeOK, Tracked
  <2> HIDE DEF m
  <2>2. /\ Len(channel') = Len(channel) + 1 /\ Len(channel) \in Nat
        /\ channel'[Len(channel) + 1] = m /\ channel \in Seq(Messages)
        /\ \A i \in 1 .. Len(channel) : channel'[i] = channel[i]
    BY <2>1, PutOne DEF Types, TypeOK
  <2>3. \A k \in Nat \ {0} : \A x : Heals(channel, k, x) => Heals(channel', k, x)
    BY <2>1, <2>2, HealsPut
  <2>4. ASSUME NEW n \in 1 .. Len(channel'), channel'[n].kind = "states"
        PROVE  /\ n \in 1 .. Len(channel) /\ channel'[n] = channel[n]
               /\ channel[n].kind = "states" /\ n + 1 \in Nat \ {0}
    BY <2>1, <2>2, <2>4
  <2>5. \A x \in Entities : healthyAt[x] \in Nat /\ states[x].since \in Nat
    BY DEF Types, TypeOK, Tracked
  <2>6. ASSUME NEW x \in Entities,
               (x = e /\ core[e].state \in Healthy) \/ healthyAt'[x] \in {0, healthyAt[x]}
        PROVE  /\ session = "seeded" /\ states[x].state \in Dead =>
                    healthyAt'[x] <= states[x].since \/ Heals(channel', 1, x)
               /\ \A n \in 1 .. Len(channel') : channel'[n].kind = "states" =>
                    LET sent == channel'[n].core[x]
                    IN  /\ sent.state \in Dead =>
                             healthyAt'[x] <= sent.since \/ Heals(channel', n + 1, x)
                        /\ sent.state = Absent =>
                             healthyAt'[x] = 0 \/ Heals(channel', n + 1, x)
    <3>0. \A k \in Nat \ {0} : Heals(channel, k, x) => Heals(channel', k, x)
      BY <2>3
    <3>1. CASE x = e /\ core[e].state \in Healthy
      <4>1. session = "seeded" /\ states[x].state \in Dead => Heals(channel', 1, x)
        BY <3>0, <3>1, HealthyIsKnown
      <4>2. \A n \in 1 .. Len(channel) :
              (/\ channel[n].kind = "states"
               /\ channel[n].core[x].state \in Dead \cup {Absent}) => Heals(channel, n + 1, x)
        BY <3>1, HealthyIsKnown
      <4> QED
        BY <2>4, <3>0, <4>1, <4>2
    <3>2. CASE healthyAt'[x] \in {0, healthyAt[x]}
      <4>1. session = "seeded" /\ states[x].state \in Dead =>
              healthyAt'[x] <= states[x].since \/ Heals(channel', 1, x)
        <5>1. session = "seeded" /\ states[x].state \in Dead =>
                healthyAt[x] <= states[x].since \/ Heals(channel, 1, x)
          BY DEF FreshInv
        <5> QED
          BY <2>5, <3>0, <3>2, <5>1
      <4>2. ASSUME NEW n \in 1 .. Len(channel'), channel'[n].kind = "states"
            PROVE  /\ channel'[n].core[x].state \in Dead =>
                        \/ healthyAt'[x] <= channel'[n].core[x].since
                        \/ Heals(channel', n + 1, x)
                   /\ channel'[n].core[x].state = Absent =>
                        healthyAt'[x] = 0 \/ Heals(channel', n + 1, x)
        <5>1. /\ channel[n].core[x].state \in Dead =>
                   healthyAt[x] <= channel[n].core[x].since \/ Heals(channel, n + 1, x)
              /\ channel[n].core[x].state = Absent =>
                   healthyAt[x] = 0 \/ Heals(channel, n + 1, x)
          BY <2>4, <4>2 DEF FreshInv
        <5>2. channel[n].core[x].since \in Nat
          <6>1. channel[n] \in Messages /\ channel[n].kind = "states"
            BY <2>2, <2>4, <4>2
          <6> QED
            BY <6>1, ASnapshot DEF Tracked
        <5> QED
          BY <2>4, <2>5, <3>0, <3>2, <4>2, <5>1, <5>2
      <4> QED
        BY <4>1, <4>2
    <3> QED
      BY <2>6, <3>1, <3>2
  <2>7. ASSUME NEW x \in Entities
        PROVE  (x = e /\ core[e].state \in Healthy) \/ healthyAt'[x] \in {0, healthyAt[x]}
    BY <1>1 DEF Types, TypeOK
  <2>8. \A x \in Entities :
               /\ session = "seeded" /\ states[x].state \in Dead =>
                    healthyAt'[x] <= states[x].since \/ Heals(channel', 1, x)
               /\ \A n \in 1 .. Len(channel') : channel'[n].kind = "states" =>
                    LET sent == channel'[n].core[x]
                    IN  /\ sent.state \in Dead =>
                             healthyAt'[x] <= sent.since \/ Heals(channel', n + 1, x)
                        /\ sent.state = Absent =>
                             healthyAt'[x] = 0 \/ Heals(channel', n + 1, x)
    BY <2>6, <2>7
  <2> QED
    BY <1>2, <2>8 DEF FreshInv
<1> QED
  BY <1>3, <1>4

LEMMA FreshEmpty == ASSUME channel' = <<>>, session' # "seeded" PROVE FreshInv'
  BY DEF FreshInv

LEMMA FreshStep ==
  ASSUME Types, SessionInv, CoreInv, ViewInv, FreshInv, [Next]_vars
  PROVE  FreshInv'
<1>1. CASE CoreChange \/ CoreAnswers
  BY <1>1, FreshChange, FreshAnswers
<1>2. CASE HandleEvent \/ HandleStates \/ HandleRegistry
  BY <1>2, FreshHandles, FreshSeeds
<1>3. CASE Disconnect \/ CoreRestart \/ RecordOutageFails \/ Restart
  BY <1>3, FreshEmpty DEF Disconnect, CoreRestart, RecordOutageFails, Restart, HangUp
<1>4. CASE Connect
  BY <1>4, FreshEmpty DEF Connect, SessionInv
<1>5. CASE UNCHANGED <<channel, session, states, healthyAt>>
  BY <1>5 DEF FreshInv
<1> QED
  BY <1>1, <1>2, <1>3, <1>4, <1>5
     DEF Next, Tick, RecordOutage, AskFallback, AnswerFallback, TakeRows, SaveRows,
         SaveRowsFails, vars, network, tracker, history

-----------------------------------------------------------------------------
(* The tracker and Core *)

IInv == Types /\ SessionInv /\ CoreInv /\ ViewInv /\ FreshInv

LEMMA Invariance == Spec => []IInv
<1>1. Init => IInv
  <2> SUFFICES ASSUME Init PROVE IInv
    OBVIOUS
  <2>1. channel = <<>> /\ session = "down" /\ requests = <<>> /\ ~subscribed
    BY DEF Init
  <2>2. SessionInv
    BY <2>1 DEF SessionInv
  <2>3. ViewInv /\ FreshInv
    BY <2>1 DEF ViewInv, Silent, Held, FreshInv
  <2> QED
    BY <2>2, <2>3, TypesInit, CoreInit DEF IInv
<1>2. IInv /\ [Next]_vars => IInv'
  BY TypesStep, SessionStep, CoreStep, ViewStep, FreshStep DEF IInv
<1> QED
  BY <1>1, <1>2, PTL DEF Spec

\* For any entities, connections, restarts and faults: a tracker that is seeded and
\* has handled every message agrees with Core, whatever it missed before.
THEOREM TheViewConverges == Spec => []ViewConverges
<1>1. IInv => ViewConverges
  <2> SUFFICES ASSUME IInv, InSync, NEW e \in Entities, core[e].state # Absent
               PROVE  states[e].state = core[e].state
    BY DEF ViewConverges, IInv, Types
  <2>1. channel = <<>> /\ session = "seeded"
    BY DEF InSync
  <2>2. ~Told(channel, Len(channel), e, core[e].state)
    BY <2>1 DEF Told
  <2> QED
    BY <2>1, <2>2 DEF IInv, ViewInv, Held
<1> QED
  BY <1>1, Invariance, PTL

\* For any entities, connections, restarts and faults: an entity that is listed as
\* chronic has not been healthy for ChronicAfter.
THEOREM ChronicDatesAreTrue == Spec => []ChronicIsTrue
<1>1. IInv => ChronicIsTrue
  <2> SUFFICES ASSUME IInv, InSync, NEW e \in Entities, IsChronic(states[e])
               PROVE  clock - healthyAt[e] >= ChronicAfter
    BY DEF ChronicIsTrue
  <2>1. channel = <<>> /\ session = "seeded" /\ ~Heals(channel, 1, e)
    BY DEF InSync, Heals
  <2>2. healthyAt[e] <= states[e].since
    BY <2>1 DEF IInv, FreshInv, IsChronic
  <2>3. /\ clock \in Nat /\ healthyAt[e] \in Nat /\ states[e].since \in Nat
        /\ ChronicAfter \in Nat
    BY AvailabilityAssumption DEF IInv, Types, TypeOK, Tracked
  <2> QED
    BY <2>2, <2>3 DEF IsChronic
<1> QED
  BY <1>1, Invariance, PTL

-----------------------------------------------------------------------------
(* Outages *)

\* What an outage counts was lost in the window before it.
Sound(o) == \A d \in o.drops : d.ts <= o.ts /\ o.ts <= d.ts + Window

\* The outages of this run end with the one at lastCluster, which may still have to
\* be recorded; any other is a window older.
OutageInv ==
  /\ lastCluster <= clock /\ \A d \in drops : d.ts <= clock
  /\ outage # <<>> => /\ Len(outage) = 1 /\ Sound(outage[1])
                      /\ outage[1].run = run /\ outage[1].ts = lastCluster
  /\ \A i \in 1 .. Len(outages) :
       /\ Sound(outages[i]) /\ outages[i].run <= run
       /\ outages[i].run = run =>
            /\ outages[i].ts <= lastCluster
            /\ outage # <<>> => outages[i].ts + Window <= lastCluster
  /\ \A i, j \in 1 .. Len(outages) : (i < j /\ outages[i].run = outages[j].run) =>
       outages[i].ts + Window <= outages[j].ts

OutageNumbers ==
  /\ clock \in Nat /\ lastCluster \in Nat /\ run \in Nat /\ Window \in Nat \ {0}
  /\ \A d \in Drops : d.ts \in Nat
  /\ \A i \in 1 .. Len(outages) :
       /\ outages[i].run \in Nat /\ outages[i].ts \in Nat /\ outages[i].drops \subseteq Drops
  /\ outage # <<>> => /\ outage[1].run \in Nat /\ outage[1].ts \in Nat
                      /\ outage[1].drops \subseteq Drops

LEMMA OutageFields == Types => OutageNumbers
<1> SUFFICES ASSUME Types PROVE OutageNumbers
  OBVIOUS
<1>1. \A o \in Outages : o.run \in Nat /\ o.ts \in Nat /\ o.drops \subseteq Drops
  BY DEF Outages
<1>2. \A i \in 1 .. Len(outages) : outages[i] \in Outages
  BY DEF Types, TypeOK
<1>3. outage # <<>> => outage[1] \in Outages
  BY DEF Types, TypeOK
<1>4. \A d \in Drops : d.ts \in Nat
  BY DEF Drops
<1>5. clock \in Nat /\ lastCluster \in Nat /\ run \in Nat /\ Window \in Nat \ {0}
  BY AvailabilityAssumption DEF Types, TypeOK
<1> QED
  BY <1>1, <1>2, <1>3, <1>4, <1>5 DEF OutageNumbers

LEMMA OutageInit == Init => OutageInv
  BY AvailabilityAssumption DEF Init, OutageInv, StartTime

\* What check_cluster does, given drops of the last window.
LEMMA ClusterSound ==
  ASSUME Types, OutageInv, outage = <<>>, NEW ds \in SUBSET Drops, NEW known,
         CheckCluster(ds, known), \A d \in ds : d.ts <= clock /\ clock <= d.ts + Window
  PROVE  \/ UNCHANGED <<lastCluster, outage>>
         \/ /\ lastCluster' = clock /\ lastCluster + Window <= clock
            /\ outage' # <<>> /\ Len(outage') = 1 /\ Sound(outage'[1])
            /\ outage'[1].run = run /\ outage'[1].ts = clock
<1> DEFINE o == [run |-> run, ts |-> clock, drops |->
                  {d \in Counted(ds, known) : d.integration \in Affected(Counted(ds, known))}]
<1>1. CASE MayAlert /\ lastCluster' = clock /\ outage' = <<o>>
  <2>1. Sound(o) /\ o.run = run /\ o.ts = clock
    BY DEF Sound, Counted
  <2> HIDE DEF o
  <2>2. outage' # <<>> /\ Len(outage') = 1 /\ outage'[1] = o
    BY <1>1
  <2>3. lastCluster + Window <= clock
    BY <1>1, OutageFields DEF MayAlert, OutageNumbers
  <2> QED
    BY <1>1, <2>1, <2>2, <2>3
<1> QED
  BY <1>1 DEF CheckCluster

LEMMA OutageHandles == ASSUME Types, OutageInv, HandleEvent PROVE OutageInv'
<1> DEFINE m == Head(channel)
<1>1. /\ outage = <<>> /\ UNCHANGED <<clock, run, outages>>
      /\ m \in Messages /\ m.kind = "event"
  BY TakeOne DEF HandleEvent, Receive, Types, TypeOK, counts
<1>2. Drop(m) \in Drops /\ Drop(m).ts = clock
  BY <1>1, DropTyped DEF Drop
<1>3. CASE UNCHANGED <<drops, lastCluster, outage>>
  BY <1>1, <1>3 DEF OutageInv, Sound
<1>4. CASE drops' = Pruned(drops \cup {Drop(m)}) /\ CheckCluster(drops', states')
  <2>1. drops' \subseteq Drops /\ \A d \in drops' : d.ts <= clock /\ clock <= d.ts + Window
    <3>1. \A d \in drops : d \in Drops /\ d.ts \in Nat /\ d.ts <= clock
      BY OutageFields DEF OutageNumbers, OutageInv, Types, TypeOK
    <3> QED
      BY <1>2, <1>4, <3>1, OutageFields DEF Pruned, OutageNumbers
  <2>2. \/ UNCHANGED <<lastCluster, outage>>
        \/ /\ lastCluster' = clock /\ lastCluster + Window <= clock
           /\ outage' # <<>> /\ Len(outage') = 1 /\ Sound(outage'[1])
           /\ outage'[1].run = run /\ outage'[1].ts = clock
    BY <1>1, <1>4, <2>1, ClusterSound
  <2>3. CASE UNCHANGED <<lastCluster, outage>>
    BY <1>1, <2>1, <2>3 DEF OutageInv, Sound
  <2>4. CASE /\ lastCluster' = clock /\ lastCluster + Window <= clock
             /\ outage' # <<>> /\ Len(outage') = 1 /\ Sound(outage'[1])
             /\ outage'[1].run = run /\ outage'[1].ts = clock
    <3>1. ASSUME NEW i \in 1 .. Len(outages), outages[i].run = run
          PROVE  outages[i].ts <= clock /\ outages[i].ts + Window <= clock
      BY <2>4, <3>1, OutageFields DEF OutageInv, OutageNumbers
    <3>2. clock <= clock
      BY OutageFields DEF OutageNumbers
    <3> QED
      BY <1>1, <2>1, <2>4, <3>1, <3>2 DEF OutageInv, Sound
  <2> QED
    BY <2>2, <2>3, <2>4
<1> QED
  BY <1>3, <1>4 DEF HandleEvent, tracker

LEMMA OutageRecords ==
  ASSUME Types, OutageInv, RecordOutage \/ RecordOutageFails, outages' = outages \o outage
  PROVE  OutageInv'
<1> DEFINE n == Len(outages) + 1
<1>1. /\ outages' = outages \o outage /\ outage # <<>> /\ outage' = <<>>
      /\ UNCHANGED <<clock, run, drops, lastCluster>>
  BY DEF RecordOutage, RecordOutageFails, tracker, counts
<1>2. /\ Len(outages') = n /\ outages'[n] = outage[1] /\ Len(outages) \in Nat
      /\ \A i \in 1 .. Len(outages) : outages'[i] = outages[i]
  <2>1. outages \in Seq(Outages) /\ outage \in Seq(Outages) /\ Len(outage) = 1
    BY <1>1 DEF OutageInv, Types, TypeOK
  <2>2. /\ Len(outages \o outage) = Len(outages) + Len(outage)
        /\ \A i \in 1 .. Len(outages) + Len(outage) :
             (outages \o outage)[i] =
               IF i <= Len(outages) THEN outages[i] ELSE outage[i - Len(outages)]
    BY <2>1, ConcatProperties, Zenon
  <2>3. /\ n \in 1 .. Len(outages) + Len(outage) /\ ~(n <= Len(outages)) /\ n - Len(outages) = 1
        /\ \A i \in 1 .. Len(outages) : i \in 1 .. Len(outages) + Len(outage) /\ i <= Len(outages)
    BY <2>1
  <2> HIDE DEF n
  <2> QED
    BY <1>1, <2>1, <2>2, <2>3 DEF n
<1>3. \A i \in 1 .. Len(outages') : i = n \/ (i \in 1 .. Len(outages) /\ i < n)
  BY <1>2
<1>4. OutageNumbers
  BY OutageFields
<1> HIDE DEF n
<1>5. ASSUME NEW i \in 1 .. Len(outages')
      PROVE  /\ Sound(outages'[i]) /\ outages'[i].run <= run
             /\ outages'[i].run = run => outages'[i].ts <= lastCluster
  <2>1. CASE i = n
    BY <1>1, <1>2, <1>4, <2>1 DEF OutageInv, OutageNumbers
  <2>2. CASE i \in 1 .. Len(outages)
    BY <1>2, <2>2 DEF OutageInv
  <2> QED
    BY <1>3, <2>1, <2>2
<1>6. ASSUME NEW i \in 1 .. Len(outages'), NEW j \in 1 .. Len(outages'), i < j,
             outages'[i].run = outages'[j].run
      PROVE  outages'[i].ts + Window <= outages'[j].ts
  <2>1. i \in 1 .. Len(outages)
    BY <1>2, <1>3, <1>6
  <2>2. CASE j = n
    BY <1>1, <1>2, <1>6, <2>1, <2>2 DEF OutageInv
  <2>3. CASE j \in 1 .. Len(outages)
    BY <1>2, <1>6, <2>1, <2>3 DEF OutageInv
  <2> QED
    BY <1>3, <2>2, <2>3
<1> QED
  BY <1>1, <1>5, <1>6 DEF OutageInv, Sound

LEMMA OutageStep == ASSUME Types, OutageInv, [Next]_vars PROVE OutageInv'
<1>0. OutageNumbers
  BY OutageFields
<1>1. CASE HandleEvent \/ RecordOutage
  BY <1>1, OutageHandles, OutageRecords DEF RecordOutage
<1>2. CASE RecordOutageFails /\ outages' = outages
  <2>1. UNCHANGED <<clock, drops, lastCluster, run, outages>> /\ outage' = <<>>
    BY <1>2 DEF RecordOutageFails, tracker, counts
  <2> QED
    BY <2>1 DEF OutageInv, Sound
<1>3. CASE Restart
  <2>1. /\ clock' = clock /\ run' = run + 1 /\ drops' = {} /\ lastCluster' = 0
        /\ outage' = <<>> /\ outages' = outages
    BY <1>3 DEF Restart
  <2>2. \A i \in 1 .. Len(outages) : outages[i].run <= run' /\ outages[i].run # run'
    BY <1>0, <2>1 DEF OutageInv, OutageNumbers
  <2>3. 0 <= clock
    BY <1>0 DEF OutageNumbers
  <2> QED
    BY <2>1, <2>2, <2>3 DEF OutageInv, Sound
<1>4. CASE Tick
  <2>1. UNCHANGED <<drops, lastCluster, run, outages, outage>> /\ clock' = clock + 1
    BY <1>4 DEF Tick, tracker, counts
  <2>2. lastCluster <= clock' /\ \A d \in drops : d.ts <= clock'
    BY <1>0, <2>1 DEF OutageInv, OutageNumbers, Types, TypeOK
  <2> QED
    BY <2>1, <2>2 DEF OutageInv, Sound
<1>5. CASE UNCHANGED <<clock, drops, lastCluster, run, outages, outage>>
  BY <1>5 DEF OutageInv, Sound
<1>6. CASE RecordOutageFails /\ outages' = outages \o outage
  BY <1>6, OutageRecords
<1> QED
  BY <1>1, <1>2, <1>3, <1>4, <1>5, <1>6
     DEF Next, CoreChange, CoreAnswers, Disconnect, CoreRestart, Connect, HandleStates,
         HandleRegistry, RecordOutageFails, AskFallback, AnswerFallback, TakeRows, SaveRows, SaveRowsFails,
         vars, tracker, counts

LEMMA OutageInvariance == Spec => [](Types /\ OutageInv)
<1>1. Init => Types /\ OutageInv
  BY TypesInit, OutageInit
<1>2. Types /\ OutageInv /\ [Next]_vars => (Types /\ OutageInv)'
  BY TypesStep, OutageStep
<1> QED
  BY <1>1, <1>2, PTL DEF Spec

\* For any windows, thresholds, integrations and restarts: two outages of a run are a
\* window apart, and count a drop twice only when they are exactly that.
THEOREM OutagesStayApart == Spec => []OutagesAreApart
<1>1. Types /\ OutageInv => OutagesAreApart
  <2> SUFFICES ASSUME Types, OutageInv,
                      NEW i \in 1 .. Len(outages), NEW j \in 1 .. Len(outages),
                      i < j, outages[i].run = outages[j].run
               PROVE  /\ outages[i].ts + Window <= outages[j].ts
                      /\ CountedTwice(i, j) # {} => outages[j].ts = outages[i].ts + Window
    BY DEF OutagesAreApart
  <2>1. outages[i].ts + Window <= outages[j].ts
    BY DEF OutageInv
  <2>2. ASSUME NEW d \in CountedTwice(i, j)
        PROVE  outages[j].ts = outages[i].ts + Window
    <3>1. d.ts <= outages[i].ts /\ outages[j].ts <= d.ts + Window
      BY <2>2 DEF OutageInv, Sound, CountedTwice
    <3>2. d.ts \in Nat /\ outages[i].ts \in Nat /\ outages[j].ts \in Nat /\ Window \in Nat
      BY <2>2, OutageFields DEF OutageNumbers, CountedTwice
    <3>3. \A x, y, z, w \in Nat : x <= y /\ z <= x + w /\ y + w <= z => z = y + w
      OBVIOUS
    <3> QED
      BY <2>1, <3>1, <3>2, <3>3
  <2> QED
    BY <2>1, <2>2
<1> QED
  BY <1>1, OutageInvariance, PTL

-----------------------------------------------------------------------------
(* Losses and outages *)

\* The losses of the window are drops; and the last outage is recorded, or will be.
RaisedInv ==
  /\ \A d \in losses : d.ts <= clock /\ (d.ts + Window >= clock => d \in drops)
  /\ LastIsRecorded

\* The integrations with enough drops are finitely many, and grow with the drops.
LEMMA AffectedFinite ==
  ASSUME NEW ds, IsFiniteSet(ds)
  PROVE  IsFiniteSet(Affected(ds))
<1> DEFINE f == [d \in ds |-> d.integration]
           T == {d.integration : d \in ds}
<1>1. f \in Surjection(ds, T)
  BY DEF Surjection
<1>2. IsFiniteSet(T)
  BY <1>1, FS_Surjection
<1>3. ASSUME NEW i \in Affected(ds) PROVE i \in T
  <2>1. Cardinality({d \in ds : d.integration = i}) >= MinEntities /\ MinEntities \in Nat \ {0}
    BY <1>3, AvailabilityAssumption DEF Affected
  <2>2. {d \in ds : d.integration = i} # {}
    BY <2>1, FS_EmptySet
  <2> QED
    BY <2>2
<1> QED
  BY <1>2, <1>3, FS_Subset

LEMMA AffectedGrows ==
  ASSUME NEW ds, NEW es, IsFiniteSet(es),
         \A d \in ds : d.integration # Unknown => d \in es
  PROVE  /\ Affected(ds) \ {Unknown} \subseteq Affected(es)
         /\ Cardinality(Affected(ds) \ {Unknown}) <= Cardinality(Affected(es))
<1>1. ASSUME NEW i \in Affected(ds), i # Unknown PROVE i \in Affected(es)
  <2> DEFINE D == {d \in ds : d.integration = i}
             E == {d \in es : d.integration = i}
  <2>1. D \subseteq E
    BY <1>1
  <2>2. IsFiniteSet(E)
    BY FS_Subset
  <2>3. Cardinality(D) <= Cardinality(E) /\ Cardinality(D) \in Nat /\ Cardinality(E) \in Nat
    BY <2>1, <2>2, FS_Subset, FS_CardinalityType
  <2>4. Cardinality(D) >= MinEntities /\ i \in Integrations
    BY <1>1 DEF Affected
  <2>5. Cardinality(E) >= MinEntities
    BY <2>3, <2>4, AvailabilityAssumption
  <2> QED
    BY <2>4, <2>5 DEF Affected
<1>2. Affected(ds) \ {Unknown} \subseteq Affected(es)
  BY <1>1
<1> QED
  BY <1>2, AffectedFinite, FS_Subset

\* An entity that is lost while the tracker is seeded was known to be healthy.
LEMMA LossIsDrop ==
  ASSUME Types, ViewInv, HandleEvent, Head(channel).old \in Healthy,
         Head(channel).new \in Dead, session = "seeded"
  PROVE  IsDrop(Head(channel)) /\ Head(channel).new # Absent
<1> DEFINE m == channel[1]
<1>1. /\ Head(channel) = m /\ 1 \in 1 .. Len(channel) /\ m.kind = "event"
      /\ m \in Messages
  BY TakeOne DEF HandleEvent, Receive, Types, TypeOK
<1>2. Told(channel, 1 - 1, m.entity, m.old) \/ Held(m.entity, m.old)
  BY <1>1 DEF ViewInv
<1>3. ~Told(channel, 1 - 1, m.entity, m.old)
  BY DEF Told
<1> HIDE DEF m
<1>4. states[m.entity].state = m.old
  BY <1>1, <1>2, <1>3, Kinds DEF Held
<1> QED
  BY <1>1, <1>4, Kinds DEF IsDrop

LEMMA ClusterCases ==
  ASSUME NEW ds, NEW known, CheckCluster(ds, known), lastCluster <= clock
  PROVE  \/ UNCHANGED <<lastCluster, outage>>
         \/ lastCluster' = clock /\ lastCluster <= clock /\ outage' # <<>>
<1> DEFINE o == [run |-> run, ts |-> clock, drops |->
                  {d \in Counted(ds, known) : d.integration \in Affected(Counted(ds, known))}]
<1>1. CASE lastCluster' = clock /\ outage' = <<o>>
  <2> HIDE DEF o
  <2> QED
    BY <1>1
<1> QED
  BY <1>1 DEF CheckCluster

\* A loss handled: what the last window lost, the tracker counts, except for what it
\* lists as chronic.
LEMMA LossCounts ==
  ASSUME Types, Types', ViewInv, OutageInv, RaisedInv, HandleEvent, losses' # losses
  PROVE  /\ \A d \in losses' : d.ts <= clock /\ d \in drops'
         /\ Cardinality(Hit(losses')) >= MinIntegrations => clock - lastCluster' < Window
<1> DEFINE m == Head(channel)
<1>1. clock' = clock /\ m \in Messages /\ m.kind = "event"
  BY TakeOne DEF HandleEvent, Receive, Types, TypeOK
<1>2. Drop(m) \in Drops /\ Drop(m).ts = clock
  BY <1>1, DropTyped DEF Drop
<1>3. OutageNumbers /\ \A d \in losses \cup drops : d \in Drops /\ d.ts \in Nat
  BY OutageFields DEF OutageNumbers, Types, TypeOK
<1>4. /\ m.old \in Healthy /\ m.new \in Dead /\ session = "seeded"
      /\ losses' = Pruned(losses \cup {Drop(m)})
  BY DEF HandleEvent
<1>5. drops' = Pruned(drops \cup {Drop(m)}) /\ CheckCluster(drops', states')
  BY <1>4, LossIsDrop DEF HandleEvent
<1>6. \A d \in losses' : d.ts <= clock /\ d \in drops'
  BY <1>2, <1>3, <1>4, <1>5 DEF Pruned, RaisedInv, OutageNumbers
<1> DEFINE counted == Counted(drops', states')
           heeded == {d \in losses' : ~IsChronic(states'[d.entity])}
<1>7. \A d \in heeded : d.integration # Unknown => d \in counted
  BY <1>1, <1>6 DEF Counted
<1>8. IsFiniteSet(counted)
  BY FS_Subset DEF Counted, Types
<1>9. /\ Cardinality(Hit(losses')) <= Cardinality(Affected(counted))
      /\ Cardinality(Affected(counted)) \in Nat /\ Cardinality(Hit(losses')) \in Nat
  <2>1. /\ Hit(losses') \subseteq Affected(counted)
        /\ Cardinality(Hit(losses')) <= Cardinality(Affected(counted))
    <3>1. Hit(losses') = Affected(heeded) \ {Unknown}
      BY DEF Hit
    <3> HIDE DEF heeded, counted
    <3> QED
      BY <1>7, <1>8, <3>1, AffectedGrows
  <2>2. IsFiniteSet(Affected(counted))
    BY <1>8, AffectedFinite
  <2> QED
    BY <2>1, <2>2, FS_Subset, FS_CardinalityType
<1>10. ASSUME Cardinality(Hit(losses')) >= MinIntegrations
       PROVE  clock - lastCluster' < Window
  <2>1. Cardinality(Affected(counted)) >= MinIntegrations
    BY <1>9, <1>10, AvailabilityAssumption
  <2>2. lastCluster' = clock \/ (lastCluster' = lastCluster /\ ~MayAlert)
    BY <1>5, <2>1 DEF CheckCluster
  <2> QED
    BY <1>3, <2>2 DEF OutageNumbers, MayAlert
<1> QED
  BY <1>6, <1>10

LEMMA RaisedHandles ==
  ASSUME Types, Types', ViewInv, OutageInv, RaisedInv, HandleEvent
  PROVE  RaisedInv'
<1> DEFINE m == Head(channel)
<1>1. UNCHANGED <<clock, run, outages, unrecorded>>
  BY DEF HandleEvent, counts
<1>2. \/ drops' = drops /\ UNCHANGED <<lastCluster, outage>>
      \/ drops' = Pruned(drops \cup {Drop(m)}) /\ CheckCluster(drops', states')
  BY DEF HandleEvent, tracker
<1>3. UNCHANGED <<lastCluster, outage>> \/ outage' # <<>>
  <2>1. CASE CheckCluster(drops', states')
    BY <2>1, ClusterCases DEF OutageInv
  <2> QED
    BY <1>2, <2>1
<1>4. LastIsRecorded'
  BY <1>1, <1>3 DEF RaisedInv, LastIsRecorded
<1>5. CASE losses' = losses
  BY <1>1, <1>2, <1>4, <1>5 DEF RaisedInv, Pruned
<1>6. CASE losses' # losses
  BY <1>1, <1>4, <1>6, LossCounts DEF RaisedInv
<1> QED
  BY <1>5, <1>6

LEMMA RaisedRecords == ASSUME Types, OutageInv, RaisedInv, RecordOutage PROVE RaisedInv'
<1>1. /\ outages' = outages \o outage /\ outage # <<>> /\ outage' = <<>>
      /\ UNCHANGED <<clock, run, drops, lastCluster, losses>>
  BY DEF RecordOutage, tracker, counts, history
<1>2. /\ Len(outages') = Len(outages) + 1 /\ Len(outages) \in Nat
      /\ outages'[Len(outages) + 1] = outage[1]
  <2>1. outages \in Seq(Outages) /\ outage \in Seq(Outages) /\ Len(outage) = 1
    BY <1>1 DEF OutageInv, Types, TypeOK
  <2> DEFINE n == Len(outages) + 1
  <2>2. /\ Len(outages \o outage) = Len(outages) + Len(outage)
        /\ \A i \in 1 .. Len(outages) + Len(outage) :
             (outages \o outage)[i] =
               IF i <= Len(outages) THEN outages[i] ELSE outage[i - Len(outages)]
    BY <2>1, ConcatProperties, Zenon
  <2>3. n \in 1 .. Len(outages) + Len(outage) /\ ~(n <= Len(outages)) /\ n - Len(outages) = 1
    BY <2>1
  <2> HIDE DEF n
  <2> QED
    BY <1>1, <2>1, <2>2, <2>3 DEF n
<1>3. \E i \in 1 .. Len(outages') : outages'[i].run = run /\ outages'[i].ts = lastCluster
  BY <1>1, <1>2 DEF OutageInv
<1> QED
  BY <1>1, <1>3 DEF RaisedInv, LastIsRecorded

LEMMA RaisedStep ==
  ASSUME Types, Types', ViewInv, OutageInv, RaisedInv, [Next]_vars
  PROVE  RaisedInv'
<1>1. CASE HandleEvent \/ RecordOutage
  BY <1>1, RaisedHandles, RaisedRecords
<1>2. CASE Restart
  BY <1>2 DEF Restart, RaisedInv, LastIsRecorded
<1>3. CASE RecordOutageFails
  BY <1>3 DEF RecordOutageFails, RaisedInv, LastIsRecorded, tracker
<1>4. CASE UNCHANGED <<drops, lastCluster, run, outages, outage, losses, unrecorded>>
           /\ clock' \in {clock, clock + 1}
  <2>1. /\ clock \in Nat /\ Window \in Nat
        /\ \A d \in losses : d.ts \in Nat
    BY OutageFields DEF OutageNumbers, Types, TypeOK
  <2>2. \A d \in losses : d.ts <= clock' /\ (d.ts + Window >= clock' => d \in drops)
    BY <1>4, <2>1 DEF RaisedInv
  <2> QED
    BY <1>4, <2>2 DEF RaisedInv, LastIsRecorded
<1> QED
  BY <1>1, <1>2, <1>3, <1>4
     DEF Next, Tick, CoreChange, CoreAnswers, Disconnect, CoreRestart, Connect, HandleStates,
         HandleRegistry, AskFallback, AnswerFallback, TakeRows, SaveRows,
         SaveRowsFails, vars, tracker, counts, history

\* For any windows, thresholds and integrations, any reconnects, restarts and failing
\* writes: an event that makes it enough integrations that have lost enough entities
\* within a window finds an outage raised, and the last one raised is recorded unless
\* the storage refused it.
THEOREM OutagesAreRaised == Spec => OutageIsRaised
<1>1. Init => RaisedInv
  BY DEF Init, RaisedInv, LastIsRecorded
<1>2. RaisedInv /\ IInv /\ IInv' /\ OutageInv /\ [Next]_vars => RaisedInv'
  <2> SUFFICES ASSUME RaisedInv, IInv, IInv', OutageInv, [Next]_vars
               PROVE  RaisedInv'
    OBVIOUS
  <2>1. Types /\ Types' /\ ViewInv
    BY DEF IInv
  <2> QED
    BY <2>1, RaisedStep
<1> DEFINE Raised ==
      /\ (losses' \ losses # {} /\ Cardinality(Hit(losses')) >= MinIntegrations)
           => clock - lastCluster' < Window
      /\ LastIsRecorded'
<1>3. RaisedInv /\ RaisedInv' /\ IInv /\ IInv' /\ OutageInv /\ [Next]_vars => [Raised]_vars
  <2> SUFFICES ASSUME RaisedInv, RaisedInv', IInv, IInv', OutageInv, Next
               PROVE  Raised
    OBVIOUS
  <2>1. CASE losses' \ losses # {}
    <3>1. HandleEvent /\ losses' # losses
      BY <2>1 DEF Next, Tick, CoreChange, CoreAnswers, Disconnect, CoreRestart, Connect,
                  HandleStates, HandleRegistry, RecordOutage, RecordOutageFails, AskFallback,
                  AnswerFallback, TakeRows, SaveRows, SaveRowsFails, Restart, history
    <3> QED
      BY <3>1, LossCounts DEF IInv, RaisedInv
  <2>2. CASE losses' \ losses = {}
    BY <2>2 DEF RaisedInv
  <2> QED
    BY <2>1, <2>2
<1> QED
  BY <1>1, <1>2, <1>3, Invariance, OutageInvariance, PTL DEF Spec, OutageIsRaised

================================================================================
