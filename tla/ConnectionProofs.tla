--------------------------- MODULE ConnectionProofs ---------------------------
(***************************************************************************)
(* The two connections the add-on keeps, to the event bus of Core and to   *)
(* the host journal.                                                       *)
(*                                                                         *)
(* The event bus, for any number of sessions, ids and messages on their    *)
(* way: every message is routed to what was asked under its id, and        *)
(* watcher and Core agree on what is subscribed.                           *)
(*                                                                         *)
(* The filter of the journal, for any lines, windows and limits: no line   *)
(* is admitted twice in its window, and none is dropped but on account of  *)
(* lines that were admitted.                                               *)
(*                                                                         *)
(* The two have no variable in common, and each theorem is about one.      *)
(***************************************************************************)
EXTENDS EventBus, JournalTail, FiniteSetTheorems, SequenceTheorems, TLAPS

-----------------------------------------------------------------------------
(* The event bus *)

Places == 1 .. Len(inbox)
IsResult(i) == inbox[i].type = "result"

\* The watcher knows the subscription id by the time it reads message i: it does
\* already, or the confirmation is on its way before i.
Confirmed(id, kind, i) ==
  \/ subs[id] = kind
  \/ \E k \in Places : /\ k < i /\ IsResult(k) /\ inbox[k].id = id
                       /\ inbox[k].kind = kind /\ inbox[k].body # "refused"

\* What a subscription leaves that was closed: nothing that could revive it.
Served(id) ==
  /\ id <= msgId /\ subs[id] = None
  /\ \A r \in asked : r.id # id
  /\ \A i \in Places : IsResult(i) => inbox[i].id # id

SessionInv ==
  /\ ~connected => asked = {} /\ open = {} /\ inbox = <<>>
  /\ phase # "session" => ~connected
  /\ phase = "session" /\ ~connected => subs = Empty
  /\ \A id \in Ids : id > msgId => subs[id] = None

AskedInv ==
  \A r \in asked :
    /\ r.id <= msgId /\ pending[r.id] = r.kind /\ subs[r.id] = None
    /\ \A q \in asked : q.id = r.id => q = r
    /\ r.kind # "unsub" => r.of = 0
    /\ r.kind = "unsub" => r.of \in Ids /\ Served(r.of)

OpenInv ==
  \A s \in open :
    /\ s.id <= msgId /\ \A r \in asked : r.id # s.id
    /\ \A t \in open : t.id = s.id => t = s
    /\ s.kind = "state_changed" => s.got = "nothing"
    /\ s.got # "finish" =>
         /\ Confirmed(s.id, s.kind, Len(inbox) + 1)
         /\ \A i \in Places : inbox[i].id = s.id => inbox[i].body # "finish"
    /\ s.got = "finish" =>
         \/ \E i \in Places : ~IsResult(i) /\ inbox[i].id = s.id /\ inbox[i].body = "finish"
         \/ \E r \in asked : r.kind = "unsub" /\ r.of = s.id

Sound(i) ==
  LET m == inbox[i]
  IN  /\ m.id <= msgId /\ pending[m.id] = m.kind /\ subs[m.id] = None
      /\ m.body \in {"refused", "empty"} /\ \A r \in asked : r.id # m.id
      /\ \A j \in Places : IsResult(j) /\ inbox[j].id = m.id => j = i
      /\ m.body # "refused" /\ m.kind \in Streams => \E s \in open : s.id = m.id

ResultInv == \A i \in Places : IsResult(i) => Sound(i)

Expected(i) ==
  LET m == inbox[i]
  IN  /\ m.id <= msgId /\ m.kind \in Streams /\ \A r \in asked : r.id # m.id
      /\ Confirmed(m.id, m.kind, i)
      /\ m.body = "finish" =>
           /\ m.kind = "health"
           /\ \A j \in Places : ~IsResult(j) /\ inbox[j].id = m.id => j <= i

EventInv == \A i \in Places : ~IsResult(i) => Expected(i)

\* A subscription the watcher knows is open at Core.
HeldInv == connected => \A id \in Ids : subs[id] # None => \E s \in open : s.id = id

\* The ids that are, or may become, the subscription to state changes.
Bearers ==
  {id \in Ids : \/ subs[id] = "state_changed"
                \/ \E r \in asked : r.id = id /\ r.kind = "state_changed"
                \/ \E i \in Places : IsResult(i) /\ inbox[i].id = id
                                     /\ inbox[i].kind = "state_changed"}

Inv ==
  /\ TypeOK /\ SessionInv /\ AskedInv /\ OpenInv /\ ResultInv /\ EventInv
  /\ HeldInv /\ \A x, y \in Bearers : x = y

-----------------------------------------------------------------------------
(* What the invariant gives *)

LEMMA Fields ==
  ASSUME TypeOK
  PROVE  /\ Len(inbox) \in Nat /\ msgId \in Nat /\ msgId <= MaxId /\ MaxId \in Nat
         /\ \A i \in Places : /\ i \in Nat \ {0} /\ inbox[i] \in Messages
                              /\ inbox[i].id \in Ids /\ inbox[i].kind \in Kinds
                              /\ inbox[i].type \in {"event", "result"}
         /\ \A r \in asked : r \in Requests /\ r.id \in Ids /\ r.kind \in Kinds
                             /\ r.of \in {0} \cup Ids
         /\ \A s \in open : s \in Open /\ s.id \in Ids /\ s.kind \in Streams
<1>1. Len(inbox) \in Nat /\ \A i \in Places : i \in Nat \ {0} /\ inbox[i] \in Messages
  BY DEF TypeOK, Places
<1> QED
  BY <1>1, EventBusAssumption DEF TypeOK, Messages, Requests, Open, Ids

LEMMA InvImplies == Inv => RoutedRight /\ SubscriptionsAgree
<1> SUFFICES ASSUME Inv PROVE RoutedRight /\ SubscriptionsAgree
  OBVIOUS
<1>1. RoutedRight
  <2>1. SUFFICES ASSUME inbox # <<>>
                 PROVE  Head(inbox).kind = IF Head(inbox).type = "event"
                                             THEN Route(Head(inbox).id)
                                             ELSE pending[Head(inbox).id]
    BY DEF RoutedRight, Inv
  <2>2. 1 \in Places /\ Head(inbox) = inbox[1]
    BY <2>1 DEF Inv, TypeOK, Places
  <2>3. \A k \in Places : ~(k < 1)
    BY DEF Places
  <2> QED
    BY <2>2, <2>3, Fields DEF Inv, ResultInv, Sound, EventInv, Expected, Confirmed, IsResult, Route
<1>2. Cardinality({id \in Ids : subs[id] = "state_changed"}) <= 1
  <2> DEFINE S == {id \in Ids : subs[id] = "state_changed"}
  <2>1. \A x, y \in S : x = y
    BY DEF Inv, Bearers
  <2>2. CASE S = {}
    BY <2>2, FS_EmptySet
  <2>3. CASE S # {}
    <3>1. PICK x \in S : S = {x}
      BY <2>1, <2>3
    <3> QED
      BY <3>1, FS_Singleton
  <2> QED
    BY <2>2, <2>3
<1>3. ASSUME connected, inbox = <<>>, asked = {}
      PROVE  /\ {s.id : s \in open} = {id \in Ids : subs[id] # None}
             /\ \A s \in open : s.got # "finish"
  <2>1. Places = {}
    BY <1>3 DEF Places
  <2>2. \A s \in open : s.got # "finish"
    BY <1>3, <2>1 DEF Inv, OpenInv
  <2>3. \A s \in open : s.id \in Ids /\ subs[s.id] = s.kind /\ s.kind # None
    BY <2>1, <2>2, Fields DEF Inv, OpenInv, Confirmed, Streams, None
  <2>4. \A id \in Ids : subs[id] # None => \E s \in open : s.id = id
    BY <1>3 DEF Inv, HeldInv
  <2> QED
    BY <2>2, <2>3, <2>4
<1> QED
  BY <1>1, <1>2, <1>3 DEF SubscriptionsAgree

LEMMA InitInv == Init => Inv
<1> SUFFICES ASSUME Init PROVE Inv
  OBVIOUS
<1>1. Places = {} /\ inbox = <<>> /\ asked = {} /\ open = {} /\ subs = Empty
  BY DEF Init, Places
<1>2. TypeOK
  <2>1. <<>> \in Seq(Messages) /\ First \in First .. Limit
    BY EventBusAssumption
  <2> QED
    BY <2>1 DEF Init, TypeOK, Empty
<1>3. Bearers = {} /\ \A id \in Ids : subs[id] = None
  BY <1>1 DEF Bearers, Empty, None
<1> QED
  BY <1>1, <1>2, <1>3
     DEF Init, Inv, SessionInv, AskedInv, OpenInv, ResultInv, EventInv, HeldInv

-----------------------------------------------------------------------------
(* The loop *)

\* Whatever ends a session leaves nothing of it but the ids that are taken.
LEMMA Nothing ==
  ASSUME Inv, TypeOK', asked' = {}, open' = {}, inbox' = <<>>, connected' = FALSE,
         msgId' = msgId, subs' \in {subs, Empty}, phase' = "session" => subs' = Empty
  PROVE  Inv'
<1>1. Places' = {}
  BY DEF Places
<1>2. \A x, y \in Bearers' : x = y
  BY <1>1 DEF Inv, Bearers, Empty, None
<1>3. SessionInv'
  BY DEF Inv, SessionInv, Empty
<1> QED
  BY <1>1, <1>2, <1>3 DEF Inv, AskedInv, OpenInv, ResultInv, EventInv, HeldInv

LEMMA LoopStep ==
  ASSUME Inv, EndInOrder \/ EndByError \/ Stop \/ Retry
  PROVE  Inv'
<1>1. <<>> \in Seq(Messages) /\ First \in First .. Limit /\ Empty \in [Ids -> Streams \cup {None}]
  BY EventBusAssumption DEF Empty
<1>2. CASE EndInOrder \/ EndByError \/ Stop
  <2>1. TypeOK'
    BY <1>1, <1>2 DEF Inv, TypeOK, EndInOrder, EndByError, Stop, Gone, client
  <2> QED
    BY <1>2, <2>1, Nothing DEF EndInOrder, EndByError, Stop, Gone, client
<1>3. CASE Retry
  <2>1. delay' \in First .. Limit
    BY <1>3, EventBusAssumption DEF Inv, TypeOK, Retry
  <2>2. TypeOK'
    BY <1>1, <1>3, <2>1 DEF Inv, TypeOK, Retry, Begin, core
  <2>3. asked = {} /\ open = {} /\ inbox = <<>>
    BY <1>3 DEF Inv, SessionInv, Retry
  <2> QED
    BY <1>3, <2>2, <2>3, Nothing DEF Retry, Begin, core
<1> QED
  BY <1>2, <1>3

-----------------------------------------------------------------------------
(* Requests *)

Fresh(requests) ==
  {[id |-> msgId + i, kind |-> requests[i][1], of |-> requests[i][2]] :
     i \in 1 .. Len(requests)}

\* Requests take new ids and leave the others alone.
LEMMA Sent ==
  ASSUME TypeOK, NEW waiting \in [Ids -> Kinds \cup {None}],
         NEW requests \in Seq(Kinds \X ({0} \cup Ids)), Send(waiting, requests)
  PROVE  /\ msgId' \in {0} \cup Ids /\ msgId <= msgId'
         /\ pending' \in [Ids -> Kinds \cup {None}]
         /\ \A id \in Ids : id <= msgId => pending'[id] = waiting[id]
         /\ asked' = asked \cup Fresh(requests) /\ asked' \subseteq Requests
         /\ \A r \in Fresh(requests) :
              /\ r \in Requests /\ r.id > msgId /\ r.id <= msgId' /\ pending'[r.id] = r.kind
              /\ \A q \in Fresh(requests) : q.id = r.id => q = r
<1> DEFINE n == Len(requests)
<1>1. /\ n \in Nat /\ msgId \in Nat /\ MaxId \in Nat /\ msgId + n <= MaxId
      /\ msgId' = msgId + n /\ asked' = asked \cup Fresh(requests)
  BY EventBusAssumption DEF Send, TypeOK, Fresh, Ids
<1>2. \A i \in 1 .. n : requests[i][1] \in Kinds /\ requests[i][2] \in {0} \cup Ids
  OBVIOUS
<1>3. msgId' \in {0} \cup Ids /\ msgId <= msgId'
  BY <1>1 DEF Ids
<1>4. \A id \in Ids : id \in msgId + 1 .. msgId + n => id - msgId \in 1 .. n
  BY <1>1 DEF Ids
<1>5. pending' \in [Ids -> Kinds \cup {None}]
  BY <1>1, <1>2, <1>4 DEF Send
<1>6. \A id \in Ids : id <= msgId => pending'[id] = waiting[id]
  BY <1>1 DEF Send, Ids
<1>7. ASSUME NEW i \in 1 .. n
      PROVE  /\ msgId + i \in Ids /\ msgId + i > msgId /\ msgId + i <= msgId'
             /\ pending'[msgId + i] = requests[i][1]
  <2>1. /\ msgId + i \in Ids /\ msgId + i \in msgId + 1 .. msgId + n
        /\ msgId + i > msgId /\ msgId + i <= msgId' /\ (msgId + i) - msgId = i
    BY <1>1 DEF Ids
  <2> QED
    BY <2>1 DEF Send
<1>8. ASSUME NEW r \in Fresh(requests)
      PROVE  /\ r \in Requests /\ r.id > msgId /\ r.id <= msgId' /\ pending'[r.id] = r.kind
             /\ \A q \in Fresh(requests) : q.id = r.id => q = r
  <2>1. PICK i \in 1 .. n : r = [id |-> msgId + i, kind |-> requests[i][1],
                                 of |-> requests[i][2]]
    BY DEF Fresh
  <2>2. r \in Requests /\ r.id > msgId /\ r.id <= msgId' /\ pending'[r.id] = r.kind
    BY <1>2, <1>7, <2>1 DEF Requests
  <2>3. ASSUME NEW q \in Fresh(requests), q.id = r.id PROVE q = r
    <3>1. PICK j \in 1 .. n : q = [id |-> msgId + j, kind |-> requests[j][1],
                                   of |-> requests[j][2]]
      BY DEF Fresh
    <3>2. i = j
      BY <1>1, <2>1, <2>3, <3>1
    <3> QED
      BY <2>1, <3>1, <3>2
  <2> QED
    BY <2>2, <2>3
<1> QED
  BY <1>1, <1>3, <1>5, <1>6, <1>8 DEF TypeOK

LEMMA ConnectStep == ASSUME Inv, Connect PROVE Inv'
<1> DEFINE four == <<<<"state_changed", 0>>, <<"registry", 0>>, <<"states", 0>>,
                     <<"health", 0>>>>
<1>1. /\ TypeOK /\ asked = {} /\ open = {} /\ inbox = <<>> /\ subs = Empty
      /\ pending \in [Ids -> Kinds \cup {None}] /\ Send(pending, four)
      /\ UNCHANGED <<stopped, phase, delay, subs, open, inbox>> /\ connected' /\ phase = "session"
  BY DEF Inv, TypeOK, SessionInv, Connect
<1>2. four \in Seq(Kinds \X ({0} \cup Ids)) /\ Len(four) = 4
  BY DEF Kinds, Streams
<1>3. \A i \in 1 .. 4 : four[i][2] = 0 /\ four[i][1] # "unsub"
                        /\ (four[i][1] = "state_changed" => i = 1)
  OBVIOUS
<1> HIDE DEF four
<1>4. /\ msgId' \in {0} \cup Ids /\ msgId <= msgId' /\ msgId \in Nat
      /\ pending' \in [Ids -> Kinds \cup {None}] /\ asked' \subseteq Requests
      /\ asked' = Fresh(four)
      /\ \A r \in Fresh(four) :
           /\ r \in Requests /\ r.id > msgId /\ r.id <= msgId' /\ pending'[r.id] = r.kind
           /\ \A q \in Fresh(four) : q.id = r.id => q = r
  BY <1>1, <1>2, Sent, Fields
<1>5. \A r \in Fresh(four) : /\ r.of = 0 /\ r.kind # "unsub"
                             /\ (r.kind = "state_changed" => r.id = msgId + 1)
  BY <1>2, <1>3 DEF Fresh
<1>6. TypeOK'
  BY <1>1, <1>4 DEF TypeOK
<1>7. Places' = {} /\ \A id \in Ids : subs'[id] = None
  BY <1>1 DEF Places, Empty
<1>8. SessionInv' /\ HeldInv'
  BY <1>1, <1>7 DEF SessionInv, HeldInv
<1>9. AskedInv'
  BY <1>1, <1>4, <1>5, <1>7 DEF AskedInv, Requests
<1>10. OpenInv' /\ ResultInv' /\ EventInv'
  BY <1>1, <1>7 DEF OpenInv, ResultInv, EventInv
<1>11. \A x, y \in Bearers' : x = y
  BY <1>4, <1>5, <1>7 DEF Bearers, None
<1> QED
  BY <1>6, <1>8, <1>9, <1>10, <1>11 DEF Inv

-----------------------------------------------------------------------------
(* Core *)

\* The place of a message that Core sends.
LEMMA Delivered ==
  ASSUME TypeOK, NEW type \in {"event", "result"}, NEW id \in Ids, NEW kind \in Kinds,
         NEW body \in {"refused", "empty", "change", "initial", "finish"},
         Deliver(type, id, kind, body)
  PROVE  /\ inbox' \in Seq(Messages) /\ Len(inbox') = Len(inbox) + 1
         /\ Places' = Places \cup {Len(inbox) + 1}
         /\ \A i \in Places : inbox'[i] = inbox[i] /\ i < Len(inbox) + 1 /\ i <= Len(inbox)
         /\ LET m == inbox'[Len(inbox) + 1]
            IN  m.type = type /\ m.id = id /\ m.kind = kind /\ m.body = body
         /\ UNCHANGED <<stopped, phase, delay, connected, msgId, pending, subs>> /\ connected
<1> DEFINE new == [type |-> type, id |-> id, kind |-> kind, body |-> body]
<1>1. new \in Messages
  BY DEF Messages
<1>2. /\ new.type = type /\ new.id = id /\ new.kind = kind /\ new.body = body
      /\ inbox' = Append(inbox, new) /\ inbox \in Seq(Messages)
      /\ UNCHANGED <<stopped, phase, delay, connected, msgId, pending, subs>> /\ connected
  BY DEF Deliver, TypeOK, loop, client
<1> HIDE DEF new
<1>3. /\ inbox' \in Seq(Messages) /\ Len(inbox') = Len(inbox) + 1 /\ Len(inbox) \in Nat
      /\ \A i \in Places : inbox'[i] = inbox[i] /\ i < Len(inbox) + 1 /\ i <= Len(inbox)
      /\ inbox'[Len(inbox) + 1] = new
  BY <1>1, <1>2 DEF Places
<1>4. Places' = Places \cup {Len(inbox) + 1}
  BY <1>3 DEF Places
<1> QED
  BY <1>2, <1>3, <1>4

\* A request is answered.
LEMMA AnswerStep ==
  ASSUME Inv, NEW r \in asked, Grant(r) \/ Refuse(r)
  PROVE  Inv'
<1> DEFINE n == Len(inbox) + 1
<1>1. /\ r \in Requests /\ r.id \in Ids /\ r.kind \in Kinds /\ Len(inbox) \in Nat /\ TypeOK
      /\ r.id <= msgId /\ pending[r.id] = r.kind /\ subs[r.id] = None
      /\ asked' = asked \ {r}
  BY Fields DEF Inv, AskedInv, Grant, Refuse
<1>2. PICK body \in {"refused", "empty"} :
        /\ Deliver("result", r.id, r.kind, body)
        /\ \/ body = "refused" /\ r.kind \in Streams /\ open' = open
           \/ body = "empty" /\ r.kind \in Streams
              /\ open' = open \cup {[id |-> r.id, kind |-> r.kind, got |-> "nothing"]}
           \/ body = "empty" /\ r.kind \notin Streams /\ open' = {s \in open : s.id # r.of}
  BY DEF Grant, Refuse
<1>3. /\ inbox' \in Seq(Messages) /\ Len(inbox') = n /\ n \in Nat
      /\ Places' = Places \cup {n}
      /\ \A i \in Places : inbox'[i] = inbox[i] /\ i < n /\ i \in Nat
      /\ ~(n \in Places)
      /\ inbox'[n].type = "result" /\ inbox'[n].id = r.id /\ inbox'[n].kind = r.kind
      /\ inbox'[n].body = body
      /\ UNCHANGED <<stopped, phase, delay, connected, msgId, pending, subs>> /\ connected
  BY <1>1, <1>2, Delivered, Fields
<1> HIDE DEF n
<1>4. TypeOK'
  <2>1. r.kind \in Streams =>
          [id |-> r.id, kind |-> r.kind, got |-> "nothing"] \in Open
    BY <1>1 DEF Open
  <2> QED
    BY <1>1, <1>2, <1>3, <2>1 DEF TypeOK
<1>5. /\ \A q \in asked' : q \in asked /\ q.id # r.id
      /\ \A i \in Places : IsResult(i) => inbox[i].id # r.id
      /\ \A i \in Places : ~IsResult(i) => inbox[i].id # r.id
      /\ \A s \in open : s.id # r.id
  BY <1>1 DEF Inv, AskedInv, ResultInv, Sound, EventInv, Expected, OpenInv
<1>6. ASSUME NEW id, Served(id), id # r.id
      PROVE  Served(id)'
  BY <1>1, <1>3, <1>5, <1>6 DEF Served, IsResult
<1>7. AskedInv'
  <2>1. ASSUME NEW q \in asked', q.kind = "unsub" PROVE Served(q.of)'
    <3>1. Served(q.of) /\ q.of # r.id
      BY <1>1, <1>5, <2>1 DEF Inv, AskedInv, Served
    <3> QED
      BY <1>6, <3>1
  <2> QED
    BY <1>3, <1>5, <2>1 DEF Inv, AskedInv
<1>8. SessionInv'
  BY <1>3 DEF Inv, SessionInv
\* No result is on its way for what this answer closes.
<1>9. r.kind \notin Streams =>
        \A s \in open : s.id = r.of =>
          /\ subs[s.id] = None
          /\ \A i \in Places : IsResult(i) => inbox[i].id # s.id
  BY <1>1, Fields DEF Inv, AskedInv, Served, Ids
<1>10. ResultInv'
  <2> SUFFICES ASSUME NEW i \in Places', IsResult(i)' PROVE Sound(i)'
    BY DEF ResultInv
  <2>1. CASE i = n
    <3>1. body # "refused" /\ r.kind \in Streams => \E s \in open' : s.id = r.id
      <4>1. body # "refused" /\ r.kind \in Streams =>
              [id |-> r.id, kind |-> r.kind, got |-> "nothing"] \in open'
        BY <1>2
      <4> QED
        BY <4>1
    <3> QED
      BY <1>1, <1>3, <1>5, <2>1, <3>1 DEF Sound, IsResult
  <2>2. CASE i \in Places
    <3>1. Sound(i) /\ IsResult(i) /\ inbox'[i] = inbox[i]
      BY <1>3, <2>2 DEF IsResult, Inv, ResultInv
    <3>2. ASSUME NEW s \in open, s.id = inbox[i].id PROVE s \in open'
      BY <1>2, <1>9, <2>2, <3>1, <3>2 DEF Inv, OpenInv
    <3>3. (\E s \in open : s.id = inbox[i].id) => \E s \in open' : s.id = inbox[i].id
      BY <3>2
    <3> QED
      BY <1>3, <1>5, <2>2, <3>1, <3>3 DEF Sound, IsResult
  <2> QED
    BY <1>3, <2>1, <2>2
<1>11. EventInv'
  <2> SUFFICES ASSUME NEW i \in Places', ~IsResult(i)'
               PROVE  Expected(i)'
    BY DEF EventInv
  <2>1. i \in Places /\ inbox'[i] = inbox[i] /\ ~IsResult(i) /\ i \in Nat
    BY <1>3 DEF IsResult
  <2>2. Confirmed(inbox[i].id, inbox[i].kind, i)
    BY <2>1 DEF Inv, EventInv, Expected
  <2>3. Confirmed(inbox[i].id, inbox[i].kind, i)'
    BY <1>3, <2>1, <2>2 DEF Confirmed, IsResult
  <2>4. \A j \in Places' : ~IsResult(j)' => j \in Places /\ inbox'[j] = inbox[j] /\ ~IsResult(j)
    BY <1>3 DEF IsResult
  <2> QED
    BY <1>3, <1>5, <2>1, <2>3, <2>4 DEF Inv, EventInv, Expected
<1>12. OpenInv'
  <2>1. ASSUME NEW s \in open', s \in open
        PROVE  /\ s.id <= msgId' /\ \A q \in asked' : q.id # s.id
               /\ s.kind = "state_changed" => s.got = "nothing"
               /\ s.got # "finish" =>
                    /\ Confirmed(s.id, s.kind, Len(inbox) + 1)'
                    /\ \A i \in Places' : inbox'[i].id = s.id => inbox'[i].body # "finish"
               /\ s.got = "finish" =>
                    \/ \E i \in Places' : ~IsResult(i)' /\ inbox'[i].id = s.id
                                          /\ inbox'[i].body = "finish"
                    \/ \E q \in asked' : q.kind = "unsub" /\ q.of = s.id
    <3>1. s.got # "finish" => Confirmed(s.id, s.kind, Len(inbox) + 1)'
      <4>1. s.got # "finish" => Confirmed(s.id, s.kind, Len(inbox) + 1)
        BY <2>1 DEF Inv, OpenInv
      <4>2. Len(inbox) + 1 \in Nat /\ Len(inbox') + 1 \in Nat /\ Len(inbox) + 1 <= Len(inbox') + 1
        BY <1>1, <1>3 DEF n
      <4> QED
        BY <1>3, <4>1, <4>2 DEF Confirmed, IsResult, Places
    <3>2. r.kind = "unsub" => s.id # r.of
      BY <1>2, <2>1 DEF Streams
    <3> QED
      BY <1>1, <1>3, <1>5, <2>1, <3>1, <3>2 DEF Inv, OpenInv, IsResult
  <2>2. ASSUME NEW s \in open', ~(s \in open)
        PROVE  /\ s = [id |-> r.id, kind |-> r.kind, got |-> "nothing"]
               /\ Confirmed(s.id, s.kind, Len(inbox) + 1)' /\ s.kind \in Streams
               /\ \A i \in Places' : inbox'[i].id = s.id => inbox'[i].body # "finish"
    <3>1. /\ s = [id |-> r.id, kind |-> r.kind, got |-> "nothing"]
          /\ body = "empty" /\ r.kind \in Streams
      BY <1>2, <2>2
    <3>2. n \in Places' /\ n < Len(inbox') + 1
      BY <1>3
    <3> QED
      BY <1>3, <1>5, <3>1, <3>2 DEF Confirmed, IsResult
  <2>3. \A s, t \in open' : t.id = s.id => t = s
    BY <1>5, <2>2 DEF Inv, OpenInv
  <2> QED
    BY <1>1, <1>3, <1>5, <2>1, <2>2, <2>3 DEF OpenInv
<1>13. HeldInv'
  <2> SUFFICES ASSUME NEW id \in Ids, subs[id] # None PROVE \E s \in open' : s.id = id
    BY <1>3 DEF HeldInv
  <2>1. PICK s \in open : s.id = id
    BY <1>3 DEF Inv, HeldInv
  <2> QED
    BY <1>2, <1>9, <2>1
<1>14. \A x, y \in Bearers' : x = y
  <2>1. Bearers' \subseteq Bearers
    BY <1>1, <1>3, <1>5 DEF Bearers, IsResult
  <2> QED
    BY <2>1 DEF Inv
<1> QED
  BY <1>4, <1>7, <1>8, <1>10, <1>11, <1>12, <1>13, <1>14 DEF Inv

\* An event of a subscription is sent.
LEMMA StreamStep ==
  ASSUME Inv, NEW s \in open, Stream(s) \/ StreamHealth(s)
  PROVE  Inv'
<1> DEFINE n == Len(inbox) + 1
<1>1. /\ s \in Open /\ s.id \in Ids /\ s.kind \in Streams /\ Len(inbox) \in Nat /\ TypeOK
      /\ s.id <= msgId /\ \A r \in asked : r.id # s.id
      /\ s.got # "finish" /\ \A t \in open : t.id = s.id => t = s
      /\ Confirmed(s.id, s.kind, Len(inbox) + 1)
      /\ \A i \in Places : inbox[i].id = s.id => inbox[i].body # "finish"
  BY Fields DEF Inv, OpenInv, Stream, StreamHealth
<1>2. PICK body \in {"change", "initial", "finish"} :
        /\ Deliver("event", s.id, s.kind, body)
        /\ body = "finish" => s.kind = "health"
        /\ \/ open' = open /\ body = "change"
           \/ s.kind = "health" /\ body # "change"
              /\ open' = (open \ {s}) \cup {[s EXCEPT !.got = body]}
  BY DEF Stream, StreamHealth
<1>3. /\ inbox' \in Seq(Messages) /\ Len(inbox') = n /\ n \in Nat
      /\ Places' = Places \cup {n}
      /\ \A i \in Places : inbox'[i] = inbox[i] /\ i < n /\ i <= n /\ i \in Nat
      /\ ~(n \in Places)
      /\ inbox'[n].type = "event" /\ inbox'[n].id = s.id /\ inbox'[n].kind = s.kind
      /\ inbox'[n].body = body
      /\ UNCHANGED <<stopped, phase, delay, connected, msgId, pending, subs>> /\ connected
  BY <1>1, <1>2, Delivered, Fields DEF Kinds
<1>4. asked' = asked
  BY DEF Stream, StreamHealth
<1> DEFINE new == [s EXCEPT !.got = body]
<1>5. /\ body # "change" => new \in Open
      /\ new.id = s.id /\ new.kind = s.kind /\ new.got = body
  BY <1>1, <1>2 DEF Open
<1> HIDE DEF n, new
<1>6. TypeOK'
  BY <1>1, <1>2, <1>3, <1>4, <1>5 DEF TypeOK, new
<1>7. SessionInv'
  BY <1>3 DEF Inv, SessionInv
<1>8. \A i \in Places' : IsResult(i)' => i \in Places /\ IsResult(i) /\ inbox'[i] = inbox[i]
  BY <1>3 DEF IsResult
<1>9. AskedInv'
  BY <1>3, <1>4, <1>8 DEF Inv, AskedInv, Served
<1>10. \A id : (\E t \in open : t.id = id) => \E t \in open' : t.id = id
  BY <1>2, <1>5 DEF new
<1>11. ResultInv'
  <2> SUFFICES ASSUME NEW i \in Places, IsResult(i), i \in Places', IsResult(i)',
                      inbox'[i] = inbox[i]
               PROVE  Sound(i)'
    BY <1>8 DEF ResultInv
  <2>1. Sound(i)
    BY DEF Inv, ResultInv
  <2> QED
    BY <1>3, <1>4, <1>8, <1>10, <2>1 DEF Sound
<1>12. EventInv'
  <2> SUFFICES ASSUME NEW i \in Places', ~IsResult(i)' PROVE Expected(i)'
    BY DEF EventInv
  <2>1. CASE i = n
    <3>1. Confirmed(s.id, s.kind, n)'
      BY <1>1, <1>3 DEF Confirmed, IsResult, n
    <3>2. \A j \in Places' : j <= n
      BY <1>3
    <3> QED
      BY <1>1, <1>2, <1>3, <1>4, <2>1, <3>1, <3>2 DEF Expected, Confirmed
  <2>2. CASE i \in Places
    <3>1. inbox'[i] = inbox[i] /\ ~IsResult(i) /\ i \in Nat /\ Expected(i)
      BY <1>3, <2>2 DEF IsResult, Inv, EventInv
    <3>2. Confirmed(inbox[i].id, inbox[i].kind, i)'
      BY <1>3, <3>1 DEF Expected, Confirmed, IsResult
    <3>3. inbox[i].body = "finish" => inbox[i].id # s.id
      BY <1>1, <2>2
    <3>4. \A j \in Places' : j = n \/ (j \in Places /\ inbox'[j] = inbox[j])
      BY <1>3
    <3> QED
      BY <1>3, <1>4, <3>1, <3>2, <3>3, <3>4 DEF Expected, IsResult
  <2> QED
    BY <1>3, <2>1, <2>2
<1>13. OpenInv'
  <2>1. ASSUME NEW t \in open', t \in open, t # s
        PROVE  /\ t.id <= msgId' /\ \A q \in asked' : q.id # t.id
               /\ t.kind = "state_changed" => t.got = "nothing"
               /\ t.got # "finish" =>
                    /\ Confirmed(t.id, t.kind, Len(inbox) + 1)'
                    /\ \A i \in Places' : inbox'[i].id = t.id => inbox'[i].body # "finish"
               /\ t.got = "finish" =>
                    \/ \E i \in Places' : ~IsResult(i)' /\ inbox'[i].id = t.id
                                          /\ inbox'[i].body = "finish"
                    \/ \E q \in asked' : q.kind = "unsub" /\ q.of = t.id
    <3>1. t.id # s.id
      BY <1>1, <2>1
    <3>2. t.got # "finish" => Confirmed(t.id, t.kind, Len(inbox) + 1)'
      <4>1. t.got # "finish" => Confirmed(t.id, t.kind, Len(inbox) + 1)
        BY <2>1 DEF Inv, OpenInv
      <4> QED
        BY <1>1, <1>3, <4>1 DEF Confirmed, IsResult, n
    <3> QED
      BY <1>3, <1>4, <2>1, <3>1, <3>2 DEF Inv, OpenInv, IsResult
  <2>2. ASSUME NEW t \in open', t.id = s.id
        PROVE  /\ t.kind = s.kind /\ t.got = IF body = "change" THEN s.got ELSE body
               /\ t = IF body = "change" THEN s ELSE new
    BY <1>1, <1>2, <1>5, <2>2 DEF new
  <2>3. \A t \in open' : t.id # s.id => t \in open /\ t # s
    BY <1>2, <1>5 DEF new
  <2>4. \A t, u \in open' : t.id = u.id => t = u
    BY <2>2, <2>3 DEF Inv, OpenInv
  <2>5. Confirmed(s.id, s.kind, n + 1)'
    BY <1>1, <1>3 DEF Confirmed, IsResult, n
  <2>6. \A i \in Places' : inbox'[i].id = s.id /\ body # "finish" => inbox'[i].body # "finish"
    BY <1>1, <1>3
  <2>7. ASSUME NEW t \in open', t.id = s.id
        PROVE  /\ t.id <= msgId' /\ \A q \in asked' : q.id # t.id
               /\ t.kind = "state_changed" => t.got = "nothing"
               /\ t.got # "finish" =>
                    /\ Confirmed(t.id, t.kind, Len(inbox) + 1)'
                    /\ \A i \in Places' : inbox'[i].id = t.id => inbox'[i].body # "finish"
               /\ t.got = "finish" =>
                    \E i \in Places' : ~IsResult(i)' /\ inbox'[i].id = t.id
                                       /\ inbox'[i].body = "finish"
    <3>1. s.kind = "state_changed" => s.got = "nothing" /\ body = "change"
      BY <1>2 DEF Inv, OpenInv, Stream, StreamHealth
    <3>2. Confirmed(t.id, t.kind, Len(inbox) + 1)'
      BY <1>3, <2>2, <2>5, <2>7 DEF Confirmed
    <3> QED
      BY <1>1, <1>2, <1>3, <1>4, <2>2, <2>6, <2>7, <3>1, <3>2 DEF IsResult
  <2> QED
    BY <2>1, <2>3, <2>4, <2>7 DEF OpenInv
<1>14. HeldInv'
  BY <1>3, <1>10 DEF Inv, HeldInv
<1>15. \A x, y \in Bearers' : x = y
  <2>1. Bearers' \subseteq Bearers
    BY <1>3, <1>4, <1>8 DEF Bearers
  <2> QED
    BY <2>1 DEF Inv
<1> QED
  BY <1>6, <1>7, <1>9, <1>11, <1>12, <1>13, <1>14, <1>15 DEF Inv

-----------------------------------------------------------------------------
(* The watcher reads a message *)

LEMMA ReadMessage ==
  ASSUME TypeOK, inbox # <<>>, inbox' = Tail(inbox)
  PROVE  /\ 1 \in Places /\ Head(inbox) = inbox[1]
         /\ inbox' \in Seq(Messages) /\ Len(inbox') = Len(inbox) - 1 /\ Len(inbox) \in Nat
         /\ \A i \in Places' : /\ i \in Nat \ {0} /\ i + 1 \in Places /\ i + 1 # 1
                               /\ inbox'[i] = inbox[i + 1]
         /\ \A k \in Places : k # 1 => /\ k \in Nat /\ k - 1 \in Places' /\ (k - 1) + 1 = k
                                       /\ inbox'[k - 1] = inbox[k]
  BY DEF TypeOK, Places

\* What is sent after a message: a request that closes the subscription id, if it
\* has served, and perhaps one about health.
After(waiting, id, closing, fresh) ==
  /\ asked' = asked \cup fresh
  /\ msgId' \in {0} \cup Ids /\ msgId <= msgId'
  /\ pending' \in [Ids -> Kinds \cup {None}]
  /\ \A y \in Ids : y <= msgId => pending'[y] = waiting[y]
  /\ \A r \in fresh :
       /\ r.id > msgId /\ r.id <= msgId' /\ pending'[r.id] = r.kind
       /\ \A q \in fresh : q.id = r.id => q = r
       /\ \/ r.kind = "health" /\ r.of = 0
          \/ r.kind = "unsub" /\ r.of = id /\ closing
  /\ closing => \E r \in fresh : r.kind = "unsub" /\ r.of = id

LEMMA SentAfter ==
  ASSUME TypeOK, NEW waiting \in [Ids -> Kinds \cup {None}], NEW id \in Ids,
         NEW closing \in BOOLEAN, NEW close, close = IF closing THEN Close(id) ELSE <<>>,
         SendAfter(waiting, close)
  PROVE  \E fresh \in SUBSET Requests : After(waiting, id, closing, fresh)
<1> DEFINE Pairs == Kinds \X ({0} \cup Ids)
<1>1. PICK requests \in {close, Append(close, <<"health", 0>>)} : Send(waiting, requests)
  BY DEF SendAfter
<1>2. /\ requests \in Seq(Pairs)
      /\ \A i \in 1 .. Len(requests) :
           \/ requests[i][1] = "health" /\ requests[i][2] = 0
           \/ requests[i][1] = "unsub" /\ requests[i][2] = id /\ closing
      /\ closing => /\ 1 \in 1 .. Len(requests)
                    /\ requests[1][1] = "unsub" /\ requests[1][2] = id
  <2> DEFINE health == <<"health", 0>>
             unsub == <<"unsub", id>>
  <2>1. /\ health \in Pairs /\ health[1] = "health" /\ health[2] = 0
        /\ unsub \in Pairs /\ unsub[1] = "unsub" /\ unsub[2] = id
        /\ close = (IF closing THEN <<unsub>> ELSE <<>>)
        /\ requests \in {close, Append(close, health)}
    BY DEF Kinds, Streams, Close
  <2> HIDE DEF health, unsub, Pairs
  <2>2. /\ close \in Seq(Pairs)
        /\ closing => Len(close) = 1 /\ close[1] = unsub
        /\ ~closing => Len(close) = 0
    <3>1. CASE closing
      <4>1. close = <<unsub>>
        BY <2>1, <3>1
      <4>2. Len(<<unsub>>) = 1 /\ <<unsub>>[1] = unsub /\ <<unsub>> \in Seq(Pairs)
        BY <2>1
      <4> QED
        BY <3>1, <4>1, <4>2
    <3>2. CASE ~closing
      BY <2>1, <3>2
    <3> QED
      BY <3>1, <3>2
  <2>3. requests \in Seq(Pairs)
    <3>1. Append(close, health) \in Seq(Pairs)
      BY <2>1, <2>2
    <3> QED
      BY <2>1, <2>2, <3>1
  <2>4. \A i \in 1 .. Len(requests) : requests[i] = health \/ (requests[i] = unsub /\ closing)
    <3>1. CASE requests = close
      BY <2>1, <2>2, <3>1
    <3>2. CASE requests = Append(close, health)
      BY <2>1, <2>2, <3>2
    <3> QED
      BY <2>1, <3>1, <3>2
  <2>5. closing => 1 \in 1 .. Len(requests) /\ requests[1] = unsub
    <3>1. CASE requests = close
      BY <2>1, <2>2, <3>1
    <3>2. CASE requests = Append(close, health)
      BY <2>1, <2>2, <3>2
    <3> QED
      BY <2>1, <3>1, <3>2
  <2> QED
    BY <2>1, <2>3, <2>4, <2>5
<1>3. /\ msgId' \in {0} \cup Ids /\ msgId <= msgId'
      /\ pending' \in [Ids -> Kinds \cup {None}]
      /\ \A y \in Ids : y <= msgId => pending'[y] = waiting[y]
      /\ asked' = asked \cup Fresh(requests) /\ asked' \subseteq Requests
      /\ \A r \in Fresh(requests) :
           /\ r \in Requests /\ r.id > msgId /\ r.id <= msgId' /\ pending'[r.id] = r.kind
           /\ \A q \in Fresh(requests) : q.id = r.id => q = r
  BY <1>1, <1>2, Sent
<1>4. ASSUME NEW r \in Fresh(requests)
      PROVE  \/ r.kind = "health" /\ r.of = 0
             \/ r.kind = "unsub" /\ r.of = id /\ closing
  <2>1. PICK i \in 1 .. Len(requests) :
          r = [id |-> msgId + i, kind |-> requests[i][1], of |-> requests[i][2]]
    BY DEF Fresh
  <2>2. r.kind = requests[i][1] /\ r.of = requests[i][2]
    BY <2>1
  <2> QED
    BY <1>2, <2>2
<1>5. closing => \E r \in Fresh(requests) : r.kind = "unsub" /\ r.of = id
  <2>1. closing =>
          [id |-> msgId + 1, kind |-> requests[1][1], of |-> requests[1][2]]
            \in Fresh(requests)
    BY <1>2 DEF Fresh
  <2> QED
    BY <1>2, <2>1
<1> QED
  BY <1>3, <1>4, <1>5 DEF After

LEMMA EventStep ==
  ASSUME Inv, Handle, HandleEvent(Head(inbox))
  PROVE  Inv'
<1> DEFINE m == inbox[1]
<1>0. PICK x \in Ids : x = m.id
  <2>1. 1 \in Places
    BY ReadMessage DEF Inv, Handle
  <2> QED
    BY <2>1, Fields DEF Inv
<1> DEFINE finish == subs[x] = "health" /\ m.body = "finish"
<1>1. /\ TypeOK /\ Head(inbox) = m /\ 1 \in Places /\ x \in Ids /\ m.kind \in Kinds
      /\ inbox' \in Seq(Messages) /\ Len(inbox') = Len(inbox) - 1 /\ Len(inbox) \in Nat
      /\ \A i \in Places' : /\ i \in Nat \ {0} /\ i + 1 \in Places /\ i + 1 # 1
                            /\ inbox'[i] = inbox[i + 1]
      /\ \A k \in Places : k # 1 => /\ k \in Nat /\ k - 1 \in Places' /\ (k - 1) + 1 = k
                                    /\ inbox'[k - 1] = inbox[k]
      /\ UNCHANGED <<stopped, phase, delay, connected, open>> /\ inbox # <<>>
  BY ReadMessage, Fields DEF Inv, Handle, loop
<1>2. /\ ~IsResult(1) /\ x <= msgId /\ subs[x] = m.kind /\ m.kind \in Streams
      /\ \A r \in asked : r.id # x
      /\ m.body = "finish" =>
           m.kind = "health" /\ \A j \in Places : ~IsResult(j) /\ inbox[j].id = x => j <= 1
  <2>1. ~IsResult(1)
    BY <1>1 DEF HandleEvent, IsResult
  <2>2. Expected(1) /\ \A k \in Places : ~(k < 1)
    BY <1>1, <2>1 DEF Inv, EventInv, Places
  <2> QED
    BY <1>0, <2>1, <2>2 DEF Expected, Confirmed
<1>3. /\ subs' = IF finish THEN [subs EXCEPT ![x] = None] ELSE subs
      /\ SendAfter(pending, IF finish THEN Close(x) ELSE <<>>)
  BY <1>0, <1>1 DEF HandleEvent, Route
<1> HIDE DEF m, finish
<1>4. PICK fresh \in SUBSET Requests : After(pending, x, finish, fresh)
  <2>1. finish \in BOOLEAN /\ pending \in [Ids -> Kinds \cup {None}]
    BY <1>1 DEF finish, TypeOK
  <2> QED
    BY <1>1, <1>3, <2>1, SentAfter
<1>5. /\ msgId \in Nat /\ msgId' \in Nat /\ \A y \in Ids : y \in Nat \ {0}
      /\ subs \in [Ids -> Streams \cup {None}]
      /\ \A r \in asked : r.id \in Ids /\ r.of \in {0} \cup Ids /\ r.id <= msgId
      /\ \A r \in fresh : r.id \in Ids
      /\ \A s \in open : s.id \in Ids /\ s.kind \in Streams /\ s.id <= msgId
      /\ \A i \in Places : inbox[i].id \in Ids /\ inbox[i].id <= msgId
  BY <1>1, <1>4, Fields
     DEF TypeOK, Ids, Requests, Inv, AskedInv, OpenInv, ResultInv, Sound, EventInv, Expected,
         After
<1>6. /\ subs' \in [Ids -> Streams \cup {None}]
      /\ \A y \in Ids : y # x => subs'[y] = subs[y]
      /\ subs'[x] = IF finish THEN None ELSE subs[x]
      /\ \A y \in Ids : subs[y] = None => subs'[y] = None
  BY <1>1, <1>3, <1>5
<1>7. TypeOK'
  BY <1>1, <1>4, <1>6 DEF TypeOK, After
<1>8. \A i \in Places : IsResult(i) => inbox[i].id # x /\ i # 1
  BY <1>0, <1>2 DEF Inv, ResultInv, Sound, Streams, None
<1>9. SessionInv' /\ HeldInv'
  BY <1>1, <1>4, <1>5, <1>6 DEF Inv, SessionInv, HeldInv, After
<1>10. \A i \in Places' : /\ i + 1 \in Places /\ inbox'[i] = inbox[i + 1]
                           /\ (IsResult(i)' <=> IsResult(i + 1))
  BY <1>1 DEF IsResult
<1>11. ASSUME NEW y \in Ids, Served(y)
       PROVE  Served(y)'
  <2>1. y <= msgId' /\ subs'[y] = None
    BY <1>4, <1>5, <1>6, <1>11 DEF Served, After
  <2>2. \A r \in asked' : r.id # y
    BY <1>4, <1>5, <1>11 DEF Served, After
  <2>3. \A i \in Places' : IsResult(i)' => inbox'[i].id # y
    BY <1>1, <1>11 DEF Served, IsResult
  <2> QED
    BY <2>1, <2>2, <2>3 DEF Served
<1>12. \A r \in asked' : (r \in asked /\ r.id <= msgId) \/ (r \in fresh /\ r.id > msgId)
  BY <1>4, <1>5 DEF After
<1>13. AskedInv'
  <2>1. ASSUME NEW r \in asked
        PROVE  /\ r.id <= msgId' /\ pending'[r.id] = r.kind /\ subs'[r.id] = None
               /\ \A q \in asked' : q.id = r.id => q = r
               /\ r.kind # "unsub" => r.of = 0
               /\ r.kind = "unsub" => r.of \in Ids /\ Served(r.of)'
    <3>1. /\ pending[r.id] = r.kind /\ subs[r.id] = None
          /\ \A q \in asked : q.id = r.id => q = r
          /\ r.kind # "unsub" => r.of = 0
          /\ r.kind = "unsub" => r.of \in Ids /\ Served(r.of)
      BY DEF Inv, AskedInv
    <3>2. r.id <= msgId' /\ pending'[r.id] = r.kind /\ subs'[r.id] = None
      BY <1>4, <1>5, <1>6, <3>1 DEF After
    <3>3. \A q \in asked' : q.id = r.id => q = r
      BY <1>5, <1>12, <3>1
    <3> QED
      BY <1>11, <3>1, <3>2, <3>3
  <2>2. ASSUME NEW r \in fresh
        PROVE  /\ r.id <= msgId' /\ pending'[r.id] = r.kind /\ subs'[r.id] = None
               /\ \A q \in asked' : q.id = r.id => q = r
               /\ r.kind # "unsub" => r.of = 0
               /\ r.kind = "unsub" => r.of \in Ids /\ Served(r.of)'
    <3>1. r.id <= msgId' /\ pending'[r.id] = r.kind /\ r.id > msgId /\ r.id \in Ids
      BY <1>4, <1>5 DEF After
    <3>2. subs'[r.id] = None
      BY <1>6, <3>1 DEF Inv, SessionInv
    <3>3. \A q \in asked' : q.id = r.id => q = r
      BY <1>4, <1>5, <1>12, <3>1 DEF After
    <3>4. \/ r.kind = "health" /\ r.of = 0
          \/ r.kind = "unsub" /\ r.of = x /\ finish
      BY <1>4 DEF After
    <3>5. finish => Served(x)'
      <4>1. \A q \in asked' : q.id # x
        BY <1>2, <1>5, <1>12
      <4>2. \A i \in Places' : IsResult(i)' => inbox'[i].id # x
        BY <1>8, <1>10
      <4> QED
        BY <1>2, <1>4, <1>5, <1>6, <4>1, <4>2 DEF Served, After
    <3> QED
      BY <1>1, <3>1, <3>2, <3>3, <3>4, <3>5
  <2> QED
    BY <1>12, <2>1, <2>2 DEF AskedInv
<1>14. ResultInv'
  <2> SUFFICES ASSUME NEW i \in Places', IsResult(i)' PROVE Sound(i)'
    BY DEF ResultInv
  <2>1. /\ i + 1 \in Places /\ IsResult(i + 1) /\ Sound(i + 1) /\ inbox'[i] = inbox[i + 1]
        /\ inbox[i + 1].id \in Ids /\ inbox[i + 1].id <= msgId /\ i \in Nat
    BY <1>1, <1>5, <1>10 DEF Inv, ResultInv
  <2>2. \A j \in Places' : IsResult(j)' /\ inbox'[j].id = inbox'[i].id => j = i
    <3> SUFFICES ASSUME NEW j \in Places', IsResult(j)', inbox'[j].id = inbox'[i].id
                 PROVE  j = i
      OBVIOUS
    <3>1. j + 1 \in Places /\ IsResult(j + 1) /\ inbox[j + 1].id = inbox[i + 1].id /\ j \in Nat
      BY <1>1, <1>10, <2>1
    <3>2. j + 1 = i + 1
      BY <2>1, <3>1 DEF Sound
    <3> QED
      BY <2>1, <3>1, <3>2
  <2>3. \A q \in asked' : q.id # inbox[i + 1].id
    BY <1>5, <1>12, <2>1 DEF Sound
  <2> QED
    BY <1>1, <1>4, <1>5, <1>6, <2>1, <2>2, <2>3 DEF Sound, After
<1>15. EventInv'
  <2> SUFFICES ASSUME NEW i \in Places', ~IsResult(i)' PROVE Expected(i)'
    BY DEF EventInv
  <2>1. /\ i + 1 \in Places /\ ~IsResult(i + 1) /\ Expected(i + 1) /\ inbox'[i] = inbox[i + 1]
        /\ inbox[i + 1].id \in Ids /\ inbox[i + 1].id <= msgId /\ i \in Nat /\ i + 1 # 1
        /\ ~(i + 1 <= 1)
    BY <1>1, <1>5, <1>10 DEF Inv, EventInv
  <2>2. finish => inbox[i + 1].id # x
    BY <1>2, <2>1 DEF finish
  <2>3. Confirmed(inbox[i].id, inbox[i].kind, i)'
    <3>1. CASE subs[inbox[i + 1].id] = inbox[i + 1].kind
      BY <1>6, <2>1, <2>2, <3>1 DEF Confirmed
    <3>2. ASSUME NEW k \in Places, k < i + 1, IsResult(k), inbox[k].id = inbox[i + 1].id,
                 inbox[k].kind = inbox[i + 1].kind, inbox[k].body # "refused"
          PROVE  Confirmed(inbox[i].id, inbox[i].kind, i)'
      <4>1. k - 1 \in Places' /\ inbox'[k - 1] = inbox[k] /\ k - 1 < i
        BY <1>1, <1>8, <2>1, <3>2
      <4> QED
        BY <2>1, <3>2, <4>1 DEF Confirmed, IsResult
    <3> QED
      BY <2>1, <3>1, <3>2 DEF Expected, Confirmed
  <2>4. \A q \in asked' : q.id # inbox[i + 1].id
    BY <1>5, <1>12, <2>1 DEF Expected
  <2>5. inbox[i + 1].body = "finish" =>
          \A j \in Places' : ~IsResult(j)' /\ inbox'[j].id = inbox'[i].id => j <= i
    <3> SUFFICES ASSUME inbox[i + 1].body = "finish",
                        NEW j \in Places', ~IsResult(j)', inbox'[j].id = inbox'[i].id
                 PROVE  j <= i
      OBVIOUS
    <3>1. j + 1 \in Places /\ ~IsResult(j + 1) /\ inbox[j + 1].id = inbox[i + 1].id /\ j \in Nat
      BY <1>1, <1>10, <2>1
    <3>2. j + 1 <= i + 1
      BY <2>1, <3>1 DEF Expected
    <3> QED
      BY <2>1, <3>1, <3>2
  <2> QED
    BY <1>1, <1>4, <1>5, <2>1, <2>3, <2>4, <2>5 DEF Expected, After
<1>16. OpenInv'
  <2>1. \A q \in asked' : \A s \in open : q.id # s.id
    BY <1>5, <1>12 DEF Inv, OpenInv
  <2>2. ASSUME NEW s \in open, s.got # "finish"
        PROVE  /\ Confirmed(s.id, s.kind, Len(inbox) + 1)'
               /\ \A i \in Places' : inbox'[i].id = s.id => inbox'[i].body # "finish"
    <3>1. /\ Confirmed(s.id, s.kind, Len(inbox) + 1) /\ s.id \in Ids
          /\ \A i \in Places : inbox[i].id = s.id => inbox[i].body # "finish"
      BY <1>5, <2>2 DEF Inv, OpenInv
    <3>2. finish => s.id # x
      BY <1>0, <1>1, <3>1 DEF finish
    <3>3. \A i \in Places' : inbox'[i].id = s.id => inbox'[i].body # "finish"
      BY <1>10, <3>1
    <3>4. CASE subs[s.id] = s.kind
      BY <1>6, <3>1, <3>2, <3>3, <3>4 DEF Confirmed
    <3>5. ASSUME NEW k \in Places, IsResult(k), inbox[k].id = s.id,
                 inbox[k].kind = s.kind, inbox[k].body # "refused"
          PROVE  Confirmed(s.id, s.kind, Len(inbox) + 1)'
      <4>1. k - 1 \in Places' /\ inbox'[k - 1] = inbox[k]
        BY <1>1, <1>8, <3>5
      <4>2. k - 1 < Len(inbox') + 1
        BY <1>1, <4>1 DEF Places
      <4> QED
        BY <3>5, <4>1, <4>2 DEF Confirmed, IsResult
    <3> QED
      BY <3>1, <3>3, <3>4, <3>5 DEF Confirmed
  <2>3. ASSUME NEW s \in open, s.got = "finish"
        PROVE  \/ \E i \in Places' : ~IsResult(i)' /\ inbox'[i].id = s.id
                                     /\ inbox'[i].body = "finish"
               \/ \E r \in asked' : r.kind = "unsub" /\ r.of = s.id
    <3>1. CASE \E r \in asked : r.kind = "unsub" /\ r.of = s.id
      BY <1>4, <3>1 DEF After
    <3>2. ASSUME NEW i \in Places, ~IsResult(i), inbox[i].id = s.id, inbox[i].body = "finish"
          PROVE  \/ \E j \in Places' : ~IsResult(j)' /\ inbox'[j].id = s.id
                                       /\ inbox'[j].body = "finish"
                 \/ \E r \in asked' : r.kind = "unsub" /\ r.of = s.id
      <4>1. CASE i = 1
        <5>1. finish /\ s.id = x
          BY <1>0, <1>2, <3>2, <4>1 DEF finish, m
        <5> QED
          BY <1>4, <5>1 DEF After
      <4>2. CASE i # 1
        <5>1. i - 1 \in Places' /\ inbox'[i - 1] = inbox[i]
          BY <1>1, <4>2
        <5> QED
          BY <3>2, <5>1 DEF IsResult
      <4> QED
        BY <4>1, <4>2
    <3> QED
      BY <2>3, <3>1, <3>2 DEF Inv, OpenInv
  <2>4. ASSUME NEW s \in open
        PROVE  /\ s.id <= msgId' /\ \A t \in open : t.id = s.id => t = s
               /\ s.kind = "state_changed" => s.got = "nothing"
    BY <1>4, <1>5 DEF Inv, OpenInv, After
  <2> QED
    BY <1>1, <2>1, <2>2, <2>3, <2>4 DEF OpenInv
<1>17. \A y, z \in Bearers' : y = z
  <2>1. \A r \in fresh : r.kind # "state_changed"
    BY <1>4 DEF After
  <2>2. Bearers' \subseteq Bearers
    <3> SUFFICES ASSUME NEW y \in Bearers' PROVE y \in Bearers
      OBVIOUS
    <3>1. CASE subs'[y] = "state_changed"
      BY <1>6, <3>1 DEF Bearers, None
    <3>2. CASE \E r \in asked' : r.id = y /\ r.kind = "state_changed"
      BY <1>12, <2>1, <3>2 DEF Bearers
    <3>3. CASE \E i \in Places' : IsResult(i)' /\ inbox'[i].id = y
                                  /\ inbox'[i].kind = "state_changed"
      BY <1>10, <3>3 DEF Bearers
    <3> QED
      BY <3>1, <3>2, <3>3 DEF Bearers
  <2> QED
    BY <2>2 DEF Inv
<1> QED
  BY <1>7, <1>9, <1>13, <1>14, <1>15, <1>16, <1>17 DEF Inv

LEMMA ResultStep ==
  ASSUME Inv, Handle, HandleResult(Head(inbox))
  PROVE  Inv'
<1> DEFINE m == inbox[1]
           waiting == [pending EXCEPT ![m.id] = None]
           granted == m.body # "refused" /\ m.kind \in Streams
<1>0. PICK x \in Ids : x = m.id
  <2>1. 1 \in Places
    BY ReadMessage DEF Inv, Handle
  <2> QED
    BY <2>1, Fields DEF Inv
<1>1. /\ TypeOK /\ Head(inbox) = m /\ 1 \in Places /\ m.kind \in Kinds
      /\ inbox' \in Seq(Messages) /\ Len(inbox') = Len(inbox) - 1 /\ Len(inbox) \in Nat
      /\ \A i \in Places' : /\ i \in Nat \ {0} /\ i + 1 \in Places /\ i + 1 # 1
                            /\ inbox'[i] = inbox[i + 1]
      /\ \A k \in Places : k # 1 => /\ k \in Nat /\ k - 1 \in Places' /\ (k - 1) + 1 = k
                                    /\ inbox'[k - 1] = inbox[k]
      /\ UNCHANGED <<stopped, phase, delay, connected, open>> /\ inbox # <<>>
  BY ReadMessage, Fields DEF Inv, Handle, loop
<1>2. /\ IsResult(1) /\ x <= msgId /\ pending[x] = m.kind /\ subs[x] = None
      /\ \A r \in asked : r.id # x
      /\ \A j \in Places : IsResult(j) /\ inbox[j].id = x => j = 1
      /\ granted => \E s \in open : s.id = x
  <2>1. IsResult(1)
    BY <1>1 DEF HandleResult, IsResult
  <2>2. Sound(1)
    BY <1>1, <2>1 DEF Inv, ResultInv
  <2> QED
    BY <1>0, <2>1, <2>2 DEF Sound
<1>3. /\ subs' = IF granted THEN [subs EXCEPT ![x] = m.kind] ELSE subs
      /\ SendAfter(waiting, <<>>)
  BY <1>0, <1>1, <1>2 DEF HandleResult
<1>4. /\ waiting \in [Ids -> Kinds \cup {None}]
      /\ \A y \in Ids : y # x => waiting[y] = pending[y]
  BY <1>0, <1>1 DEF TypeOK
<1> HIDE DEF m, granted, waiting
<1>5. PICK fresh \in SUBSET Requests : After(waiting, x, FALSE, fresh)
  BY <1>1, <1>3, <1>4, SentAfter
<1>6. /\ msgId \in Nat /\ msgId' \in Nat /\ \A y \in Ids : y \in Nat \ {0}
      /\ subs \in [Ids -> Streams \cup {None}]
      /\ \A r \in asked : r.id \in Ids /\ r.of \in {0} \cup Ids /\ r.id <= msgId
      /\ \A r \in fresh : r.id \in Ids
      /\ \A s \in open : s.id \in Ids /\ s.kind \in Streams /\ s.id <= msgId
      /\ \A i \in Places : inbox[i].id \in Ids /\ inbox[i].id <= msgId
                           /\ inbox[i].kind \in Kinds
  BY <1>1, <1>5, Fields
     DEF TypeOK, Ids, Requests, Inv, AskedInv, OpenInv, ResultInv, Sound, EventInv, Expected,
         After
<1>7. /\ subs' \in [Ids -> Streams \cup {None}]
      /\ \A y \in Ids : y # x => subs'[y] = subs[y]
      /\ subs'[x] = IF granted THEN m.kind ELSE None
  BY <1>2, <1>3, <1>6 DEF granted
<1>8. TypeOK'
  BY <1>1, <1>5, <1>7 DEF TypeOK, After
<1>9. \A i \in Places' : /\ i + 1 \in Places /\ inbox'[i] = inbox[i + 1]
                          /\ (IsResult(i)' <=> IsResult(i + 1))
  BY <1>1 DEF IsResult
<1>10. SessionInv'
  BY <1>1, <1>2, <1>5, <1>6, <1>7 DEF Inv, SessionInv, After
<1>11. HeldInv'
  BY <1>1, <1>2, <1>7 DEF Inv, HeldInv
<1>12. \A r \in asked' : (r \in asked /\ r.id <= msgId) \/ (r \in fresh /\ r.id > msgId)
  BY <1>5, <1>6 DEF After
<1>13. ASSUME NEW y \in Ids, Served(y)
       PROVE  Served(y)'
  <2>1. y # x
    BY <1>0, <1>1, <1>2, <1>13 DEF Served, m
  <2>2. y <= msgId' /\ subs'[y] = None
    BY <1>5, <1>6, <1>7, <1>13, <2>1 DEF Served, After
  <2>3. \A r \in asked' : r.id # y
    BY <1>5, <1>6, <1>12, <1>13 DEF Served
  <2>4. \A i \in Places' : IsResult(i)' => inbox'[i].id # y
    BY <1>1, <1>13 DEF Served, IsResult
  <2> QED
    BY <2>2, <2>3, <2>4 DEF Served
<1>14. AskedInv'
  <2>1. ASSUME NEW r \in asked
        PROVE  /\ r.id <= msgId' /\ pending'[r.id] = r.kind /\ subs'[r.id] = None
               /\ \A q \in asked' : q.id = r.id => q = r
               /\ r.kind # "unsub" => r.of = 0
               /\ r.kind = "unsub" => r.of \in Ids /\ Served(r.of)'
    <3>1. /\ pending[r.id] = r.kind /\ subs[r.id] = None /\ r.id # x
          /\ \A q \in asked : q.id = r.id => q = r
          /\ r.kind # "unsub" => r.of = 0
          /\ r.kind = "unsub" => r.of \in Ids /\ Served(r.of)
      BY <1>2 DEF Inv, AskedInv
    <3>2. r.id <= msgId' /\ pending'[r.id] = r.kind /\ subs'[r.id] = None
      BY <1>4, <1>5, <1>6, <1>7, <3>1 DEF After
    <3>3. \A q \in asked' : q.id = r.id => q = r
      BY <1>6, <1>12, <3>1
    <3> QED
      BY <1>13, <3>1, <3>2, <3>3
  <2>2. ASSUME NEW r \in fresh
        PROVE  /\ r.id <= msgId' /\ pending'[r.id] = r.kind /\ subs'[r.id] = None
               /\ \A q \in asked' : q.id = r.id => q = r
               /\ r.kind = "health" /\ r.of = 0
    <3>1. r.id <= msgId' /\ pending'[r.id] = r.kind /\ r.id > msgId /\ r.id \in Ids
      BY <1>5, <1>6 DEF After
    <3>2. subs'[r.id] = None
      BY <1>2, <1>6, <1>7, <3>1 DEF Inv, SessionInv
    <3>3. \A q \in asked' : q.id = r.id => q = r
      BY <1>5, <1>6, <1>12, <3>1 DEF After
    <3>4. r.kind = "health" /\ r.of = 0
      BY <1>5 DEF After
    <3> QED
      BY <3>1, <3>2, <3>3, <3>4
  <2> QED
    BY <1>12, <2>1, <2>2 DEF AskedInv
<1>15. ResultInv'
  <2> SUFFICES ASSUME NEW i \in Places', IsResult(i)' PROVE Sound(i)'
    BY DEF ResultInv
  <2>1. /\ i + 1 \in Places /\ IsResult(i + 1) /\ Sound(i + 1) /\ inbox'[i] = inbox[i + 1]
        /\ inbox[i + 1].id \in Ids /\ inbox[i + 1].id <= msgId /\ i \in Nat
        /\ inbox[i + 1].id # x
    BY <1>1, <1>2, <1>6, <1>9 DEF Inv, ResultInv
  <2>2. \A j \in Places' : IsResult(j)' /\ inbox'[j].id = inbox'[i].id => j = i
    <3> SUFFICES ASSUME NEW j \in Places', IsResult(j)', inbox'[j].id = inbox'[i].id
                 PROVE  j = i
      OBVIOUS
    <3>1. j + 1 \in Places /\ IsResult(j + 1) /\ inbox[j + 1].id = inbox[i + 1].id /\ j \in Nat
      BY <1>1, <1>9, <2>1
    <3>2. j + 1 = i + 1
      BY <2>1, <3>1 DEF Sound
    <3> QED
      BY <2>1, <3>1, <3>2
  <2>3. \A q \in asked' : q.id # inbox[i + 1].id
    BY <1>6, <1>12, <2>1 DEF Sound
  <2>4. pending'[inbox[i + 1].id] = inbox[i + 1].kind /\ inbox[i + 1].id <= msgId'
    BY <1>4, <1>5, <1>6, <2>1 DEF Sound, After
  <2> QED
    BY <1>1, <1>7, <2>1, <2>2, <2>3, <2>4 DEF Sound
\* What awaited the confirmation that has now been read knows it.
<1>16. ASSUME NEW y \in Ids, NEW kind \in Streams, NEW i \in Nat, NEW j \in Nat, i <= j + 1,
              Confirmed(y, kind, i)
       PROVE  \/ subs'[y] = kind
              \/ \E k \in Places' : /\ k < j /\ IsResult(k)' /\ inbox'[k].id = y
                                    /\ inbox'[k].kind = kind /\ inbox'[k].body # "refused"
  <2>1. CASE subs[y] = kind
    <3>1. y # x
      BY <1>2, <1>16, <2>1 DEF Streams, None
    <3> QED
      BY <1>7, <2>1, <3>1
  <2>2. ASSUME NEW k \in Places, k < i, IsResult(k), inbox[k].id = y,
               inbox[k].kind = kind, inbox[k].body # "refused"
        PROVE  \/ subs'[y] = kind
               \/ \E l \in Places' : /\ l < j /\ IsResult(l)' /\ inbox'[l].id = y
                                     /\ inbox'[l].kind = kind /\ inbox'[l].body # "refused"
    <3>1. CASE k = 1
      BY <1>0, <1>7, <1>16, <2>2, <3>1 DEF granted, m
    <3>2. CASE k # 1
      <4>1. k - 1 \in Places' /\ inbox'[k - 1] = inbox[k] /\ k - 1 < j
        BY <1>1, <1>16, <2>2, <3>2
      <4> QED
        BY <2>2, <4>1 DEF IsResult
    <3> QED
      BY <3>1, <3>2
  <2> QED
    BY <1>16, <2>1, <2>2 DEF Confirmed
<1>17. EventInv'
  <2> SUFFICES ASSUME NEW i \in Places', ~IsResult(i)' PROVE Expected(i)'
    BY DEF EventInv
  <2>1. /\ i + 1 \in Places /\ ~IsResult(i + 1) /\ Expected(i + 1) /\ inbox'[i] = inbox[i + 1]
        /\ inbox[i + 1].id \in Ids /\ inbox[i + 1].id <= msgId /\ i \in Nat /\ i + 1 \in Nat
    BY <1>1, <1>6, <1>9 DEF Inv, EventInv
  <2>2. Confirmed(inbox[i].id, inbox[i].kind, i)'
    <3>1. /\ Confirmed(inbox[i + 1].id, inbox[i + 1].kind, i + 1)
          /\ inbox[i + 1].kind \in Streams
      BY <2>1 DEF Expected
    <3>2. PICK y \in Ids : y = inbox[i + 1].id
      BY <2>1
    <3>3. PICK kind \in Streams : kind = inbox[i + 1].kind
      BY <3>1
    <3>4. Confirmed(y, kind, i + 1) /\ i + 1 <= i + 1
      BY <2>1, <3>1, <3>2, <3>3
    <3>5. \/ subs'[y] = kind
          \/ \E k \in Places' : /\ k < i /\ IsResult(k)' /\ inbox'[k].id = y
                                /\ inbox'[k].kind = kind /\ inbox'[k].body # "refused"
      BY <1>16, <2>1, <3>4
    <3> QED
      BY <2>1, <3>2, <3>3, <3>5 DEF Confirmed
  <2>3. \A q \in asked' : q.id # inbox[i + 1].id
    BY <1>6, <1>12, <2>1 DEF Expected
  <2>4. inbox[i + 1].body = "finish" =>
          \A j \in Places' : ~IsResult(j)' /\ inbox'[j].id = inbox'[i].id => j <= i
    <3> SUFFICES ASSUME inbox[i + 1].body = "finish",
                        NEW j \in Places', ~IsResult(j)', inbox'[j].id = inbox'[i].id
                 PROVE  j <= i
      OBVIOUS
    <3>1. j + 1 \in Places /\ ~IsResult(j + 1) /\ inbox[j + 1].id = inbox[i + 1].id /\ j \in Nat
      BY <1>1, <1>9, <2>1
    <3>2. j + 1 <= i + 1
      BY <2>1, <3>1 DEF Expected
    <3> QED
      BY <2>1, <3>1, <3>2
  <2> QED
    BY <1>1, <1>5, <1>6, <2>1, <2>2, <2>3, <2>4 DEF Expected, After
<1>18. OpenInv'
  <2>1. \A q \in asked' : \A s \in open : q.id # s.id
    BY <1>6, <1>12 DEF Inv, OpenInv
  <2>2. ASSUME NEW s \in open, s.got # "finish"
        PROVE  /\ Confirmed(s.id, s.kind, Len(inbox) + 1)'
               /\ \A i \in Places' : inbox'[i].id = s.id => inbox'[i].body # "finish"
    <3>1. /\ Confirmed(s.id, s.kind, Len(inbox) + 1) /\ s.id \in Ids /\ s.kind \in Streams
          /\ \A i \in Places : inbox[i].id = s.id => inbox[i].body # "finish"
      BY <1>6, <2>2 DEF Inv, OpenInv
    <3>2. /\ Len(inbox) + 1 \in Nat /\ Len(inbox') + 1 \in Nat
          /\ Len(inbox) + 1 <= (Len(inbox') + 1) + 1
      BY <1>1, <1>8 DEF Places
    <3>3. PICK i \in Nat : i = Len(inbox) + 1
      BY <3>2
    <3>4. PICK j \in Nat : j = Len(inbox') + 1
      BY <3>2
    <3>5. Confirmed(s.id, s.kind, i) /\ i <= j + 1
      BY <3>1, <3>2, <3>3, <3>4
    <3>6. Confirmed(s.id, s.kind, Len(inbox) + 1)'
      BY <1>16, <3>1, <3>4, <3>5 DEF Confirmed
    <3> QED
      BY <1>9, <3>1, <3>6
  <2>3. ASSUME NEW s \in open, s.got = "finish"
        PROVE  \/ \E i \in Places' : ~IsResult(i)' /\ inbox'[i].id = s.id
                                     /\ inbox'[i].body = "finish"
               \/ \E r \in asked' : r.kind = "unsub" /\ r.of = s.id
    <3>1. CASE \E r \in asked : r.kind = "unsub" /\ r.of = s.id
      BY <1>5, <3>1 DEF After
    <3>2. ASSUME NEW i \in Places, ~IsResult(i), inbox[i].id = s.id, inbox[i].body = "finish"
          PROVE  \E j \in Places' : ~IsResult(j)' /\ inbox'[j].id = s.id
                                    /\ inbox'[j].body = "finish"
      <4>1. i - 1 \in Places' /\ inbox'[i - 1] = inbox[i]
        BY <1>1, <1>2, <3>2
      <4> QED
        BY <3>2, <4>1 DEF IsResult
    <3> QED
      BY <2>3, <3>1, <3>2 DEF Inv, OpenInv
  <2>4. ASSUME NEW s \in open
        PROVE  /\ s.id <= msgId' /\ \A t \in open : t.id = s.id => t = s
               /\ s.kind = "state_changed" => s.got = "nothing"
    BY <1>5, <1>6 DEF Inv, OpenInv, After
  <2> QED
    BY <1>1, <2>1, <2>2, <2>3, <2>4 DEF OpenInv
<1>19. \A y, z \in Bearers' : y = z
  <2>1. \A r \in fresh : r.kind # "state_changed"
    BY <1>5 DEF After
  <2>2. Bearers' \subseteq Bearers
    <3> SUFFICES ASSUME NEW y \in Bearers' PROVE y \in Bearers
      OBVIOUS
    <3>1. CASE subs'[y] = "state_changed"
      <4>1. CASE y = x
        BY <1>0, <1>1, <1>2, <1>7, <3>1, <4>1 DEF Bearers, None, m
      <4>2. CASE y # x
        BY <1>7, <3>1, <4>2 DEF Bearers
      <4> QED
        BY <4>1, <4>2
    <3>2. CASE \E r \in asked' : r.id = y /\ r.kind = "state_changed"
      BY <1>12, <2>1, <3>2 DEF Bearers
    <3>3. CASE \E i \in Places' : IsResult(i)' /\ inbox'[i].id = y
                                  /\ inbox'[i].kind = "state_changed"
      BY <1>9, <3>3 DEF Bearers
    <3> QED
      BY <3>1, <3>2, <3>3 DEF Bearers
  <2> QED
    BY <2>2 DEF Inv
<1> QED
  BY <1>8, <1>10, <1>11, <1>14, <1>15, <1>17, <1>18, <1>19 DEF Inv

-----------------------------------------------------------------------------

LEMMA InvStep == Inv /\ [Next]_vars => Inv'
<1> SUFFICES ASSUME Inv, [Next]_vars PROVE Inv'
  OBVIOUS
<1>1. CASE UNCHANGED vars
  BY <1>1 DEF Inv, TypeOK, SessionInv, AskedInv, OpenInv, ResultInv, EventInv, HeldInv,
              Bearers, Places, IsResult, Confirmed, Served, Sound, Expected,
              vars, loop, client, core
<1>2. CASE \E r \in asked : Grant(r) \/ Refuse(r)
  BY <1>2, AnswerStep
<1>3. CASE \E s \in open : Stream(s) \/ StreamHealth(s)
  BY <1>3, StreamStep
<1>4. CASE Connect
  BY <1>4, ConnectStep
<1>5. CASE Handle
  BY <1>5, EventStep, ResultStep DEF Handle
<1>6. CASE EndInOrder \/ EndByError \/ Retry \/ Stop
  BY <1>6, LoopStep
<1> QED
  BY <1>1, <1>2, <1>3, <1>4, <1>5, <1>6 DEF Next

LEMMA Invariance == Spec => []Inv
  BY InitInv, InvStep, PTL DEF Spec

\* For any number of sessions and ids, and messages in any number on their way,
\* each is routed to what was asked under its id.
THEOREM MessagesAreRoutedRight == Spec => []RoutedRight
<1>1. Inv => RoutedRight
  BY InvImplies
<1> QED
  BY <1>1, Invariance, PTL

\* When nothing is under way, watcher and Core agree on what is subscribed.
THEOREM NothingIsLeftOpen == Spec => []SubscriptionsAgree
<1>1. Inv => SubscriptionsAgree
  BY InvImplies
<1> QED
  BY <1>1, Invariance, PTL

\* The loop of the watcher makes the steps that Backoff allows, and only a stop
\* turns it off.
THEOREM WatcherBacksOff == Spec => B!BackoffSteps /\ [](phase = "off" => stopped)
<1>1. Init => B!BackoffInit /\ (phase = "off" => stopped)
  BY DEF Init, B!BackoffInit
<1>2. ASSUME [Next]_vars
      PROVE  /\ [B!BackoffNext]_(B!backoffVars)
             /\ (phase = "off" => stopped) => (phase = "off" => stopped)'
  <2> USE DEF B!BackoffNext, B!backoffVars
  <2>1. CASE EndInOrder
    BY <2>1 DEF EndInOrder, Gone, B!EndInOrder
  <2>2. CASE EndByError
    BY <2>2 DEF EndByError, Gone, B!EndByError
  <2>3. CASE Retry
    BY <2>3 DEF Retry, Begin, B!Retry, B!Doubled
  <2>4. CASE Stop
    BY <2>4 DEF Stop, B!Stop
  <2>5. CASE UNCHANGED loop
    BY <2>5 DEF loop
  <2>6. CASE Connect
    BY <2>6 DEF Connect
  <2>7. CASE \/ \E r \in asked : Grant(r) \/ Refuse(r)
             \/ \E s \in open : Stream(s) \/ StreamHealth(s)
    <3>1. UNCHANGED loop
      BY <2>7 DEF Grant, Refuse, Stream, StreamHealth, Deliver
    <3> QED
      BY <2>5, <3>1
  <2>8. CASE Handle
    BY <2>5, <2>8 DEF Handle
  <2>9. CASE UNCHANGED vars
    BY <2>5, <2>9 DEF vars
  <2> QED
    BY <1>2, <2>1, <2>2, <2>3, <2>4, <2>6, <2>7, <2>8, <2>9 DEF Next
<1> QED
  BY <1>1, <1>2, PTL DEF Spec, B!BackoffSteps

-----------------------------------------------------------------------------
(* The host journal *)

Lines == 1 .. Len(admitted)

\* What was admitted lies in the past.
PastInv ==
  \A i \in Lines :
    admitted[i].run <= run /\ 1 <= admitted[i].ts /\ admitted[i].ts <= clock

\* The last minuteCount lines were admitted in this minute of this run.
MinuteInv ==
  /\ minuteStarted <= clock /\ minuteCount <= Len(admitted)
  /\ \A i \in Lines : i + minuteCount > Len(admitted) =>
       admitted[i].run = run /\ minuteStarted <= admitted[i].ts

\* A line this run has admitted is in _recent, with that time or a later one,
\* or its window is over; and what is in _recent was admitted.
RecentInv ==
  /\ \A i \in Lines : admitted[i].run = run =>
       \/ admitted[i].ts <= recent[admitted[i].line]
       \/ admitted[i].ts + Dedupe <= clock
  /\ \A f \in Fingerprints : recent[f] # NoTime =>
       \E i \in Lines : /\ admitted[i].run = run /\ admitted[i].line = f
                          /\ admitted[i].ts = recent[f]

FilterInv == NoRepeatInWindow /\ PastInv /\ MinuteInv /\ RecentInv

-----------------------------------------------------------------------------

\* What the types say of the numbers the invariant compares.
LineLines ==
  /\ clock \in Nat \ {0} /\ run \in Nat \ {0} /\ Len(admitted) \in Nat
  /\ minuteStarted \in Nat \ {0} /\ minuteCount \in Nat /\ minuteCount <= MaxPerMinute
  /\ Dedupe \in Nat \ {0} /\ Minute \in Nat \ {0} /\ MaxPerMinute \in Nat \ {0}
  /\ \A f \in Fingerprints : recent[f] \in Nat
  /\ \A i \in Lines :
       /\ i \in Nat \ {0} /\ i <= Len(admitted)
       /\ admitted[i] \in Admissions
       /\ admitted[i].run \in Nat /\ admitted[i].ts \in Nat
       /\ admitted[i].line \in Fingerprints

LEMMA LineFields == TailTypeOK => LineLines
<1> SUFFICES ASSUME TailTypeOK PROVE LineLines
  OBVIOUS
<1>1. Len(admitted) \in Nat /\ \A i \in Lines : admitted[i] \in Admissions
  BY DEF TailTypeOK, Lines
<1>2. \A a \in Admissions : a.run \in Nat /\ a.ts \in Nat /\ a.line \in Fingerprints
  BY DEF Admissions
<1> QED
  BY <1>1, <1>2, JournalTailAssumption DEF TailTypeOK, Lines, LineLines

LEMMA FilterInit == TailInit => FilterInv
<1> SUFFICES ASSUME TailInit PROVE FilterInv
  OBVIOUS
<1>1. TailTypeOK
  <2>1. admitted \in Seq(Admissions) /\ 1 \in 1 .. MaxTime /\ 1 \in 1 .. MaxRuns
    BY JournalTailAssumption DEF TailInit
  <2>2. MinDelay \in MinDelay .. MaxDelay /\ 0 \in 0 .. MaxTime /\ 0 \in 0 .. MaxFaults
    BY JournalTailAssumption
  <2>3. recent \in [Fingerprints -> 0 .. MaxTime] /\ 0 \in 0 .. MaxPerMinute
    BY JournalTailAssumption, <2>2 DEF TailInit, NoTime
  <2> QED
    BY <2>1, <2>2, <2>3 DEF TailInit, TailTypeOK
<1> QED
  BY <1>1, JournalTailAssumption
     DEF TailInit, FilterInv, NoRepeatInWindow, PastInv, MinuteInv, RecentInv, Lines, NoTime

\* The times of the events that are noted beside the lines do not matter, nor
\* does the passing of time.
LEMMA SameLines ==
  ASSUME FilterInv, TailTypeOK', UNCHANGED <<filter, run>>, clock' \in {clock, clock + 1},
         Len(admitted') = Len(admitted),
         \A i \in Lines : /\ admitted'[i].run = admitted[i].run
                            /\ admitted'[i].line = admitted[i].line
                            /\ admitted'[i].ts = admitted[i].ts
  PROVE  FilterInv'
<1>1. /\ LineLines /\ Lines' = Lines /\ run' = run
      /\ recent' = recent /\ minuteStarted' = minuteStarted /\ minuteCount' = minuteCount
  BY LineFields DEF FilterInv, NoRepeatInWindow, filter, Lines
<1>2. NoRepeatInWindow'
  BY <1>1 DEF FilterInv, NoRepeatInWindow, Lines
<1>3. PastInv' /\ MinuteInv'
  BY <1>1 DEF FilterInv, PastInv, MinuteInv, LineLines
<1>4. RecentInv'
  BY <1>1 DEF FilterInv, RecentInv, LineLines
<1> QED
  BY <1>2, <1>3, <1>4 DEF FilterInv

\* The clock as _admit sees it: the count is that of a minute that still runs.
LEMMA MinuteNow ==
  ASSUME FilterInv
  PROVE  /\ CountNow \in Nat /\ CountNow <= MaxPerMinute /\ CountNow <= Len(admitted)
         /\ \A i \in Lines : i + CountNow > Len(admitted) =>
              admitted[i].run = run /\ minuteStarted <= admitted[i].ts /\ ~MinuteIsOver
<1>1. LineLines
  BY LineFields DEF FilterInv, NoRepeatInWindow
<1>2. CASE MinuteIsOver
  BY <1>1, <1>2 DEF CountNow, LineLines
<1>3. CASE ~MinuteIsOver
  BY <1>1, <1>3 DEF CountNow, LineLines, FilterInv, MinuteInv
<1> QED
  BY <1>2, <1>3

\* A line is dropped.
LEMMA DropStep ==
  ASSUME FilterInv, TailTypeOK', NEW line \in Fingerprints, Read(line), Drop(line)
  PROVE  FilterInv'
<1>1. /\ LineLines /\ Lines' = Lines /\ run' = run /\ clock' = clock
      /\ recent' = recent /\ admitted' = admitted /\ minuteCount' = CountNow
      /\ minuteStarted' = IF MinuteIsOver THEN clock ELSE minuteStarted
  BY LineFields DEF FilterInv, NoRepeatInWindow, Read, Drop, Lines
<1>2. NoRepeatInWindow' /\ PastInv' /\ RecentInv'
  BY <1>1 DEF FilterInv, NoRepeatInWindow, PastInv, RecentInv
<1>3. MinuteInv'
  BY <1>1, MinuteNow DEF FilterInv, MinuteInv, LineLines
<1> QED
  BY <1>2, <1>3 DEF FilterInv

\* The entry of a line after a reading.
LEMMA PrunedValue ==
  ASSUME NEW r, NEW line \in Fingerprints, NEW f \in Fingerprints
  PROVE  \/ Pruned(r, line)[f] = r[f]
         \/ Pruned(r, line)[f] = NoTime /\ ~(r[f] + Dedupe >= clock)
  BY DEF Pruned

\* A line is accepted: it is the last one now.
LEMMA AcceptStep ==
  ASSUME FilterInv, TailTypeOK', NEW line \in Fingerprints, Read(line), Accept(line),
         ~(CountNow >= MaxPerMinute \/ Repeats(line))
  PROVE  FilterInv'
<1> DEFINE n == Len(admitted) + 1
           new == [run |-> run, line |-> line, ts |-> clock, event |-> NoTime]
<1>1. LineLines
  BY LineFields DEF FilterInv, NoRepeatInWindow
<1>2. /\ Len(admitted') = n /\ n \in Nat /\ n \in Lines' /\ ~(n \in Lines)
      /\ admitted'[n].run = run /\ admitted'[n].line = line /\ admitted'[n].ts = clock
      /\ \A i \in Lines : admitted'[i] = admitted[i] /\ i \in Lines' /\ i < n
      /\ \A i \in Lines' : i \in Lines \/ i = n
  <2>1. admitted' = Append(admitted, new) /\ admitted \in Seq(Admissions)
    BY DEF Accept, FilterInv, NoRepeatInWindow, TailTypeOK
  <2>2. new \in Admissions /\ new.run = run /\ new.line = line /\ new.ts = clock
    BY <1>1 DEF Admissions, LineLines, NoTime
  <2> HIDE DEF new
  <2> QED
    BY <1>1, <2>1, <2>2 DEF Lines, LineLines
<1>3. /\ run' = run /\ clock' = clock /\ minuteCount' = CountNow + 1
      /\ minuteStarted' = IF MinuteIsOver THEN clock ELSE minuteStarted
  BY DEF Read, Accept
<1>4. recent'[line] = clock
  <2>1. [recent EXCEPT ![line] = clock][line] = clock
    BY DEF FilterInv, NoRepeatInWindow, TailTypeOK
  <2>2. ~(clock + Dedupe < clock)
    BY <1>1 DEF LineLines
  <2>3. recent' = Pruned([recent EXCEPT ![line] = clock], line)
    BY DEF Accept
  <2>4. clock + Dedupe >= clock
    BY <1>1 DEF LineLines
  <2> QED
    BY <2>1, <2>3, <2>4, PrunedValue
<1>5. ASSUME NEW f \in Fingerprints, f # line
      PROVE  \/ recent'[f] = recent[f]
             \/ recent'[f] = NoTime /\ recent[f] + Dedupe < clock
  <2>1. [recent EXCEPT ![line] = clock][f] = recent[f]
    BY <1>5 DEF FilterInv, NoRepeatInWindow, TailTypeOK
  <2>2. recent' = Pruned([recent EXCEPT ![line] = clock], line)
    BY DEF Accept
  <2>3. \/ recent'[f] = recent[f]
        \/ recent'[f] = NoTime /\ ~(recent[f] + Dedupe >= clock)
    BY <2>1, <2>2, PrunedValue
  <2> QED
    BY <1>1, <2>3 DEF LineLines
<1> HIDE DEF n, new
<1>6. \A i \in Lines : (admitted[i].run = run /\ admitted[i].line = line)
                           => clock - admitted[i].ts >= Dedupe
  <2>1. recent[line] = NoTime \/ clock - recent[line] >= Dedupe
    BY <1>1 DEF Repeats, LineLines
  <2>2. SUFFICES ASSUME NEW i \in Lines, admitted[i].run = run, admitted[i].line = line
                 PROVE  clock - admitted[i].ts >= Dedupe
    OBVIOUS
  <2>3. admitted[i].ts <= recent[line] \/ admitted[i].ts + Dedupe <= clock
    BY <2>2 DEF FilterInv, RecentInv
  <2>4. 1 <= admitted[i].ts
    BY <2>2 DEF FilterInv, PastInv
  <2>5. admitted[i].ts \in Nat /\ recent[line] \in Nat /\ clock \in Nat /\ Dedupe \in Nat
    BY <1>1, <2>2 DEF LineLines
  <2> QED
    BY <2>1, <2>3, <2>4, <2>5 DEF NoTime
<1>7. NoRepeatInWindow'
  <2>1. SUFFICES ASSUME NEW i \in Lines', NEW j \in Lines', i < j,
                        admitted'[i].run = admitted'[j].run,
                        admitted'[i].line = admitted'[j].line
                 PROVE  admitted'[j].ts - admitted'[i].ts >= Dedupe
    BY DEF NoRepeatInWindow, Lines
  <2>2. i \in Nat /\ j \in Nat /\ i <= n /\ j <= n
    BY <1>2 DEF Lines
  <2>3. i \in Lines
    BY <1>2, <2>1, <2>2
  <2>4. CASE j = n
    BY <1>2, <1>6, <2>1, <2>3, <2>4
  <2>5. CASE j \in Lines
    <3>1. admitted'[i] = admitted[i] /\ admitted'[j] = admitted[j]
      BY <1>2, <2>3, <2>5
    <3> QED
      BY <2>1, <2>3, <2>5, <3>1 DEF FilterInv, NoRepeatInWindow, Lines
  <2> QED
    BY <1>2, <2>4, <2>5
<1>8. PastInv'
  BY <1>1, <1>2, <1>3 DEF FilterInv, PastInv, LineLines
<1>9. MinuteInv'
  <2>1. minuteStarted' <= clock
    BY <1>1, <1>3 DEF FilterInv, MinuteInv, LineLines
  <2>2. minuteCount' <= n
    BY <1>1, <1>2, <1>3, MinuteNow DEF LineLines, n
  <2>3. ASSUME NEW i \in Lines', i + minuteCount' > n
        PROVE  admitted'[i].run = run /\ minuteStarted' <= admitted'[i].ts
    <3>1. CASE i = n
      BY <1>2, <2>1, <3>1
    <3>2. CASE i \in Lines
      <4>1. i + CountNow > Len(admitted)
        BY <1>1, <1>3, <2>3, <3>2, MinuteNow DEF LineLines, n
      <4> QED
        BY <1>2, <1>3, <3>2, <4>1, MinuteNow
    <3> QED
      BY <1>2, <3>1, <3>2
  <2> QED
    BY <1>2, <1>3, <2>1, <2>2, <2>3 DEF MinuteInv
<1>10. RecentInv'
  <2>1. ASSUME NEW i \in Lines', admitted'[i].run = run'
        PROVE  \/ admitted'[i].ts <= recent'[admitted'[i].line]
               \/ admitted'[i].ts + Dedupe <= clock'
    <3>1. CASE i = n
      BY <1>1, <1>2, <1>4, <3>1 DEF LineLines
    <3>2. CASE i \in Lines /\ admitted[i].line = line
      BY <1>1, <1>2, <1>3, <1>4, <3>2 DEF FilterInv, PastInv, LineLines
    <3>3. CASE i \in Lines /\ admitted[i].line # line
      <4>1. \/ admitted[i].ts <= recent[admitted[i].line]
            \/ admitted[i].ts + Dedupe <= clock
        BY <1>2, <1>3, <2>1, <3>3 DEF FilterInv, RecentInv
      <4>2. admitted[i].line \in Fingerprints /\ admitted'[i] = admitted[i]
        BY <1>1, <1>2, <3>3 DEF LineLines
      <4>3. \/ recent'[admitted[i].line] = recent[admitted[i].line]
            \/ recent[admitted[i].line] + Dedupe < clock
        BY <1>5, <3>3, <4>2
      <4>4. /\ admitted[i].ts \in Nat /\ recent[admitted[i].line] \in Nat
            /\ clock \in Nat /\ Dedupe \in Nat
        BY <1>1, <3>3, <4>2 DEF LineLines
      <4>5. \/ admitted[i].ts <= recent'[admitted[i].line]
            \/ admitted[i].ts + Dedupe <= clock
        BY <4>1, <4>3, <4>4
      <4> QED
        BY <1>3, <4>2, <4>5
    <3> QED
      BY <1>2, <3>1, <3>2, <3>3
  <2>2. ASSUME NEW f \in Fingerprints, recent'[f] # NoTime
        PROVE  \E i \in Lines' : /\ admitted'[i].run = run' /\ admitted'[i].line = f
                                   /\ admitted'[i].ts = recent'[f]
    <3>1. CASE f = line
      BY <1>2, <1>3, <1>4, <3>1
    <3>2. CASE f # line
      <4>1. recent'[f] = recent[f]
        BY <1>5, <2>2, <3>2
      <4>2. PICK i \in Lines : /\ admitted[i].run = run /\ admitted[i].line = f
                                 /\ admitted[i].ts = recent[f]
        BY <2>2, <4>1 DEF FilterInv, RecentInv
      <4> QED
        BY <1>2, <1>3, <4>1, <4>2
    <3> QED
      BY <3>1, <3>2
  <2> QED
    BY <2>1, <2>2 DEF RecentInv
<1> QED
  BY <1>7, <1>8, <1>9, <1>10 DEF FilterInv

\* A new run has admitted nothing yet.
LEMMA StartStep == ASSUME FilterInv, TailTypeOK', Start PROVE FilterInv'
<1>1. LineLines /\ Lines' = Lines /\ admitted' = admitted /\ clock' = clock
  BY LineFields DEF FilterInv, NoRepeatInWindow, Start, Lines
<1>2. NoRepeatInWindow' /\ PastInv'
  BY <1>1 DEF FilterInv, NoRepeatInWindow, PastInv, LineLines, Start
<1>3. MinuteInv' /\ RecentInv'
  BY <1>1 DEF FilterInv, PastInv, MinuteInv, RecentInv, LineLines, Start
<1> QED
  BY <1>2, <1>3 DEF FilterInv

\* The note of the event.
LEMMA RecordFacts ==
  ASSUME TailTypeOK, Record
  PROVE  /\ admitted' \in Seq(Admissions) /\ Len(admitted') = Len(admitted)
         /\ \A i \in Lines : /\ admitted'[i].run = admitted[i].run
                               /\ admitted'[i].line = admitted[i].line
                               /\ admitted'[i].ts = admitted[i].ts
<1>1. LineLines /\ admitted \in Seq(Admissions)
  BY LineFields DEF TailTypeOK
<1>2. admitted' = [admitted EXCEPT ![Len(admitted)].event = clock]
  BY DEF Record
<1>3. \A a \in Admissions : /\ [a EXCEPT !.event = clock] \in Admissions
                            /\ [a EXCEPT !.event = clock].run = a.run
                            /\ [a EXCEPT !.event = clock].line = a.line
                            /\ [a EXCEPT !.event = clock].ts = a.ts
  BY <1>1 DEF Admissions, LineLines
<1>4. DOMAIN admitted = Lines /\ DOMAIN admitted' = Lines
  BY <1>1, <1>2 DEF Lines
<1>5. \A i \in Lines : /\ admitted[i] \in Admissions
                         /\ \/ admitted'[i] = admitted[i]
                            \/ admitted'[i] = [admitted[i] EXCEPT !.event = clock]
  BY <1>1, <1>2 DEF Lines, LineLines
<1>6. \A i \in Lines : admitted'[i] \in Admissions
  BY <1>3, <1>5
<1>7. admitted' = [i \in Lines |-> admitted'[i]]
  BY <1>2, <1>4
<1>8. admitted' \in Seq(Admissions) /\ Len(admitted') = Len(admitted)
  BY <1>1, <1>4, <1>6, <1>7 DEF Lines, LineLines
<1> QED
  BY <1>3, <1>5, <1>8

\* The state keeps its types.
LEMMA TailTyped == TailTypeOK /\ [TailNext]_tail => TailTypeOK'
<1> SUFFICES ASSUME TailTypeOK, [TailNext]_tail PROVE TailTypeOK'
  OBVIOUS
<1> USE JournalTailAssumption
<1>1. CASE Tick
  BY <1>1 DEF TailTypeOK, Tick, tailLoop, filter
<1>2. ASSUME NEW line \in Fingerprints, Read(line) PROVE TailTypeOK'
  <2>1. CountNow \in 0 .. MaxPerMinute /\ minuteStarted' \in 1 .. MaxTime
    BY <1>2 DEF CountNow, Read, TailTypeOK
  <2>2. CASE Drop(line)
    BY <1>2, <2>1, <2>2 DEF TailTypeOK, Read, Drop
  <2>3. CASE Accept(line) /\ ~(CountNow >= MaxPerMinute)
    <3>1. [run |-> run, line |-> line, ts |-> clock, event |-> NoTime] \in Admissions
      BY DEF TailTypeOK, Admissions, NoTime
    <3>2. admitted' \in Seq(Admissions)
      BY <2>3, <3>1 DEF Accept, TailTypeOK
    <3>3. [recent EXCEPT ![line] = clock] \in [Fingerprints -> 0 .. MaxTime]
      BY DEF TailTypeOK
    <3>4. recent' \in [Fingerprints -> 0 .. MaxTime]
      BY <2>3, <3>3 DEF Accept, Pruned, NoTime
    <3>5. minuteCount' \in 0 .. MaxPerMinute
      BY <2>1, <2>3 DEF Accept
    <3> QED
      BY <1>2, <2>1, <2>3, <3>2, <3>4, <3>5 DEF TailTypeOK, Read, Accept
  <2> QED
    BY <1>2, <2>2, <2>3 DEF Read
<1>3. CASE Record
  BY <1>3, RecordFacts DEF TailTypeOK, Record, filter
<1>4. CASE Alert \/ StreamBreaks \/ StopTail
  BY <1>4 DEF TailTypeOK, Alert, StreamBreaks, StopTail, Waiting, filter
<1>5. CASE Raise
  <2>1. faults' \in 0 .. MaxFaults
    BY <1>5, JournalTailAssumption DEF TailTypeOK, Raise
  <2> QED
    BY <1>5, <2>1 DEF TailTypeOK, Raise, Waiting, filter
<1>6. CASE StreamEnds \/ Reopen \/ Start
  <2>1. MinDelay \in MinDelay .. MaxDelay
    BY JournalTailAssumption
  <2>2. CASE StreamEnds
    BY <2>1, <2>2 DEF TailTypeOK, StreamEnds, Waiting, filter
  <2>3. CASE Reopen
    <3>1. tailDelay' \in MinDelay .. MaxDelay
      BY <2>3, JournalTailAssumption DEF TailTypeOK, Reopen
    <3> QED
      BY <2>3, <3>1 DEF TailTypeOK, Reopen, filter
  <2>4. CASE Start
    <3>1. run' \in 1 .. MaxRuns
      BY <2>4, JournalTailAssumption DEF TailTypeOK, Start
    <3>2. recent' \in [Fingerprints -> 0 .. MaxTime]
      BY <2>4, JournalTailAssumption DEF Start, NoTime
    <3>3. minuteStarted' \in 1 .. MaxTime /\ minuteCount' \in 0 .. MaxPerMinute
      BY <2>4, JournalTailAssumption DEF TailTypeOK, Start
    <3> QED
      BY <2>1, <2>4, <3>1, <3>2, <3>3 DEF TailTypeOK, Start
  <2> QED
    BY <1>6, <2>2, <2>3, <2>4
<1>7. CASE UNCHANGED tail
  BY <1>7 DEF TailTypeOK, tail, tailLoop, filter
<1> QED
  BY <1>1, <1>2, <1>3, <1>4, <1>5, <1>6, <1>7 DEF TailNext

\* Every step preserves the invariant.
LEMMA FilterStep == FilterInv /\ [TailNext]_tail => FilterInv'
<1> SUFFICES ASSUME FilterInv, [TailNext]_tail PROVE FilterInv'
  OBVIOUS
<1>0. TailTypeOK /\ TailTypeOK'
  BY TailTyped DEF FilterInv, NoRepeatInWindow
<1>1. CASE Tick
  BY <1>0, <1>1, SameLines DEF Tick, filter
<1>2. ASSUME NEW line \in Fingerprints, Read(line) PROVE FilterInv'
  BY <1>0, <1>2, DropStep, AcceptStep DEF Read
<1>3. CASE Record
  BY <1>0, <1>3, RecordFacts, SameLines DEF Record
<1>4. CASE Alert \/ Raise \/ StreamEnds \/ StreamBreaks \/ Reopen \/ StopTail
  BY <1>0, <1>4, SameLines
     DEF Alert, Raise, StreamEnds, StreamBreaks, Reopen, StopTail, Waiting
<1>5. CASE Start
  BY <1>0, <1>5, StartStep
<1>6. CASE UNCHANGED tail
  BY <1>0, <1>6, SameLines DEF tail, filter
<1> QED
  BY <1>1, <1>2, <1>3, <1>4, <1>5, <1>6 DEF TailNext

LEMMA FilterInvariance == TailSpec => []FilterInv
<1>1. TailInit => FilterInv
  BY FilterInit
<1>2. FilterInv /\ [TailNext]_tail => FilterInv'
  BY FilterStep
<1> QED
  BY <1>1, <1>2, PTL DEF TailSpec

\* For any fingerprints and limits, no line is admitted twice within Dedupe:
\* neither the pruning of _recent nor a replay of the journal lets one through.
THEOREM NoRepeats == TailSpec => []NoRepeatInWindow
<1>1. FilterInv => NoRepeatInWindow
  BY DEF FilterInv
<1> QED
  BY <1>1, FilterInvariance, PTL

\* What drops a line: the count is that of the last lines of this minute, and the
\* entry in _recent was made by a line that was admitted.
LEMMA DropCause ==
  ASSUME FilterInv, NEW line \in Fingerprints, Read(line), admitted' = admitted
  PROVE  \/ \E i \in 1 .. Len(admitted) :
              /\ admitted[i].run = run /\ admitted[i].line = line
              /\ clock - admitted[i].ts < Dedupe
         \/ /\ Len(admitted) >= MaxPerMinute
            /\ \A i \in (Len(admitted) - MaxPerMinute + 1) .. Len(admitted) :
                 admitted[i].run = run /\ clock - admitted[i].ts < Minute
<1>1. LineLines
  BY LineFields DEF FilterInv, NoRepeatInWindow
<1>2. CountNow >= MaxPerMinute \/ Repeats(line)
  <2>1. ~Accept(line)
    <3>1. \A a : Len(Append(admitted, a)) = Len(admitted) + 1
      BY DEF FilterInv, NoRepeatInWindow, TailTypeOK
    <3> QED
      BY <1>1, <3>1 DEF Accept, LineLines
  <2> QED
    BY <2>1 DEF Read
<1>3. CASE Repeats(line)
  BY <1>3 DEF Repeats, FilterInv, RecentInv, Lines
<1>4. CASE CountNow >= MaxPerMinute
  <2>1. CountNow = MaxPerMinute /\ Len(admitted) >= MaxPerMinute
    BY <1>1, <1>4, MinuteNow DEF LineLines
  <2>2. ASSUME NEW i \in (Len(admitted) - MaxPerMinute + 1) .. Len(admitted)
        PROVE  admitted[i].run = run /\ clock - admitted[i].ts < Minute
    <3>1. i \in Lines /\ i + CountNow > Len(admitted)
      BY <1>1, <2>1, <2>2 DEF Lines, LineLines
    <3>2. admitted[i].run = run /\ minuteStarted <= admitted[i].ts /\ ~MinuteIsOver
      BY <3>1, MinuteNow
    <3> QED
      BY <1>1, <3>1, <3>2 DEF MinuteIsOver, LineLines
  <2> QED
    BY <2>1, <2>2
<1> QED
  BY <1>2, <1>3, <1>4

\* For any fingerprints and limits, a line is dropped only on account of lines
\* that were admitted in this run, in its window or in this minute.
THEOREM DropsHaveCause == TailSpec => DroppedForCause
<1>1. FilterInv /\ [TailNext]_tail =>
        [\A line \in Fingerprints :
           (Read(line) /\ admitted' = admitted) =>
             \/ \E i \in 1 .. Len(admitted) :
                  /\ admitted[i].run = run /\ admitted[i].line = line
                  /\ clock - admitted[i].ts < Dedupe
             \/ /\ Len(admitted) >= MaxPerMinute
                /\ \A i \in (Len(admitted) - MaxPerMinute + 1) .. Len(admitted) :
                     admitted[i].run = run /\ clock - admitted[i].ts < Minute]_tail
  BY DropCause
<1> QED
  BY <1>1, FilterInvariance, PTL DEF TailSpec, DroppedForCause

\* The loop of the tail makes the steps that Backoff allows, and only a stop turns
\* it off: whatever is raised in it, it "must never die" (host_events.py).
THEOREM TailNeverDies ==
  TailSpec => TailBackoff!BackoffSteps /\ [](tailPhase = "off" => tailStopped)
<1>1. TailInit => TailBackoff!BackoffInit /\ (tailPhase = "off" => tailStopped)
  BY DEF TailInit, TailBackoff!BackoffInit
<1>2. ASSUME [TailNext]_tail
      PROVE  /\ [TailBackoff!BackoffNext]_(TailBackoff!backoffVars)
             /\ (tailPhase = "off" => tailStopped) => (tailPhase = "off" => tailStopped)'
  <2> USE DEF TailBackoff!BackoffNext, TailBackoff!backoffVars
  <2>1. CASE StreamEnds
    BY <2>1 DEF StreamEnds, Waiting, TailBackoff!EndInOrder
  <2>2. CASE StreamBreaks \/ Raise
    BY <2>2 DEF StreamBreaks, Raise, Waiting, TailBackoff!EndByError
  <2>3. CASE Reopen
    BY <2>3 DEF Reopen, TailBackoff!Retry, TailBackoff!Doubled
  <2>4. CASE StopTail \/ Start
    BY <2>4 DEF StopTail, Start, TailBackoff!Stop, TailBackoff!Start
  <2>5. CASE UNCHANGED <<tailStopped, tailPhase, tailDelay>>
    BY <2>5
  <2> QED
    BY <1>2, <2>1, <2>2, <2>3, <2>4, <2>5
       DEF TailNext, Tick, Read, Record, Alert, tail, tailLoop
<1> QED
  BY <1>1, <1>2, PTL DEF TailSpec, TailBackoff!BackoffSteps

=============================================================================
