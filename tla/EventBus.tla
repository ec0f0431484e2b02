------------------------------- MODULE EventBus -------------------------------
(***************************************************************************)
(* The event bus watcher's connection to Core (collectors/recorder.py,     *)
(* RecorderWatcher): reconnection, message ids, subscriptions.  What the   *)
(* messages say, to the availability tracker, is in Availability.          *)
(*                                                                         *)
(* Core is external.  It answers the requests of a session in any order,   *)
(* grants or refuses them, and streams events under the id of the request  *)
(* that subscribed; a health subscription streams "initial" and "finish".  *)
(* A message carries in "kind" what was really asked under its id, which   *)
(* the watcher does not see.                                               *)
(*                                                                         *)
(* A definition commented "Variant" is a mistake the definition after it   *)
(* could contain; no specification uses it.                                *)
(***************************************************************************)
EXTENDS Naturals, Sequences, FiniteSets

CONSTANTS
  First, Limit,  \* _RECONNECT_DELAY, _MAX_RECONNECT_DELAY
  MaxId,         \* bound: message ids
  Backlog        \* bound: messages on their way to the watcher

ASSUME EventBusAssumption ==
  /\ First \in Nat \ {0} /\ Limit \in Nat /\ First <= Limit
  /\ MaxId \in Nat /\ Backlog \in Nat

None == "none"
Ids == 1 .. MaxId
Streams == {"state_changed", "health"}
Kinds == Streams \cup {"registry", "states", "unsub"}

VARIABLES
  stopped,   \* the add-on was asked to stop
  phase,     \* "session", "waiting" or "off"
  delay,     \* the next wait before a reconnection
  connected, \* the session is authenticated and has sent its first requests
  msgId,     \* _msg_id
  pending,   \* _pending: what each id asked for, or None
  subs,      \* _subscriptions: the stream of each id, or None
  asked,     \* Core: requests of this session without an answer
  open,      \* Core: subscriptions of this session, and how far they got
  inbox      \* messages on their way to the watcher

loop == <<stopped, phase, delay, connected>>
client == <<msgId, pending, subs>>
core == <<asked, open, inbox>>
vars == <<loop, client, core>>

Open == [id : Ids, kind : Streams, got : {"nothing", "initial", "finish"}]
Requests == [id : Ids, kind : Kinds, of : {0} \cup Ids]
Messages ==
  [type : {"event", "result"}, id : Ids, kind : Kinds,
   body : {"refused", "empty", "change", "initial", "finish"}]

TypeOK ==
  /\ stopped \in BOOLEAN /\ connected \in BOOLEAN
  /\ phase \in {"session", "waiting", "off"} /\ delay \in First .. Limit
  /\ msgId \in {0} \cup Ids
  /\ pending \in [Ids -> Kinds \cup {None}]
  /\ subs \in [Ids -> Streams \cup {None}]
  /\ asked \subseteq Requests /\ open \subseteq Open
  /\ inbox \in Seq(Messages)

Empty == [id \in Ids |-> None]

Init ==
  /\ stopped = FALSE /\ phase = "session" /\ delay = First /\ connected = FALSE
  /\ msgId = 0 /\ pending = Empty /\ subs = Empty
  /\ asked = {} /\ open = {} /\ inbox = <<>>

\* _send, for a sequence of requests <<kind, of>>, with waiting = _pending.
Send(waiting, requests) ==
  LET n == Len(requests)
  IN  /\ msgId + n <= MaxId
      /\ msgId' = msgId + n
      /\ pending' = [id \in Ids |-> IF id \in msgId + 1 .. msgId + n
                                      THEN requests[id - msgId][1]
                                      ELSE waiting[id]]
      /\ asked' = asked \cup {[id |-> msgId + i, kind |-> requests[i][1],
                               of |-> requests[i][2]] : i \in 1 .. n}

\* The requests of a handler, and the health request that may be due.
SendAfter(waiting, requests) ==
  \/ Send(waiting, requests)
  \/ Send(waiting, Append(requests, <<"health", 0>>))

-----------------------------------------------------------------------------
(* Core *)

Deliver(type, id, kind, body) ==
  /\ connected /\ Len(inbox) < Backlog
  /\ inbox' = Append(inbox, [type |-> type, id |-> id, kind |-> kind, body |-> body])
  /\ UNCHANGED <<loop, client>>

Grant(r) ==
  /\ r \in asked
  /\ asked' = asked \ {r}
  /\ open' = IF r.kind \in Streams
               THEN open \cup {[id |-> r.id, kind |-> r.kind, got |-> "nothing"]}
               ELSE {s \in open : s.id # r.of}
  /\ Deliver("result", r.id, r.kind, "empty")

\* A refusal of anything but a subscription changes nothing here.
Refuse(r) ==
  /\ r \in asked /\ r.kind \in Streams
  /\ asked' = asked \ {r}
  /\ Deliver("result", r.id, r.kind, "refused")
  /\ UNCHANGED open

\* A state changes.
Stream(s) ==
  /\ s \in open /\ s.kind = "state_changed"
  /\ Deliver("event", s.id, s.kind, "change")
  /\ UNCHANGED <<asked, open>>

StreamHealth(s) ==
  /\ s \in open /\ s.kind = "health" /\ s.got # "finish"
  /\ LET body == IF s.got = "nothing" THEN "initial" ELSE "finish"
     IN  /\ Deliver("event", s.id, s.kind, body)
         /\ open' = (open \ {s}) \cup {[s EXCEPT !.got = body]}
  /\ UNCHANGED asked

-----------------------------------------------------------------------------
(* The loop *)

Begin == phase' = "session" /\ connected' = FALSE /\ subs' = Empty

Gone == /\ phase' = "waiting" /\ connected' = FALSE
        /\ asked' = {} /\ open' = {} /\ inbox' = <<>>
        /\ UNCHANGED <<stopped, client>>

\* Authenticated: _session sends its requests.
Connect ==
  /\ phase = "session" /\ ~connected
  /\ connected' = TRUE
  /\ Send(pending, <<<<"state_changed", 0>>, <<"registry", 0>>, <<"states", 0>>,
                     <<"health", 0>>>>)
  /\ UNCHANGED <<stopped, phase, delay, subs, open, inbox>>

\* The socket closes, or Core refuses the token: _session returns.
EndInOrder == phase = "session" /\ Gone /\ delay' = First

\* The connection cannot be made, or a handler raises.
EndByError == phase = "session" /\ Gone /\ UNCHANGED delay

\* Variant: the wait grows without limit.
RetryUncapped ==
  /\ phase = "waiting"
  /\ Begin /\ delay' = 2 * delay
  /\ UNCHANGED <<stopped, msgId, pending, core>>

\* The wait is over.
Retry ==
  /\ phase = "waiting"
  /\ Begin /\ delay' = IF 2 * delay <= Limit THEN 2 * delay ELSE Limit
  /\ UNCHANGED <<stopped, msgId, pending, core>>

\* stop, and the task is cancelled.
Stop ==
  /\ phase # "off"
  /\ stopped' = TRUE /\ phase' = "off" /\ connected' = FALSE
  /\ asked' = {} /\ open' = {} /\ inbox' = <<>>
  /\ UNCHANGED <<delay, client>>

-----------------------------------------------------------------------------
(* _handle *)

\* Variant: every event goes to the state_changed handler, as before 0.3.4.
RouteAlike(id) == "state_changed"

\* The handler an event is routed to.
Route(id) == subs[id]

\* Variant: Core is not told.
CloseSilently(id) == <<>>

\* A subscription that has served is closed at Core.
Close(id) == <<<<"unsub", id>>>>

HandleEvent(m) ==
  /\ m.type = "event"
  /\ LET finish == Route(m.id) = "health" /\ m.body = "finish"
     IN  /\ subs' = IF finish THEN [subs EXCEPT ![m.id] = None] ELSE subs
         /\ SendAfter(pending, IF finish THEN Close(m.id) ELSE <<>>)

\* The result of a request, whose kind is popped from _pending.
HandleResult(m) ==
  /\ m.type = "result"
  /\ LET what == pending[m.id]
     IN  subs' = IF m.body # "refused" /\ what \in Streams
                   THEN [subs EXCEPT ![m.id] = what] ELSE subs
  /\ SendAfter([pending EXCEPT ![m.id] = None], <<>>)

\* A message is handled and, if the last one was more than 300 s ago, a health
\* request is sent.
Handle ==
  /\ inbox # <<>>
  /\ inbox' = Tail(inbox)
  /\ HandleEvent(Head(inbox)) \/ HandleResult(Head(inbox))
  /\ UNCHANGED <<loop, open>>

Next ==
  \/ \E r \in asked : Grant(r) \/ Refuse(r)
  \/ \E s \in open : Stream(s) \/ StreamHealth(s)
  \/ Connect \/ Handle
  \/ EndInOrder \/ EndByError \/ Retry \/ Stop

\* wait_for returns when its time is up.
Spec == Init /\ [][Next]_vars /\ WF_vars(Retry)

-----------------------------------------------------------------------------
(* Properties *)

\* Every message gets to the handler of what was asked under its id, whatever
\* the order of answers, refusals and reconnections, and although _pending
\* keeps the ids of lost sessions: the first event of a subscription finds it
\* confirmed, and no id is used twice.  recorder.py: "Result messages carry only
\* an id, so remember what each id asked for."
RoutedRight ==
  /\ TypeOK
  /\ inbox # <<>> => LET m == Head(inbox)
                     IN  m.kind = IF m.type = "event" THEN Route(m.id)
                                                      ELSE pending[m.id]

\* When nothing is under way, the subscriptions the watcher knows are those that
\* are open at Core: "leaving each one open on Core's side after we're done with
\* it would leak subscriptions" (recorder.py).  State changes are never counted
\* twice, and a health request that has been answered leaves nothing behind.
SubscriptionsAgree ==
  /\ Cardinality({id \in Ids : subs[id] = "state_changed"}) <= 1
  /\ (connected /\ inbox = <<>> /\ asked = {}) =>
       /\ {s.id : s \in open} = {id \in Ids : subs[id] # None}
       /\ \A s \in open : s.got # "finish"

\* The loop does what Backoff promises: "Stay connected to the event bus,
\* reconnecting with backoff" (recorder.py).  Only stop turns it off.
B == INSTANCE Backoff
ImplementsBackoff == B!BackoffSpec /\ [](phase = "off" => stopped)

=============================================================================
