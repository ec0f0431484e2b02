------------------------------- MODULE Backoff -------------------------------
(***************************************************************************)
(* What the two long-lived connections of the add-on promise: the journal  *)
(* tail (host_events.py: "the tail must never die") and the event bus      *)
(* watcher (recorder.py: "reconnecting with backoff").  However a session  *)
(* ends, the next one is tried after a wait; the waits double up to a      *)
(* limit and start over after a session that ended in order; only a        *)
(* request to stop ends it.                                                *)
(***************************************************************************)
EXTENDS Naturals

CONSTANTS
  First,  \* _RECONNECT_DELAY
  Limit   \* _MAX_RECONNECT_DELAY

VARIABLES
  phase,  \* "session", "waiting" or "off"
  delay   \* the next wait

backoffVars == <<phase, delay>>

Doubled(d) == IF 2 * d <= Limit THEN 2 * d ELSE Limit

BackoffInit == phase = "session" /\ delay = First

EndInOrder == phase = "session" /\ phase' = "waiting" /\ delay' = First
EndByError == phase = "session" /\ phase' = "waiting" /\ UNCHANGED delay
Retry == phase = "waiting" /\ phase' = "session" /\ delay' = Doubled(delay)
Stop == phase # "off" /\ phase' = "off" /\ UNCHANGED delay
Start == phase' = "session" /\ delay' = First

BackoffNext == EndInOrder \/ EndByError \/ Retry \/ Stop \/ Start

BackoffSteps == BackoffInit /\ [][BackoffNext]_backoffVars

BackoffSpec == BackoffSteps /\ WF_backoffVars(Retry)

=============================================================================
