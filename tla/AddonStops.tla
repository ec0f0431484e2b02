----------------------------- MODULE AddonStops -----------------------------
(***************************************************************************)
(* The journal tail together with the slow loop's look at the add-ons      *)
(* (main.py, _poll_addon_states; collectors/addons.py, poll_states and     *)
(* classify_stop): was an add-on that has stopped killed by the kernel?    *)
(* The two meet in the event log, and only there.  One add-on is enough.   *)
(***************************************************************************)
EXTENDS JournalTail

CONSTANTS
  Oom,           \* the line in which the kernel names the add-on as its victim
  OomWindow,     \* _OOM_CORRELATION_WINDOW
  SlowInterval   \* slow_interval

VARIABLES
  addon,     \* the add-on's state: "started" or "stopped"
  killed,    \* when the kernel last killed it; NoTime if it stopped by itself
  baseline,  \* _states: its state at the last poll
  due,       \* when the slow loop polls again
  found,     \* poll_states has returned a stop, which is not yet classified
  verdict    \* the last classification; history: had the kernel named the kill?

poller == <<baseline, due, found, verdict>>

StopsInit ==
  /\ TailInit
  /\ addon = "started" /\ killed = NoTime
  /\ baseline = "started" /\ due = 1 /\ found = FALSE
  /\ verdict = [oom |-> FALSE, named |-> FALSE]

\* The kernel kills the add-on, the user stops or starts it.
KillAddon ==
  /\ addon = "started" /\ addon' = "stopped" /\ killed' = clock
  /\ UNCHANGED <<tail, poller>>

StopAddon ==
  /\ addon = "started" /\ addon' = "stopped" /\ killed' = NoTime
  /\ UNCHANGED <<tail, poller>>

StartAddon ==
  /\ addon = "stopped" /\ addon' = "started" /\ UNCHANGED killed
  /\ UNCHANGED <<tail, poller>>

\* poll_states; the loop then sleeps for SlowInterval.
PollStates ==
  /\ ~found /\ clock >= due
  /\ found' = (baseline = "started" /\ addon = "stopped")
  /\ baseline' = addon
  /\ due' = clock + SlowInterval
  /\ UNCHANGED <<tail, addon, killed, verdict>>

\* The events that could explain a stop found now.
Suspects ==
  {i \in 1 .. Len(admitted) :
     /\ admitted[i].line = Oom /\ admitted[i].event # NoTime
     /\ clock - admitted[i].event <= OomWindow}

\* The oom events are read from the table and held against the present time:
\* when the add-on stopped, the poll cannot know.
ClassifyStop ==
  /\ found /\ found' = FALSE
  /\ verdict' = [oom |-> Suspects # {},
                 named |-> killed # NoTime /\ \E i \in 1 .. Len(admitted) :
                             /\ admitted[i].line = Oom
                             /\ admitted[i].event = killed]
  /\ UNCHANGED <<tail, addon, killed, baseline, due>>

\* The tail goes on, in the same process.  Polls come on time, and the query
\* takes none.
TailStep == /\ TailNext /\ run' = run
            /\ clock' = clock \/ (~found /\ clock < due)
            /\ UNCHANGED <<addon, killed, poller>>

StopsNext ==
  \/ KillAddon \/ StopAddon \/ StartAddon
  \/ PollStates \/ ClassifyStop
  \/ TailStep

StopsSpec == StopsInit /\ [][StopsNext]_<<tail, addon, killed, poller>>

-----------------------------------------------------------------------------
(* Properties *)

\* If the kernel killed the add-on and its naming it as the victim is on record,
\* the stop is reported as an OOM kill.  addons.py: "The kernel names its OOM
\* victim in the journal, including the cgroup, and the Supervisor reports the
\* state transition.  Correlating the two in a short time window gives the same
\* answer".
KillsAreNamed == verdict.named => verdict.oom

=============================================================================
