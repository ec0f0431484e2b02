----------------------------- MODULE IncidentLog -----------------------------
(***************************************************************************)
(* What a run of the add-on promises about the incidents it detects live:  *)
(* a log of outages.  At most one outage is in progress.  It is closed,    *)
(* perhaps more than once and then at a later time, and let go of, and     *)
(* from then on never written again.  An outage starts after every earlier *)
(* one of the run has ended, or takes up the start of the last one, if     *)
(* nobody was told that it was over.  A new run starts with no outage in   *)
(* progress and leaves the rows of the earlier runs as they are.           *)
(***************************************************************************)
EXTENDS Naturals, Sequences

CONSTANT Times   \* the times (positive numbers) an outage may start or end at

VARIABLES
  log,      \* sequence of [run, started, ended]; ended = 0 while open
  current,  \* index of the outage in progress, or 0
  epoch,    \* the run
  untold    \* the outages that ended without anybody being told

logVars == <<log, current, epoch, untold>>

LogInit == log = <<>> /\ current = 0 /\ epoch = 1 /\ untold = {}

\* The outages of this run all ended before time s.
AllEndedBefore(s) ==
  \A i \in 1..Len(log) :
    log[i].run = epoch => log[i].ended # 0 /\ log[i].ended < s

\* The last outage is one of this run that started at s and ended untold.
Resumes(s) ==
  /\ Len(log) \in untold
  /\ log[Len(log)].run = epoch /\ log[Len(log)].started = s

Open ==
  /\ current = 0
  /\ \E s \in Times :
       /\ AllEndedBefore(s) \/ Resumes(s)
       /\ log' = Append(log, [run |-> epoch, started |-> s, ended |-> 0])
  /\ current' = Len(log) + 1
  /\ UNCHANGED <<epoch, untold>>

Close ==
  /\ current # 0
  /\ \E e \in Times : /\ e > log[current].started /\ e > log[current].ended
                      /\ log' = [log EXCEPT ![current].ended = e]
  /\ UNCHANGED <<current, epoch, untold>>

Release ==
  /\ current # 0 /\ log[current].ended # 0
  /\ current' = 0
  /\ UNCHANGED <<log, epoch, untold>>

\* The word that the last outage is over is lost.
Lose ==
  /\ current = 0 /\ log # <<>>
  /\ log[Len(log)].run = epoch /\ log[Len(log)].ended # 0
  /\ untold' = untold \cup {Len(log)}
  /\ UNCHANGED <<log, current, epoch>>

NewRun == epoch' = epoch + 1 /\ current' = 0 /\ UNCHANGED <<log, untold>>

LogNext == Open \/ Close \/ Release \/ Lose \/ NewRun

LogSpec == LogInit /\ [][LogNext]_logVars

=============================================================================
