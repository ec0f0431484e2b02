--------------------------- MODULE LifecycleProofs ---------------------------
(***************************************************************************)
(* Proofs about Lifecycle: a heartbeat that was flushed survives every way *)
(* a run can end.  The inductive invariant follows a heartbeat through *)
(* its three steps while the loop thread keeps its hands off the file, and *)
(* places every flush of the loop thread either before the first heartbeat *)
(* of the run or after the shutdown marker.                                *)
(*                                                                         *)
(* The second half is about verdicts: what the documents of a run say of   *)
(* it while it lives, that its end leaves them so for the next run, and    *)
(* that what the next run concludes from them is true.                     *)
(***************************************************************************)
EXTENDS Lifecycle, TLAPS

\* The steps of a start that come before any heartbeat.
StartSteps == {"priming", "clearing", "clearReplace", "clearSync", "classify",
               "gather", "openRow", "closeRow"}

MarkSteps == {"markReplace", "markSync", "closing"}

Beats ==
  /\ data.hb \in Nat /\ hbTmp.hb \in Nat /\ tmp.hb \in Nat
  /\ file.hb \in Nat /\ durable.hb \in Nat
  /\ beats \in Nat /\ life.begun \in Nat /\ life.done \in Nat
  /\ life.marked \in BOOLEAN

\* A heartbeat that returned is no later than the last one that was synced, or
\* its flush failed.
Claims == \A n \in life.returned : n > life.done => n \in life.failed

\* The last one that was synced is on disk.
OnDisk ==
  (pc # "down" /\ ~life.marked) => file.hb >= life.done /\ durable.hb >= life.done

Inv ==
  /\ TypeOK
  /\ life.done <= life.begun /\ life.begun <= beats
  /\ pc = "down" => hb = "idle" /\ life = NoLife
  /\ pc \in StartSteps => hb = "idle" /\ life = NoLife
  /\ pc \in MarkSteps <=> life.marked
  /\ hb = "dumped" => hbTmp.hb = life.begun
  /\ (hb = "replaced" /\ ~life.marked) => file.hb = life.begun
  /\ Claims /\ OnDisk

\* The types that the arithmetic needs.
LEMMA BeatTypes == ASSUME TypeOK PROVE Beats
  BY DEF TypeOK, Beats, Docs, Lives

\* Setting keys of the state file's data.
LEMMA DocUpdate ==
  ASSUME NEW d \in Docs, NEW n \in Nat, NEW b \in BOOLEAN
  PROVE  /\ [d EXCEPT !.hb = n] \in Docs
         /\ [d EXCEPT !.clean = b] \in Docs
         /\ [d EXCEPT !.boot = n, !.clean = b] \in Docs
  BY DEF Docs

LEMMA EmptyType == EmptyDoc \in Docs
  BY DEF Docs, EmptyDoc

\* Setting fields of the history of a run.
LEMMA LifeUpdate ==
  ASSUME NEW l \in Lives, NEW n \in Nat, NEW b \in BOOLEAN, NEW c \in BOOLEAN
  PROVE  /\ NoLife \in Lives
         /\ l.begun \in Nat /\ l.done \in Nat
         /\ [l EXCEPT !.begun = n] \in Lives
         /\ [l EXCEPT !.done = n, !.returned = @ \cup {n}] \in Lives
         /\ [l EXCEPT !.returned = @ \cup {n}, !.failed = @ \cup {n}] \in Lives
         /\ [l EXCEPT !.marked = b, !.alone = c] \in Lives
         /\ [l EXCEPT !.exited = b] \in Lives
  BY DEF Lives, NoLife

\* Closing the last row keeps the table well typed.
LEMMA ClosedType ==
  ASSUME NEW R, \A r \in R : [r EXCEPT !.closed = TRUE] \in R,
         NEW s \in Seq(R)
  PROVE  [s EXCEPT ![Len(s)].closed = TRUE] \in Seq(R)
<1>1. Len(s) \in Nat
  OBVIOUS
<1>2. CASE Len(s) = 0
  <2>1. [s EXCEPT ![Len(s)].closed = TRUE] = s
    BY <1>2
  <2> QED
    BY <2>1
<1>3. CASE Len(s) # 0
  <2>1. Len(s) \in 1..Len(s)
    BY <1>1, <1>3
  <2>2. s[Len(s)] \in R
    BY <2>1
  <2>3. [s[Len(s)] EXCEPT !.closed = TRUE] \in R
    BY <2>2
  <2> QED
    BY <2>1, <2>3
<1> QED
  BY <1>2, <1>3

\* _classify returns a verdict.
LEMMA ClassificationType == Classification \in Verdicts
  BY DEF Classification, Verdicts

\* A flush that fails touches neither the file nor what a power cut leaves of it,
\* and a heartbeat that returns all the same is noted.
LEMMA FlushFailed ==
  ASSUME TypeOK, FlushFails
  PROVE  /\ \/ /\ pc = "clearReplace" /\ pc' = "running" /\ verdict' = "unknown"
               /\ UNCHANGED hb
            \/ /\ pc \in {"clearReplace", "clearSync"} /\ pc' = "classify"
               /\ UNCHANGED <<hb, verdict>>
            \/ /\ pc \in {"markReplace", "markSync"} /\ pc' = "closing"
               /\ UNCHANGED <<hb, verdict>>
            \/ /\ hb \in {"dumped", "replaced"} /\ hb' = "idle"
               /\ UNCHANGED <<pc, verdict>>
         /\ faults' \in Nat \ {0}
         /\ life' \in Lives
         /\ hb' = hb => life' = life
         /\ life'.begun = life.begun /\ life'.done = life.done
         /\ life'.marked = life.marked /\ life'.alone = life.alone
         /\ life'.exited = life.exited
         /\ life'.returned \subseteq life.returned \cup life'.failed
         /\ life.failed \subseteq life'.failed
         /\ UNCHANGED <<boot, bootEnds, stop, data, previous, tmp, hbTmp, file, durable,
                        rows, runs, stops, beats, beatBoot, read, early, ended>>
<1>1. faults' \in Nat \ {0}
  BY DEF TypeOK, FlushFails
<1>2. UNCHANGED <<boot, bootEnds, stop, data, previous, tmp, hbTmp, file, durable,
                  rows, runs, stops, beats, beatBoot, read, early, ended>>
  BY DEF FlushFails, host, disk
<1>3. life \in Lives /\ life.begun \in Nat
  BY DEF TypeOK, Lives
<1> DEFINE told == [life EXCEPT !.returned = @ \cup {life.begun},
                               !.failed = @ \cup {life.begun}]
<1>4. told \in Lives
  BY <1>3, LifeUpdate
<1>5. /\ told.begun = life.begun /\ told.done = life.done
      /\ told.marked = life.marked /\ told.alone = life.alone
      /\ told.exited = life.exited
      /\ told.returned = life.returned \cup {life.begun}
      /\ told.failed = life.failed \cup {life.begun}
  BY <1>3 DEF Lives
<1>6. /\ \/ /\ pc = "clearReplace" /\ pc' = "running" /\ verdict' = "unknown"
            /\ UNCHANGED hb
         \/ /\ pc \in {"clearReplace", "clearSync"} /\ pc' = "classify"
            /\ UNCHANGED <<hb, verdict>>
         \/ /\ pc \in {"markReplace", "markSync"} /\ pc' = "closing"
            /\ UNCHANGED <<hb, verdict>>
         \/ /\ hb \in {"dumped", "replaced"} /\ hb' = "idle"
            /\ UNCHANGED <<pc, verdict>>
      /\ life' = life \/ life' = told
      /\ hb' = hb => life' = life
  <2> HIDE DEF told
  <2>1. told = [life EXCEPT !.returned = @ \cup {life.begun},
                            !.failed = @ \cup {life.begun}]
    BY DEF told
  <2> QED
    BY <2>1 DEF FlushFails
<1> HIDE DEF told
<1> QED
  BY <1>1, <1>2, <1>3, <1>4, <1>5, <1>6

\* What the end of a process leaves is well typed.
LEMMA Dies ==
  ASSUME TypeOK, \E how \in Lives : Die(how),
         boot' \in Nat \ {0}, bootEnds' \in Seq({"ordered", "torn"}),
         file' \in Docs, durable' \in Docs
  PROVE  TypeOK'
<1> PICK how \in Lives : Die(how)
  OBVIOUS
<1>1. /\ pc' = "down" /\ hb' = "idle" /\ stop' = FALSE /\ read' = 0
      /\ verdict' = "none" /\ life' = NoLife
      /\ data' = EmptyDoc /\ previous' = EmptyDoc /\ tmp' = EmptyDoc /\ hbTmp' = EmptyDoc
      /\ UNCHANGED <<rows, runs, beats, faults, stops, beatBoot>>
  BY DEF Die, counts
<1>2. life' \in Lives /\ ended' \in Lives
  BY <1>1 DEF Die, Lives, NoLife, TypeOK
<1>3. early' \subseteq Nat
  BY DEF Die, TypeOK
<1> QED
  BY <1>1, <1>2, <1>3, EmptyType DEF TypeOK, Steps, Verdicts

\* Every step keeps the types.
LEMMA TypeStep == TypeOK /\ [Next]_vars => TypeOK'
<1> SUFFICES ASSUME TypeOK, [Next]_vars PROVE TypeOK'
  OBVIOUS
<1> USE LifecycleAssumption
    DEF TypeOK, Steps, host, disk, worker, counts, record, Replace, Sync
<1>1. CASE Start
  <2>1. /\ stop' = FALSE /\ pc' = "priming" /\ verdict' = "none" /\ life' = NoLife
        /\ read' = 0
    BY <1>1 DEF Start
  <2>2. stop' \in BOOLEAN /\ pc' \in Steps /\ verdict' \in Verdicts /\ life' \in Lives
    BY <2>1, LifeUpdate DEF Verdicts
  <2>3. runs' \in Nat /\ data' \in Docs /\ previous' \in Docs
    BY <1>1 DEF Start
  <2> QED
    BY <1>1, <2>2, <2>3 DEF Start
<1>2. CASE Prime
  BY <1>2 DEF Prime
<1>3. CASE ClearMarker
  BY <1>3, DocUpdate DEF ClearMarker
<1>4. CASE ClearReplace
  BY <1>4 DEF ClearReplace
<1>5. CASE ClearSync
  BY <1>5 DEF ClearSync
<1>6. CASE Classify
  BY <1>6, ClassificationType DEF Classify
<1>7. CASE Gather
  <2>1. Journals \subseteq Nat
    BY DEF Journals, Docs
  <2>2. read' \in Nat /\ verdict' \in Verdicts
    BY <1>7, <2>1 DEF Gather, Verdicts
  <2> QED
    BY <1>7, <2>2 DEF Gather
<1>8. CASE OpenRow
  <2>1. [started |-> previous.hb, verdict |-> verdict, closed |-> FALSE] \in
          [started : Nat, verdict : Verdicts, closed : BOOLEAN]
    BY DEF Docs
  <2>2. rows' \in Seq([started : Nat, verdict : Verdicts, closed : BOOLEAN])
    BY <1>8, <2>1 DEF OpenRow
  <2> QED
    BY <1>8, <2>2 DEF OpenRow
<1>9. CASE CloseRow
  <2> DEFINE R == [started : Nat, verdict : Verdicts, closed : BOOLEAN]
  <2>0. \A r \in R : [r EXCEPT !.closed = TRUE] \in R
    OBVIOUS
  <2>1. rows' \in Seq(R)
    <3> HIDE DEF R
    <3>1. rows \in Seq(R)
      BY DEF R
    <3> QED
      BY <1>9, <2>0, <3>1, ClosedType DEF CloseRow
  <2> QED
    BY <1>9, <2>1 DEF CloseRow
<1>10. CASE CancelTasks
  BY <1>10 DEF CancelTasks
<1>11. CASE MarkClean
  <2> DEFINE alone == hb \in {"idle", "replaced"}
  <2>1. alone \in BOOLEAN
    OBVIOUS
  <2>2. life' = [life EXCEPT !.marked = TRUE, !.alone = alone]
    BY <1>11 DEF MarkClean
  <2>3. life' \in Lives
    <3> HIDE DEF alone
    <3> QED
      BY <2>1, <2>2, LifeUpdate
  <2> QED
    BY <1>11, <2>3, DocUpdate DEF MarkClean
<1>12. CASE MarkReplace
  BY <1>12 DEF MarkReplace
<1>13. CASE MarkSync
  BY <1>13 DEF MarkSync
<1>14. CASE Exit
  <2>1. [life EXCEPT !.exited = TRUE] \in Lives
    BY LifeUpdate
  <2>2. Die([life EXCEPT !.exited = TRUE]) /\ UNCHANGED <<boot, bootEnds, file, durable>>
    BY <1>14 DEF Exit
  <2>3. \E how \in Lives : Die(how)
    BY <2>1, <2>2
  <2> QED
    BY <2>2, <2>3, Dies DEF Verdicts
<1>15. CASE ForensicsRaises
  BY <1>15 DEF ForensicsRaises, Verdicts
<1>16. CASE HeartbeatBegin
  BY <1>16 DEF HeartbeatBegin
<1>17. CASE HeartbeatDump
  <2>1. beats' \in Nat
    BY <1>17 DEF HeartbeatDump
  <2>2. data' \in Docs /\ hbTmp' \in Docs /\ life' \in Lives
    BY <1>17, <2>1, DocUpdate, LifeUpdate DEF HeartbeatDump
  <2>3. beatBoot' \in Seq(Nat)
    BY <1>17 DEF HeartbeatDump
  <2> QED
    BY <1>17, <2>1, <2>2, <2>3 DEF HeartbeatDump
<1>18. CASE HeartbeatReplace
  BY <1>18 DEF HeartbeatReplace
<1>19. CASE HeartbeatSync
  BY <1>19, LifeUpdate DEF HeartbeatSync
<1>20. CASE FlushFails
  <2>1. pc' \in Steps /\ hb' \in {"idle", "begun", "dumped", "replaced"}
        /\ verdict' \in Verdicts
    BY <1>20, FlushFailed DEF Verdicts
  <2> QED
    BY <1>20, <2>1, FlushFailed
<1>21. CASE RequestStop
  BY <1>21 DEF RequestStop
<1>22. CASE Kill
  <2>1. Die(life) /\ UNCHANGED <<boot, bootEnds, file, durable>>
    BY <1>22 DEF Kill
  <2>2. \E how \in Lives : Die(how)
    BY <2>1
  <2> QED
    BY <2>1, <2>2, Dies DEF Verdicts
<1>23. CASE HostReboot
  <2>1. boot' \in Nat \ {0} /\ file' \in Docs /\ durable' \in Docs /\ Die(life)
    BY <1>23 DEF HostReboot
  <2>2. bootEnds' \in Seq({"ordered", "torn"})
    BY <1>23 DEF HostReboot
  <2>3. \E how \in Lives : Die(how)
    BY <2>1
  <2> QED
    BY <2>1, <2>2, <2>3, Dies DEF Verdicts
<1>24. CASE PowerLoss
  <2>1. boot' \in Nat \ {0} /\ file' \in Docs /\ durable' \in Docs /\ Die(life)
    BY <1>24 DEF PowerLoss
  <2>2. bootEnds' \in Seq({"ordered", "torn"})
    BY <1>24 DEF PowerLoss
  <2>3. \E how \in Lives : Die(how)
    BY <2>1
  <2> QED
    BY <2>1, <2>2, <2>3, Dies DEF Verdicts
<1>25. CASE UNCHANGED vars
  BY <1>25 DEF vars
<1> QED
  BY <1>1, <1>2, <1>3, <1>4, <1>5, <1>6, <1>7, <1>8, <1>9, <1>10, <1>11, <1>12, <1>13, <1>14, <1>15, <1>16, <1>17, <1>18, <1>19, <1>20, <1>21, <1>22, <1>23, <1>24, <1>25 DEF Next, LoopStep, WorkerStep

\* No heartbeat has been made at first.
LEMMA InvInit == Init => Inv
<1> SUFFICES ASSUME Init PROVE Inv
  OBVIOUS
<1>1. TypeOK
  <2>1. bootEnds \in Seq({"ordered", "torn"}) /\ beatBoot \in Seq(Nat)
        /\ rows \in Seq([started : Nat, verdict : Verdicts, closed : BOOLEAN])
    BY DEF Init
  <2>2. EmptyDoc \in Docs /\ NoLife \in Lives
    BY DEF Docs, EmptyDoc, Lives, NoLife
  <2>3. pc \in Steps /\ verdict \in Verdicts /\ stop \in BOOLEAN
    BY DEF Init, Steps, Verdicts
  <2> QED
    BY <2>1, <2>2, <2>3 DEF Init, TypeOK
<1> QED
  BY <1>1 DEF Init, Inv, Claims, OnDisk, NoLife, EmptyDoc, StartSteps, MarkSteps

\* Every step keeps the invariant.
LEMMA InvStep == Inv /\ [Next]_vars => Inv'
<1> SUFFICES ASSUME Inv, [Next]_vars PROVE Inv'
  OBVIOUS
<1>0. TypeOK' /\ Beats /\ Beats'
  <2>1. TypeOK'
    BY TypeStep DEF Inv
  <2>2. Beats
    BY BeatTypes DEF Inv
  <2>3. Beats'
    BY <2>1, BeatTypes, PTL
  <2> QED
    BY <2>1, <2>2, <2>3
<1> USE DEF Inv, Claims, OnDisk, Beats, StartSteps, MarkSteps, NoLife,
            host, disk, worker, counts, record, Die, Replace, Sync
<1>1. CASE Start
  BY <1>0, <1>1 DEF Start
<1>2. CASE Prime
  BY <1>0, <1>2 DEF Prime
<1>3. CASE ClearMarker
  BY <1>0, <1>3 DEF ClearMarker
<1>4. CASE ClearReplace
  BY <1>0, <1>4 DEF ClearReplace
<1>5. CASE ClearSync
  BY <1>0, <1>5 DEF ClearSync
<1>6. CASE Classify
  BY <1>0, <1>6 DEF Classify
<1>7. CASE Gather
  BY <1>0, <1>7 DEF Gather
<1>8. CASE OpenRow
  BY <1>0, <1>8 DEF OpenRow
<1>9. CASE CloseRow
  BY <1>0, <1>9 DEF CloseRow
<1>10. CASE CancelTasks
  BY <1>0, <1>10 DEF CancelTasks
<1>11. CASE MarkClean
  BY <1>0, <1>11 DEF MarkClean
<1>12. CASE MarkReplace
  BY <1>0, <1>12 DEF MarkReplace
<1>13. CASE MarkSync
  BY <1>0, <1>13 DEF MarkSync
<1>14. CASE Exit
  BY <1>0, <1>14 DEF Exit
<1>15. CASE ForensicsRaises
  BY <1>0, <1>15, LifecycleAssumption DEF ForensicsRaises
<1>16. CASE HeartbeatBegin
  BY <1>0, <1>16 DEF HeartbeatBegin
<1>17. CASE HeartbeatDump
  BY <1>0, <1>17 DEF HeartbeatDump
<1>18. CASE HeartbeatReplace
  BY <1>0, <1>18 DEF HeartbeatReplace
<1>19. CASE HeartbeatSync
  <2>1. /\ life'.begun = life.begun /\ life'.done = life.begun
        /\ life'.marked = life.marked /\ life'.failed = life.failed
        /\ life'.returned = life.returned \cup {life.begun}
    BY <1>19 DEF HeartbeatSync, TypeOK, Lives
  <2>2. \A n \in life.returned : n \in Nat
    BY DEF TypeOK, Lives
  <2>3. Claims'
    BY <1>0, <2>1, <2>2
  <2> QED
    BY <1>0, <1>19, <2>1, <2>3 DEF HeartbeatSync
<1>20. CASE FlushFails
  BY <1>0, <1>20, FlushFailed
<1>21. CASE RequestStop
  BY <1>0, <1>21 DEF RequestStop
<1>22. CASE Kill
  BY <1>0, <1>22 DEF Kill
<1>23. CASE HostReboot
  BY <1>0, <1>23 DEF HostReboot
<1>24. CASE PowerLoss
  BY <1>0, <1>24 DEF PowerLoss
<1>25. CASE UNCHANGED vars
  BY <1>0, <1>25 DEF vars
<1> QED
  BY <1>1, <1>2, <1>3, <1>4, <1>5, <1>6, <1>7, <1>8, <1>9, <1>10, <1>11, <1>12, <1>13, <1>14, <1>15, <1>16, <1>17, <1>18, <1>19, <1>20, <1>21, <1>22, <1>23, <1>24, <1>25 DEF Next, LoopStep, WorkerStep

\* Type correctness, whatever dies when.
THEOREM TypeCorrect == Spec => []TypeOK
<1>1. Inv => TypeOK
  BY DEF Inv
<1> QED
  BY InvInit, InvStep, <1>1, PTL DEF Spec

\* A heartbeat that has returned is on disk, for good, or its own flush failed:
\* whatever the process and the host do, neither the file nor what a power cut
\* leaves of it is older than any other heartbeat that returned, until the
\* shutdown marker is being written.
THEOREM HeartbeatsAreDurable == Spec => []HeartbeatIsDurable
<1>1. Inv => HeartbeatIsDurable
  <2> SUFFICES ASSUME Inv, pc # "down", ~life.marked, NEW n \in life.returned,
                      file.hb < n \/ durable.hb < n
               PROVE  n \in life.failed
    BY DEF HeartbeatIsDurable
  <2>1. n \in Nat /\ life.done \in Nat /\ file.hb \in Nat /\ durable.hb \in Nat
    BY BeatTypes DEF Inv, Beats, TypeOK, Lives
  <2>2. file.hb >= life.done /\ durable.hb >= life.done
    BY DEF Inv, OnDisk
  <2> QED
    BY <2>1, <2>2 DEF Inv, Claims
<1> QED
  BY InvInit, InvStep, <1>1, PTL DEF Spec

-----------------------------------------------------------------------------
(* What a run leaves, and what the next one makes of it                      *)

\* record_boot, which comes before the marker is cleared, does not raise: if it
\* did, the next run would find the marker of a run before.
MarkerIsCleared == "clearing" \notin FaultPoints

Outages == {"addon_restart", "host_reboot", "host_power_loss"}

BeforeVerdict == BeforeClear \cup {"clearReplace", "clearSync", "classify"}

\* What is on file of a run l, after its first heartbeat.
Left(doc, l) ==
  /\ doc.boot \in 1..boot
  /\ \A n \in l.done..l.begun : beatBoot[n] = doc.boot
  /\ IF doc.clean THEN l.marked ELSE doc.hb \in l.done..l.begun

Stopped(doc) == doc.clean /\ doc.hb # 0

\* The same once the run has ended; a run that stopped alone left its marker.
LeftBehind(doc) ==
  ended.done # 0 =>
    /\ Left(doc, ended)
    /\ (ended.exited /\ ended.alone /\ faults = 0) => Stopped(doc)

BeatInv ==
  /\ boot # 0
  /\ Len(beatBoot) = beats /\ ended.begun <= beats /\ ended.done <= ended.begun
  /\ life.begun # 0 =>
       life.begun = beats /\ beatBoot[life.begun] = boot /\ data.hb = life.begun

\* While a run lasts, every document that it writes is its own.
RunInv ==
  /\ ~life.exited /\ (life.alone => life.marked /\ hb \in {"idle", "replaced"})
  /\ pc \notin BeforeClear => data.boot = boot /\ data.clean = life.marked
  /\ life.done # 0 =>
       \A doc \in {file, durable} : Left(doc, life) /\ doc.boot = boot
  /\ hb \in {"dumped", "replaced"} => life.begun # 0
  /\ hb = "dumped" => hbTmp.boot = boot /\ (hbTmp.clean => life.marked)
  /\ hb = "replaced" =>
       /\ file.boot = boot
       /\ IF file.clean THEN life.marked ELSE file.hb = life.begun
  /\ pc = "markReplace" => tmp.boot = boot /\ tmp.clean
  /\ (life.alone /\ life.begun # 0) =>
       /\ pc = "markReplace" => tmp.hb # 0
       /\ (pc \in {"markSync", "closing"} /\ faults = 0) => Stopped(file)
       /\ (pc = "closing" /\ faults = 0) => Stopped(durable)

\* The next run works with what the last one left.
LegacyInv ==
  IF pc = "down" THEN LeftBehind(file) /\ LeftBehind(durable) ELSE LeftBehind(previous)

VerdictInv ==
  /\ pc \in BeforeVerdict => verdict = "none"
  /\ pc \in {"gather", "openRow", "closeRow"} => verdict \in Outages
  /\ pc = "running" => verdict # "none"
  /\ verdict = "unknown" => faults # 0
  /\ verdict = "first_run" => previous.hb = 0
  /\ verdict \in Outages => previous.hb # 0
  /\ verdict = "clean_restart" => previous.clean
  /\ verdict \in Outages => ~previous.clean
  /\ verdict = "addon_restart" => previous.boot \in {0, boot}
  /\ verdict \in {"host_reboot", "host_power_loss"} => previous.boot \notin {0, boot}

\* The incident of an outage is the last one recorded.
RowInv ==
  (pc \in {"closeRow", "running"} /\ verdict \in Outages) =>
    /\ rows # <<>>
    /\ rows[Len(rows)].started = previous.hb /\ rows[Len(rows)].verdict = verdict
    /\ pc = "running" => rows[Len(rows)].closed

\* What the verdict makes of the journal: it is that of the boot on file, or of
\* the boot before this one.
JournalInv ==
  /\ verdict = "host_reboot" =>
       bootEnds[read] = "ordered" /\ read \in {previous.boot, boot - 1}
  /\ (verdict = "host_power_loss" /\ pc # "gather" /\ read # 0) =>
       bootEnds[read] # "ordered" /\ read \in {previous.boot, boot - 1}

\* Boots are counted, and no document holds a heartbeat that was not made.
BootInv ==
  /\ Len(bootEnds) = boot - 1
  /\ \A n \in 1..beats : beatBoot[n] \in 1..boot
  /\ \A doc \in {data, previous, tmp, hbTmp, file, durable} : doc.hb <= beats

\* The boot an unmarked document gives is that of its heartbeat, or one in which
\* a run had put its own boot beside its predecessor's heartbeat.
Told(doc, excused) ==
  (doc.hb # 0 /\ ~doc.clean) =>
    /\ beatBoot[doc.hb] <= doc.boot /\ doc.boot <= boot
    /\ doc.boot = beatBoot[doc.hb] \/ doc.boot \in excused

\* The run that lasts is such a run until its first heartbeat is on disk.
Excused ==
  early \cup (IF pc \notin BeforeClear /\ life.done = 0 THEN {boot} ELSE {})

ToldInv ==
  /\ Told(file, Excused) /\ Told(durable, Excused) /\ Told(previous, early)
  /\ pc \notin BeforeClear => Told(data, Excused)
  /\ pc = "clearReplace" => Told(tmp, Excused)
  /\ hb = "dumped" => Told(hbTmp, Excused)

EndInv == Inv /\ BeatInv /\ RunInv /\ LegacyInv /\ VerdictInv /\ RowInv

FullInv == EndInv /\ JournalInv /\ BootInv /\ ToldInv

\* A new heartbeat leaves the earlier ones as they are.
LEMMA NewBeat ==
  ASSUME TypeOK, BeatInv, HeartbeatDump
  PROVE  /\ beats' = beats + 1 /\ Len(beatBoot') = beats' /\ beatBoot'[beats'] = boot
         /\ \A n \in 1..beats : beatBoot'[n] = beatBoot[n]
         /\ life'.begun = beats' /\ life'.done = life.done /\ life'.marked = life.marked
         /\ life'.alone = life.alone /\ life'.exited = life.exited
         /\ data'.hb = beats' /\ data'.boot = data.boot /\ data'.clean = data.clean
         /\ hbTmp' = data' /\ hb = "begun" /\ hb' = "dumped"
         /\ UNCHANGED <<boot, bootEnds, pc, file, durable, tmp, previous, ended, faults>>
<1>1. /\ beats' = beats + 1 /\ beatBoot' = Append(beatBoot, boot)
      /\ life' = [life EXCEPT !.begun = beats'] /\ data' = [data EXCEPT !.hb = beats']
      /\ hbTmp' = data' /\ hb = "begun" /\ hb' = "dumped"
      /\ UNCHANGED <<boot, bootEnds, pc, file, durable, tmp, previous, ended, faults>>
  BY DEF HeartbeatDump, host, disk
<1>2. beatBoot \in Seq(Nat) /\ boot \in Nat /\ Len(beatBoot) = beats /\ beats \in Nat
  BY DEF TypeOK, BeatInv
<1>3. /\ Len(beatBoot') = beats' /\ beatBoot'[beats'] = boot
      /\ \A n \in 1..beats : beatBoot'[n] = beatBoot[n]
  BY <1>1, <1>2
<1>4. /\ life'.begun = beats' /\ life'.done = life.done /\ life'.marked = life.marked
      /\ life'.alone = life.alone /\ life'.exited = life.exited
  BY <1>1 DEF TypeOK, Lives
<1>5. data'.hb = beats' /\ data'.boot = data.boot /\ data'.clean = data.clean
  BY <1>1 DEF TypeOK, Docs
<1> QED
  BY <1>1, <1>3, <1>4, <1>5

LEMMA BeatDump ==
  ASSUME Inv, BeatInv, HeartbeatDump
  PROVE  BeatInv'
<1>1. TypeOK /\ beats \in Nat /\ ended.begun \in Nat /\ ended.begun <= beats
  BY DEF Inv, TypeOK, Lives, BeatInv
<1>2. beats' = beats + 1 /\ UNCHANGED <<boot, ended>>
  BY <1>1, NewBeat
<1>3. ended'.begun <= beats'
  BY <1>1, <1>2
<1> QED
  BY <1>1, <1>2, <1>3, NewBeat DEF BeatInv

\* A fault is counted, and touches little else.
LEMMA Raised ==
  ASSUME TypeOK, MarkerIsCleared, ForensicsRaises
  PROVE  /\ pc \in {"classify", "gather", "openRow", "closeRow"} /\ pc' = "running"
         /\ faults' \in Nat \ {0} /\ verdict' = "unknown"
         /\ UNCHANGED <<boot, bootEnds, hb, hbTmp, data, previous, tmp, file, durable,
                        beatBoot, read, early, life, ended>>
<1>1. pc # "flush" /\ faults \in Nat
  BY DEF TypeOK, Steps
<1> QED
  BY <1>1, LifecycleAssumption DEF ForensicsRaises, MarkerIsCleared, host, disk, worker, record

\* The heartbeats of a run are the last ones made.
LEMMA BeatStep ==
  ASSUME Inv, BeatInv, [Next]_vars
  PROVE  BeatInv'
<1> USE DEF Inv, TypeOK, Docs, Lives, StartSteps, MarkSteps, NoLife, BeforeClear, BeforeVerdict,
           host, disk, worker, counts, record, Die, Replace, Sync, BeatInv
<1>1. CASE Start
  BY <1>1 DEF Start
<1>2. CASE Prime
  BY <1>2 DEF Prime
<1>3. CASE ClearMarker
  BY <1>3 DEF ClearMarker
<1>4. CASE ClearReplace
  BY <1>4 DEF ClearReplace
<1>5. CASE ClearSync
  BY <1>5 DEF ClearSync
<1>6. CASE Classify
  BY <1>6 DEF Classify
<1>7. CASE Gather
  BY <1>7 DEF Gather
<1>8. CASE OpenRow
  BY <1>8 DEF OpenRow
<1>9. CASE CloseRow
  BY <1>9 DEF CloseRow
<1>10. CASE CancelTasks
  BY <1>10 DEF CancelTasks
<1>11. CASE MarkClean
  BY <1>11 DEF MarkClean
<1>12. CASE MarkReplace
  BY <1>12 DEF MarkReplace
<1>13. CASE MarkSync
  BY <1>13 DEF MarkSync
<1>14. CASE Exit
  BY <1>14 DEF Exit
<1>15. CASE ForensicsRaises
  BY <1>15 DEF ForensicsRaises
<1>16. CASE HeartbeatBegin
  BY <1>16 DEF HeartbeatBegin
<1>17. CASE HeartbeatDump
  BY <1>17, BeatDump
<1>18. CASE HeartbeatReplace
  BY <1>18 DEF HeartbeatReplace
<1>19. CASE HeartbeatSync
  BY <1>19 DEF HeartbeatSync
<1>20. CASE FlushFails
  BY <1>20 DEF FlushFails
<1>21. CASE RequestStop
  BY <1>21 DEF RequestStop
<1>22. CASE Kill
  BY <1>22 DEF Kill
<1>23. CASE HostReboot
  BY <1>23 DEF HostReboot
<1>24. CASE PowerLoss
  BY <1>24 DEF PowerLoss
<1>25. CASE UNCHANGED vars
  BY <1>25 DEF vars
<1> QED
  BY <1>1, <1>2, <1>3, <1>4, <1>5, <1>6, <1>7, <1>8, <1>9, <1>10, <1>11, <1>12, <1>13, <1>14, <1>15, <1>16, <1>17, <1>18, <1>19, <1>20, <1>21, <1>22, <1>23, <1>24, <1>25 DEF Next, LoopStep, WorkerStep

\* A new heartbeat of a run is of the same boot as its last one.
LEMMA RunDump ==
  ASSUME Inv, BeatInv, RunInv, HeartbeatDump
  PROVE  RunInv'
<1>0. TypeOK
  BY DEF Inv
<1>1. pc \notin BeforeClear /\ data.boot = boot /\ data.clean = life.marked /\ ~life.alone
  BY <1>0, NewBeat DEF Inv, RunInv, BeforeClear, StartSteps
<1>2. beats \in Nat /\ life.begun \in Nat /\ life.done \in Nat /\ life.done <= life.begun
  BY DEF Inv, TypeOK, Lives
<1>3. ASSUME life.done # 0, NEW doc \in {file, durable}
      PROVE  Left(doc, life)' /\ doc.boot = boot
  <2>1. life.begun = beats /\ Left(doc, life) /\ doc.boot = boot
    BY <1>2, <1>3 DEF BeatInv, RunInv
  <2>2. ASSUME NEW n \in life.done..(beats + 1)
        PROVE  beatBoot'[n] = doc.boot
    <3>1. CASE n = beats + 1
      BY <1>0, <2>1, <3>1, NewBeat
    <3>2. CASE n # beats + 1
      <4>1. n \in 1..beats /\ n \in life.done..life.begun
        BY <1>2, <1>3, <2>1, <3>2
      <4> QED
        BY <1>0, <2>1, <4>1, NewBeat DEF Left
    <3> QED
      BY <3>1, <3>2
  <2>3. ~doc.clean => doc.hb \in life.done..(beats + 1)
    BY <1>2, <2>1 DEF Left
  <2> QED
    BY <1>0, <2>1, <2>2, <2>3, NewBeat DEF Left
<1> QED
  BY <1>0, <1>1, <1>2, <1>3, NewBeat DEF RunInv

\* A flush that fails leaves the file as it was.
LEMMA RunFlush ==
  ASSUME Inv, BeatInv, RunInv, FlushFails
  PROVE  RunInv'
<1>1. TypeOK
  BY DEF Inv
<1>2. pc' \in BeforeClear => pc \in BeforeClear
  BY <1>1, FlushFailed DEF BeforeClear
<1> QED
  BY <1>1, <1>2, FlushFailed DEF RunInv, Left, Stopped, BeforeClear

\* A heartbeat that returns is what the file says.
LEMMA RunSync ==
  ASSUME Inv, BeatInv, RunInv, HeartbeatSync
  PROVE  RunInv'
<1>1. /\ hb = "replaced" /\ hb' = "idle" /\ durable' = file
      /\ UNCHANGED <<boot, pc, data, tmp, file, beatBoot, faults>>
      /\ life'.done = life.begun /\ life'.begun = life.begun /\ life'.marked = life.marked
      /\ life'.alone = life.alone /\ life'.exited = life.exited
  BY DEF HeartbeatSync, Inv, TypeOK, Lives, host, counts
<1>2. life.begun \in Nat /\ file.boot = boot /\ life.begun # 0 /\ boot \in Nat /\ boot # 0
  BY <1>1 DEF Inv, TypeOK, Lives, RunInv, BeatInv
<1>3. Left(file, life)'
  BY <1>1, <1>2 DEF RunInv, BeatInv, Left
<1> QED
  BY <1>1, <1>2, <1>3 DEF RunInv, Stopped

\* The shutdown marker takes the place of the file.
LEMMA RunMarkReplace ==
  ASSUME Inv, BeatInv, RunInv, MarkReplace
  PROVE  RunInv'
<1>1. /\ pc = "markReplace" /\ pc' = "markSync" /\ file' = tmp
      /\ UNCHANGED <<boot, hb, hbTmp, data, tmp, durable, beatBoot, life, faults>>
  BY DEF MarkReplace, Replace, host, worker, counts, record
<1>2. life.marked /\ tmp.boot = boot /\ tmp.clean /\ boot \in Nat /\ boot # 0
  BY <1>1 DEF Inv, MarkSteps, TypeOK, RunInv, BeatInv
<1>3. life.done # 0 => Left(tmp, life)
  <2>1. life.done # 0 => \A n \in life.done..life.begun : beatBoot[n] = boot
    BY DEF RunInv, Left
  <2> QED
    BY <1>2, <2>1 DEF Left
<1>4. life.done # 0 => \A doc \in {file', durable'} : Left(doc, life)' /\ doc.boot = boot'
  BY <1>1, <1>2, <1>3 DEF RunInv, Left
<1>5. (life.alone /\ life.begun # 0) => Stopped(tmp)
  BY <1>1, <1>2 DEF RunInv, Stopped
<1>6. /\ ~life.exited /\ (life.alone => life.marked /\ hb \in {"idle", "replaced"})
      /\ data.boot = boot /\ data.clean = life.marked
      /\ hb \in {"dumped", "replaced"} => life.begun # 0
      /\ hb = "dumped" => hbTmp.boot = boot /\ (hbTmp.clean => life.marked)
  BY <1>1 DEF RunInv, BeforeClear
<1> QED
  BY <1>1, <1>2, <1>4, <1>5, <1>6 DEF RunInv, Stopped

\* A run that has cleared its predecessor's marker writes its own documents only.
LEMMA RunStep ==
  ASSUME MarkerIsCleared, Inv, BeatInv, RunInv, [Next]_vars
  PROVE  RunInv'
<1> USE DEF Inv, TypeOK, Docs, Lives, StartSteps, MarkSteps, NoLife, BeforeClear, BeforeVerdict,
           host, disk, worker, counts, record, Die, Replace, Sync, BeatInv, RunInv, Left, Stopped, MarkerIsCleared
<1>1. CASE Start
  BY <1>1 DEF Start
<1>2. CASE Prime
  BY <1>2 DEF Prime
<1>3. CASE ClearMarker
  BY <1>3 DEF ClearMarker
<1>4. CASE ClearReplace
  BY <1>4 DEF ClearReplace
<1>5. CASE ClearSync
  BY <1>5 DEF ClearSync
<1>6. CASE Classify
  BY <1>6 DEF Classify
<1>7. CASE Gather
  BY <1>7 DEF Gather
<1>8. CASE OpenRow
  BY <1>8 DEF OpenRow
<1>9. CASE CloseRow
  BY <1>9 DEF CloseRow
<1>10. CASE CancelTasks
  BY <1>10 DEF CancelTasks
<1>11. CASE MarkClean
  BY <1>11 DEF MarkClean
<1>12. CASE MarkReplace
  BY <1>12, RunMarkReplace
<1>13. CASE MarkSync
  BY <1>13 DEF MarkSync
<1>14. CASE Exit
  BY <1>14 DEF Exit
<1>15. CASE ForensicsRaises
  BY <1>15, Raised
<1>16. CASE HeartbeatBegin
  BY <1>16 DEF HeartbeatBegin
<1>17. CASE HeartbeatDump
  BY <1>17, RunDump
<1>18. CASE HeartbeatReplace
  BY <1>18 DEF HeartbeatReplace
<1>19. CASE HeartbeatSync
  BY <1>19, RunSync
<1>20. CASE FlushFails
  BY <1>20, RunFlush
<1>21. CASE RequestStop
  BY <1>21 DEF RequestStop
<1>22. CASE Kill
  BY <1>22 DEF Kill
<1>23. CASE HostReboot
  BY <1>23 DEF HostReboot
<1>24. CASE PowerLoss
  BY <1>24 DEF PowerLoss
<1>25. CASE UNCHANGED vars
  BY <1>25 DEF vars
<1> QED
  BY <1>1, <1>2, <1>3, <1>4, <1>5, <1>6, <1>7, <1>8, <1>9, <1>10, <1>11, <1>12, <1>13, <1>14, <1>15, <1>16, <1>17, <1>18, <1>19, <1>20, <1>21, <1>22, <1>23, <1>24, <1>25 DEF Next, LoopStep, WorkerStep

\* The end of a run, by itself, by a kill or with the boot.
LEMMA Ends ==
  ASSUME Inv, BeatInv, RunInv, pc # "down", pc' = "down",
         boot' \in {boot, boot + 1}, UNCHANGED <<beatBoot, faults>>,
         file' \in {file, durable}, durable' \in {file, durable},
         \/ ended' = life
         \/ pc = "closing" /\ ended' = [life EXCEPT !.exited = TRUE]
  PROVE  LegacyInv'
<1>1. boot \in Nat /\ boot' \in Nat /\ boot <= boot'
  BY DEF Inv, TypeOK
<1>2. /\ life.begun \in Nat /\ life.done \in Nat /\ life.done <= life.begun
      /\ ended'.begun = life.begun /\ ended'.done = life.done
      /\ ended'.marked = life.marked /\ ended'.alone = life.alone
      /\ ended'.exited => pc = "closing"
  BY DEF Inv, TypeOK, Lives, RunInv
<1>3. ASSUME life.done # 0, NEW doc \in {file, durable}
      PROVE  LeftBehind(doc)'
  <2>1. Left(doc, life) /\ doc.boot = boot
    BY <1>3 DEF RunInv
  <2>2. Left(doc, ended)'
    BY <1>1, <1>2, <2>1 DEF Left
  <2>4. pc = "closing" /\ life.alone /\ faults = 0 => Stopped(doc)
    BY <1>2, <1>3 DEF RunInv
  <2> QED
    BY <1>2, <2>2, <2>4 DEF LeftBehind, Stopped
<1> QED
  BY <1>2, <1>3 DEF LegacyInv, LeftBehind

\* A reboot after the end.
LEMMA Reboots ==
  ASSUME Inv, LegacyInv, pc = "down", pc' = "down",
         boot' = boot + 1, UNCHANGED <<beatBoot, faults, ended>>,
         file' \in {file, durable}, durable' \in {file, durable}
  PROVE  LegacyInv'
<1>1. boot \in Nat
  BY DEF Inv, TypeOK
<1>2. ASSUME NEW doc \in {file, durable} PROVE LeftBehind(doc)'
  BY <1>1, <1>2 DEF LegacyInv, LeftBehind, Left, Stopped
<1> QED
  BY <1>2 DEF LegacyInv, LeftBehind

\* A fault relieves the runs to come.
LEMMA Faults ==
  ASSUME LegacyInv, faults' # 0, pc' = "down" <=> pc = "down",
         UNCHANGED <<boot, file, durable, previous, beatBoot, ended>>
  PROVE  LegacyInv'
<1>1. ASSUME NEW doc, LeftBehind(doc) PROVE LeftBehind(doc)'
  BY <1>1 DEF LeftBehind, Left
<1> QED
  BY <1>1 DEF LegacyInv, LeftBehind, Left

\* A new heartbeat is none of those of the run before.
LEMMA LegacyDump ==
  ASSUME Inv, BeatInv, LegacyInv, HeartbeatDump
  PROVE  LegacyInv'
<1>1. TypeOK /\ pc # "down"
  BY DEF Inv, HeartbeatDump
<1>2. /\ ended.begun \in Nat /\ ended.done \in Nat /\ beats \in Nat /\ ended.begun <= beats
  BY <1>1 DEF TypeOK, Lives, BeatInv
<1>3. ended.done # 0 => \A n \in ended.done..ended.begun : beatBoot'[n] = beatBoot[n]
  BY <1>1, <1>2, NewBeat
<1>4. UNCHANGED <<boot, pc, previous, ended, faults>>
  BY <1>1, NewBeat
<1> QED
  BY <1>1, <1>3, <1>4 DEF LegacyInv, LeftBehind, Left, Stopped

\* The next run finds what the last one left.
LEMMA LegacyStep ==
  ASSUME MarkerIsCleared, Inv, BeatInv, RunInv, LegacyInv, [Next]_vars
  PROVE  LegacyInv'
<1> USE DEF Inv, TypeOK, Docs, Lives, StartSteps, MarkSteps, NoLife, BeforeClear, BeforeVerdict,
           host, disk, worker, counts, record, Die, Replace, Sync, BeatInv, RunInv, LegacyInv, LeftBehind, Left, Stopped
<1>1. CASE Start
  BY <1>1 DEF Start
<1>2. CASE Prime
  BY <1>2 DEF Prime
<1>3. CASE ClearMarker
  BY <1>3 DEF ClearMarker
<1>4. CASE ClearReplace
  BY <1>4 DEF ClearReplace
<1>5. CASE ClearSync
  BY <1>5 DEF ClearSync
<1>6. CASE Classify
  BY <1>6 DEF Classify
<1>7. CASE Gather
  BY <1>7 DEF Gather
<1>8. CASE OpenRow
  BY <1>8 DEF OpenRow
<1>9. CASE CloseRow
  BY <1>9 DEF CloseRow
<1>10. CASE CancelTasks
  BY <1>10 DEF CancelTasks
<1>11. CASE MarkClean
  BY <1>11 DEF MarkClean
<1>12. CASE MarkReplace
  BY <1>12 DEF MarkReplace
<1>13. CASE MarkSync
  BY <1>13 DEF MarkSync
<1>14. CASE Exit
  <2>1. /\ pc = "closing" /\ pc' = "down" /\ ended' = [life EXCEPT !.exited = TRUE]
        /\ UNCHANGED <<boot, file, durable, beatBoot, faults>>
    BY <1>14 DEF Exit
  <2> QED
    BY <2>1, Ends
<1>15. CASE ForensicsRaises
  <2>1. pc' # "down" /\ pc # "down"
    BY <1>15, Raised
  <2> QED
    BY <1>15, <2>1, Raised, Faults
<1>16. CASE HeartbeatBegin
  BY <1>16 DEF HeartbeatBegin
<1>17. CASE HeartbeatDump
  BY <1>17, LegacyDump
<1>18. CASE HeartbeatReplace
  BY <1>18 DEF HeartbeatReplace
<1>19. CASE HeartbeatSync
  BY <1>19 DEF HeartbeatSync
<1>20. CASE FlushFails
  <2>1. pc' = "down" <=> pc = "down"
    BY <1>20, FlushFailed
  <2> QED
    BY <1>20, <2>1, FlushFailed, Faults
<1>21. CASE RequestStop
  BY <1>21 DEF RequestStop
<1>22. CASE Kill
  <2>1. /\ pc # "down" /\ pc' = "down" /\ ended' = life
        /\ UNCHANGED <<boot, file, durable, beatBoot, faults>>
    BY <1>22 DEF Kill
  <2> QED
    BY <2>1, Ends
<1>23. CASE HostReboot
  <2>1. /\ pc' = "down" /\ boot' = boot + 1 /\ UNCHANGED <<beatBoot, faults>>
        /\ file' \in {file, durable} /\ durable' \in {file, durable}
        /\ ended' = IF pc = "down" THEN ended ELSE life
    BY <1>23 DEF HostReboot
  <2> QED
    BY <2>1, Ends, Reboots
<1>24. CASE PowerLoss
  <2>1. /\ pc' = "down" /\ boot' = boot + 1 /\ UNCHANGED <<beatBoot, faults>>
        /\ file' \in {file, durable} /\ durable' \in {file, durable}
        /\ ended' = IF pc = "down" THEN ended ELSE life
    BY <1>24 DEF PowerLoss
  <2> QED
    BY <2>1, Ends, Reboots
<1>25. CASE UNCHANGED vars
  BY <1>25 DEF vars
<1> QED
  BY <1>1, <1>2, <1>3, <1>4, <1>5, <1>6, <1>7, <1>8, <1>9, <1>10, <1>11, <1>12, <1>13, <1>14, <1>15, <1>16, <1>17, <1>18, <1>19, <1>20, <1>21, <1>22, <1>23, <1>24, <1>25 DEF Next, LoopStep, WorkerStep

\* A verdict says what is on file.
LEMMA VerdictStep ==
  ASSUME MarkerIsCleared, Inv, VerdictInv, [Next]_vars
  PROVE  VerdictInv'
<1> USE DEF Inv, TypeOK, Docs, Lives, StartSteps, MarkSteps, NoLife, BeforeClear, BeforeVerdict,
           host, disk, worker, counts, record, Die, Replace, Sync, VerdictInv, Outages, Verdicts, MarkerIsCleared
<1>1. CASE Start
  BY <1>1 DEF Start
<1>2. CASE Prime
  BY <1>2 DEF Prime
<1>3. CASE ClearMarker
  BY <1>3 DEF ClearMarker
<1>4. CASE ClearReplace
  BY <1>4 DEF ClearReplace
<1>5. CASE ClearSync
  BY <1>5 DEF ClearSync
<1>6. CASE Classify
  <2>1. /\ verdict' = Classification /\ UNCHANGED <<boot, previous, faults>>
        /\ pc' = IF verdict' \in {"first_run", "clean_restart"} THEN "running" ELSE "gather"
    BY <1>6 DEF Classify
  <2> QED
    BY <2>1 DEF Classification
<1>7. CASE Gather
  BY <1>7 DEF Gather
<1>8. CASE OpenRow
  BY <1>8 DEF OpenRow
<1>9. CASE CloseRow
  BY <1>9 DEF CloseRow
<1>10. CASE CancelTasks
  BY <1>10 DEF CancelTasks
<1>11. CASE MarkClean
  BY <1>11 DEF MarkClean
<1>12. CASE MarkReplace
  BY <1>12 DEF MarkReplace
<1>13. CASE MarkSync
  BY <1>13 DEF MarkSync
<1>14. CASE Exit
  BY <1>14 DEF Exit
<1>15. CASE ForensicsRaises
  BY <1>15 DEF ForensicsRaises
<1>16. CASE HeartbeatBegin
  BY <1>16 DEF HeartbeatBegin
<1>17. CASE HeartbeatDump
  BY <1>17 DEF HeartbeatDump
<1>18. CASE HeartbeatReplace
  BY <1>18 DEF HeartbeatReplace
<1>19. CASE HeartbeatSync
  BY <1>19 DEF HeartbeatSync
<1>20. CASE FlushFails
  BY <1>20, FlushFailed
<1>21. CASE RequestStop
  BY <1>21 DEF RequestStop
<1>22. CASE Kill
  BY <1>22 DEF Kill
<1>23. CASE HostReboot
  BY <1>23 DEF HostReboot
<1>24. CASE PowerLoss
  BY <1>24 DEF PowerLoss
<1>25. CASE UNCHANGED vars
  BY <1>25 DEF vars
<1> QED
  BY <1>1, <1>2, <1>3, <1>4, <1>5, <1>6, <1>7, <1>8, <1>9, <1>10, <1>11, <1>12, <1>13, <1>14, <1>15, <1>16, <1>17, <1>18, <1>19, <1>20, <1>21, <1>22, <1>23, <1>24, <1>25 DEF Next, LoopStep, WorkerStep

\* The last element after an Append, and after the EXCEPT of close_incident.
LEMMA AppendLast ==
  ASSUME NEW R, NEW s \in Seq(R), NEW r \in R
  PROVE  Append(s, r) # <<>> /\ Append(s, r)[Len(Append(s, r))] = r
  OBVIOUS

LEMMA CloseLast ==
  ASSUME NEW R, NEW s \in Seq(R), s # <<>>, NEW x
  PROVE  LET t == [s EXCEPT ![Len(s)] = x]
         IN  t # <<>> /\ Len(t) = Len(s) /\ s[Len(s)] \in R /\ t[Len(t)] = x
<1> DEFINE t == [s EXCEPT ![Len(s)] = x]
<1>1. Len(s) \in 1..Len(s) /\ Len(s) \in Nat /\ DOMAIN s = 1..Len(s)
  OBVIOUS
<1>2. DOMAIN t = 1..Len(s) /\ t[Len(s)] = x
  BY <1>1
<1>3. t \in Seq(R \cup {x})
  BY <1>1
<1>4. Len(t) = Len(s)
  BY <1>1, <1>2, <1>3
<1> QED
  BY <1>1, <1>2, <1>4

Incident == [started : Nat, verdict : Verdicts, closed : BOOLEAN]

LEMMA OpenedRow ==
  ASSUME Inv, OpenRow
  PROVE  RowInv'
<1> DEFINE row == [started |-> previous.hb, verdict |-> verdict, closed |-> FALSE]
<1>1. rows' = Append(rows, row) /\ pc' = "closeRow" /\ UNCHANGED <<previous, verdict>>
  BY DEF OpenRow
<1>2. rows \in Seq(Incident) /\ row \in Incident
  BY DEF Inv, TypeOK, Docs, Incident
<1>3. rows' # <<>> /\ rows'[Len(rows')] = row
  <2> HIDE DEF row
  <2> QED
    BY <1>1, <1>2, AppendLast
<1> QED
  BY <1>1, <1>3 DEF RowInv

LEMMA ClosedRow ==
  ASSUME Inv, VerdictInv, RowInv, CloseRow
  PROVE  RowInv'
<1> DEFINE last == rows[Len(rows)]
           row == [last EXCEPT !.closed = TRUE]
<1>1. /\ rows' = [rows EXCEPT ![Len(rows)] = row] /\ pc = "closeRow" /\ pc' = "running"
      /\ UNCHANGED <<previous, verdict>>
  BY DEF CloseRow
<1>2. rows # <<>> /\ last.started = previous.hb /\ last.verdict = verdict
  BY <1>1 DEF RowInv, VerdictInv
<1>3. rows \in Seq(Incident)
  BY DEF Inv, TypeOK, Incident
<1>4. rows' # <<>> /\ last \in Incident /\ rows'[Len(rows')] = row
  <2> HIDE DEF row
  <2> QED
    BY <1>1, <1>2, <1>3, CloseLast
<1>5. row.started = last.started /\ row.verdict = last.verdict /\ row.closed = TRUE
  BY <1>4 DEF Incident
<1> QED
  BY <1>1, <1>2, <1>4, <1>5 DEF RowInv

\* The incident is recorded before the loops start.
LEMMA RowStep ==
  ASSUME MarkerIsCleared, Inv, VerdictInv, RowInv, [Next]_vars
  PROVE  RowInv'
<1> USE DEF Inv, TypeOK, Docs, Lives, StartSteps, MarkSteps, NoLife, BeforeClear, BeforeVerdict,
           host, disk, worker, counts, record, Die, Replace, Sync, VerdictInv, RowInv, Outages, Verdicts
<1>1. CASE Start
  BY <1>1 DEF Start
<1>2. CASE Prime
  BY <1>2 DEF Prime
<1>3. CASE ClearMarker
  BY <1>3 DEF ClearMarker
<1>4. CASE ClearReplace
  BY <1>4 DEF ClearReplace
<1>5. CASE ClearSync
  BY <1>5 DEF ClearSync
<1>6. CASE Classify
  BY <1>6 DEF Classify
<1>7. CASE Gather
  BY <1>7 DEF Gather
<1>8. CASE OpenRow
  BY <1>8, OpenedRow
<1>9. CASE CloseRow
  BY <1>9, ClosedRow
<1>10. CASE CancelTasks
  BY <1>10 DEF CancelTasks
<1>11. CASE MarkClean
  BY <1>11 DEF MarkClean
<1>12. CASE MarkReplace
  BY <1>12 DEF MarkReplace
<1>13. CASE MarkSync
  BY <1>13 DEF MarkSync
<1>14. CASE Exit
  BY <1>14 DEF Exit
<1>15. CASE ForensicsRaises
  BY <1>15 DEF ForensicsRaises
<1>16. CASE HeartbeatBegin
  BY <1>16 DEF HeartbeatBegin
<1>17. CASE HeartbeatDump
  BY <1>17 DEF HeartbeatDump
<1>18. CASE HeartbeatReplace
  BY <1>18 DEF HeartbeatReplace
<1>19. CASE HeartbeatSync
  BY <1>19 DEF HeartbeatSync
<1>20. CASE FlushFails
  BY <1>20 DEF FlushFails
<1>21. CASE RequestStop
  BY <1>21 DEF RequestStop
<1>22. CASE Kill
  BY <1>22 DEF Kill
<1>23. CASE HostReboot
  BY <1>23 DEF HostReboot
<1>24. CASE PowerLoss
  BY <1>24 DEF PowerLoss
<1>25. CASE UNCHANGED vars
  BY <1>25 DEF vars
<1> QED
  BY <1>1, <1>2, <1>3, <1>4, <1>5, <1>6, <1>7, <1>8, <1>9, <1>10, <1>11, <1>12, <1>13, <1>14, <1>15, <1>16, <1>17, <1>18, <1>19, <1>20, <1>21, <1>22, <1>23, <1>24, <1>25 DEF Next, LoopStep, WorkerStep

\* The verdict turns for an orderly journal only.
LEMMA ReadJournal ==
  ASSUME Inv, VerdictInv, JournalInv, Gather
  PROVE  JournalInv'
<1>1. UNCHANGED <<boot, bootEnds, previous>> /\ pc = "gather"
  BY DEF Gather, host
<1>2. CASE verdict = "host_power_loss"
  <2>1. /\ read' \in {previous.boot, boot - 1, 0}
        /\ verdict' = IF read' # 0 /\ bootEnds[read'] = "ordered"
                        THEN "host_reboot" ELSE verdict
    BY <1>2 DEF Gather, Journals
  <2>2. read' # 0 => read' \in {previous.boot, boot - 1}
    BY <2>1
  <2>3. CASE read' # 0 /\ bootEnds[read'] = "ordered"
    BY <1>1, <2>1, <2>2, <2>3 DEF JournalInv
  <2>4. CASE ~(read' # 0 /\ bootEnds[read'] = "ordered")
    BY <1>1, <1>2, <2>1, <2>2, <2>4 DEF JournalInv
  <2> QED
    BY <2>3, <2>4
<1>3. CASE verdict # "host_power_loss"
  BY <1>1, <1>3 DEF Gather, JournalInv
<1> QED
  BY <1>2, <1>3

\* What the verdict makes of the journal stays so.
LEMMA JournalStep ==
  ASSUME MarkerIsCleared, Inv, VerdictInv, JournalInv, [Next]_vars
  PROVE  JournalInv'
<1> USE DEF Inv, TypeOK, Docs, Lives, StartSteps, MarkSteps, NoLife, BeforeClear, BeforeVerdict,
           host, disk, worker, counts, record, Die, Replace, Sync, VerdictInv, JournalInv
<1>1. CASE Start
  BY <1>1 DEF Start
<1>2. CASE Prime
  BY <1>2 DEF Prime
<1>3. CASE ClearMarker
  BY <1>3 DEF ClearMarker
<1>4. CASE ClearReplace
  BY <1>4 DEF ClearReplace
<1>5. CASE ClearSync
  BY <1>5 DEF ClearSync
<1>6. CASE Classify
  <2>1. verdict' = Classification /\ UNCHANGED <<boot, bootEnds, previous, read>>
        /\ pc' = IF verdict' \in {"first_run", "clean_restart"} THEN "running" ELSE "gather"
    BY <1>6 DEF Classify
  <2> QED
    BY <2>1 DEF Classification
<1>7. CASE Gather
  BY <1>7, ReadJournal
<1>8. CASE OpenRow
  BY <1>8 DEF OpenRow
<1>9. CASE CloseRow
  BY <1>9 DEF CloseRow
<1>10. CASE CancelTasks
  BY <1>10 DEF CancelTasks
<1>11. CASE MarkClean
  BY <1>11 DEF MarkClean
<1>12. CASE MarkReplace
  BY <1>12 DEF MarkReplace
<1>13. CASE MarkSync
  BY <1>13 DEF MarkSync
<1>14. CASE Exit
  BY <1>14 DEF Exit
<1>15. CASE ForensicsRaises
  BY <1>15, Raised
<1>16. CASE HeartbeatBegin
  BY <1>16 DEF HeartbeatBegin
<1>17. CASE HeartbeatDump
  BY <1>17 DEF HeartbeatDump
<1>18. CASE HeartbeatReplace
  BY <1>18 DEF HeartbeatReplace
<1>19. CASE HeartbeatSync
  BY <1>19 DEF HeartbeatSync
<1>20. CASE FlushFails
  BY <1>20, FlushFailed
<1>21. CASE RequestStop
  BY <1>21 DEF RequestStop
<1>22. CASE Kill
  BY <1>22 DEF Kill
<1>23. CASE HostReboot
  BY <1>23 DEF HostReboot
<1>24. CASE PowerLoss
  BY <1>24 DEF PowerLoss
<1>25. CASE UNCHANGED vars
  BY <1>25 DEF vars
<1> QED
  BY <1>1, <1>2, <1>3, <1>4, <1>5, <1>6, <1>7, <1>8, <1>9, <1>10, <1>11, <1>12, <1>13, <1>14, <1>15, <1>16, <1>17, <1>18, <1>19, <1>20, <1>21, <1>22, <1>23, <1>24, <1>25 DEF Next, LoopStep, WorkerStep

\* A new heartbeat is of this boot.
LEMMA BootDump ==
  ASSUME Inv, BeatInv, BootInv, HeartbeatDump
  PROVE  BootInv'
<1>1. /\ TypeOK /\ beats \in Nat /\ boot \in Nat /\ boot # 0 /\ data.hb \in Nat
      /\ previous.hb \in Nat /\ tmp.hb \in Nat /\ file.hb \in Nat /\ durable.hb \in Nat
  BY DEF Inv, TypeOK, Docs
<1>2. ASSUME NEW n \in 1..(beats + 1) PROVE beatBoot'[n] \in 1..boot
  <2>1. CASE n = beats + 1
    BY <1>1, <2>1, NewBeat
  <2>2. CASE n # beats + 1
    <3>1. n \in 1..beats
      BY <1>1, <1>2, <2>2
    <3> QED
      BY <1>1, <3>1, NewBeat DEF BootInv
  <2> QED
    BY <2>1, <2>2
<1>3. \A doc \in {data', previous, tmp, hbTmp', file, durable} : doc.hb <= beats + 1
  BY <1>1, NewBeat DEF BootInv
<1> QED
  BY <1>1, <1>2, <1>3, NewBeat DEF BootInv

\* A boot more, counted by how the last one ended.
LEMMA BootRise ==
  ASSUME Inv, BootInv, boot' = boot + 1, NEW how \in {"ordered", "torn"},
         bootEnds' = Append(bootEnds, how), UNCHANGED <<beats, beatBoot>>,
         data' = EmptyDoc, previous' = EmptyDoc, tmp' = EmptyDoc, hbTmp' = EmptyDoc,
         file' \in {file, durable}, durable' \in {file, durable}
  PROVE  BootInv'
<1>1. /\ boot \in Nat \ {0} /\ bootEnds \in Seq({"ordered", "torn"})
      /\ beats \in Nat
  BY DEF Inv, TypeOK
<1>2. Len(bootEnds') = boot' - 1
  BY <1>1 DEF BootInv
<1>3. \A n \in 1..beats : beatBoot[n] \in 1..boot'
  BY <1>1 DEF BootInv
<1>4. EmptyDoc.hb <= beats /\ file'.hb <= beats /\ durable'.hb <= beats
  BY <1>1 DEF EmptyDoc, BootInv
<1> QED
  BY <1>2, <1>3, <1>4 DEF BootInv

\* Every step keeps the count of boots.
LEMMA BootStep ==
  ASSUME Inv, BeatInv, BootInv, [Next]_vars
  PROVE  BootInv'
<1> USE DEF Inv, TypeOK, Docs, Lives, StartSteps, MarkSteps, NoLife, BeforeClear, BeforeVerdict,
           host, disk, worker, counts, record, Die, Replace, Sync, BeatInv, BootInv, EmptyDoc
<1>1. CASE Start
  BY <1>1 DEF Start
<1>2. CASE Prime
  BY <1>2 DEF Prime
<1>3. CASE ClearMarker
  BY <1>3 DEF ClearMarker
<1>4. CASE ClearReplace
  BY <1>4 DEF ClearReplace
<1>5. CASE ClearSync
  BY <1>5 DEF ClearSync
<1>6. CASE Classify
  BY <1>6 DEF Classify
<1>7. CASE Gather
  BY <1>7 DEF Gather
<1>8. CASE OpenRow
  BY <1>8 DEF OpenRow
<1>9. CASE CloseRow
  BY <1>9 DEF CloseRow
<1>10. CASE CancelTasks
  BY <1>10 DEF CancelTasks
<1>11. CASE MarkClean
  BY <1>11 DEF MarkClean
<1>12. CASE MarkReplace
  BY <1>12 DEF MarkReplace
<1>13. CASE MarkSync
  BY <1>13 DEF MarkSync
<1>14. CASE Exit
  BY <1>14 DEF Exit
<1>15. CASE ForensicsRaises
  BY <1>15 DEF ForensicsRaises
<1>16. CASE HeartbeatBegin
  BY <1>16 DEF HeartbeatBegin
<1>17. CASE HeartbeatDump
  BY <1>17, BootDump
<1>18. CASE HeartbeatReplace
  BY <1>18 DEF HeartbeatReplace
<1>19. CASE HeartbeatSync
  BY <1>19 DEF HeartbeatSync
<1>20. CASE FlushFails
  <2>1. UNCHANGED <<boot, bootEnds, beats, beatBoot, data, previous, tmp, hbTmp, file, durable>>
    BY <1>20, FlushFailed
  <2> QED
    BY <2>1
<1>21. CASE RequestStop
  BY <1>21 DEF RequestStop
<1>22. CASE Kill
  BY <1>22 DEF Kill
<1>23. CASE HostReboot
  <2>1. /\ boot' = boot + 1 /\ bootEnds' = Append(bootEnds, "ordered")
        /\ UNCHANGED <<beats, beatBoot>>
        /\ data' = EmptyDoc /\ previous' = EmptyDoc /\ tmp' = EmptyDoc /\ hbTmp' = EmptyDoc
        /\ file' \in {file, durable} /\ durable' \in {file, durable}
    BY <1>23 DEF HostReboot
  <2>2. boot \in Nat \ {0} /\ bootEnds \in Seq({"ordered", "torn"}) /\ Len(bootEnds) = boot - 1
    OBVIOUS
  <2> QED
    BY <2>1, <2>2, BootRise
<1>24. CASE PowerLoss
  <2>1. /\ boot' = boot + 1 /\ bootEnds' = Append(bootEnds, "torn")
        /\ UNCHANGED <<beats, beatBoot>>
        /\ data' = EmptyDoc /\ previous' = EmptyDoc /\ tmp' = EmptyDoc /\ hbTmp' = EmptyDoc
        /\ file' \in {file, durable} /\ durable' \in {file, durable}
    BY <1>24 DEF PowerLoss
  <2>2. boot \in Nat \ {0} /\ bootEnds \in Seq({"ordered", "torn"}) /\ Len(bootEnds) = boot - 1
    OBVIOUS
  <2> QED
    BY <2>1, <2>2, BootRise
<1>25. CASE UNCHANGED vars
  BY <1>25 DEF vars
<1> QED
  BY <1>1, <1>2, <1>3, <1>4, <1>5, <1>6, <1>7, <1>8, <1>9, <1>10, <1>11, <1>12, <1>13, <1>14, <1>15, <1>16, <1>17, <1>18, <1>19, <1>20, <1>21, <1>22, <1>23, <1>24, <1>25 DEF Next, LoopStep, WorkerStep

\* A document whose boot is excused until the run's first heartbeat is on disk.
LEMMA ToldDump ==
  ASSUME Inv, BeatInv, RunInv, BootInv, ToldInv, HeartbeatDump
  PROVE  ToldInv'
<1>1. /\ TypeOK /\ beats \in Nat /\ boot \in Nat
      /\ data.hb \in Nat /\ tmp.hb \in Nat /\ file.hb \in Nat /\ durable.hb \in Nat
      /\ previous.hb \in Nat
  BY DEF Inv, TypeOK, Docs
<1>2. UNCHANGED <<boot, pc, early, file, durable, previous, tmp>> /\ Excused' = Excused
  BY <1>1, NewBeat DEF HeartbeatDump, Excused
<1>3. ASSUME NEW doc \in {file, durable, previous, tmp}, NEW E, Told(doc, E)
      PROVE  Told(doc, E)'
  <2>1. doc.hb \in Nat /\ doc.hb <= beats
    BY <1>1 DEF BootInv
  <2>2. doc.hb # 0 => beatBoot'[doc.hb] = beatBoot[doc.hb]
    BY <1>1, <2>1, NewBeat
  <2> QED
    BY <1>2, <1>3, <2>2 DEF Told
<1>4. pc \notin BeforeClear /\ data.boot = boot
  BY <1>1, NewBeat DEF Inv, RunInv, BeforeClear, StartSteps
<1>5. Told(data, Excused)' /\ hbTmp' = data'
  BY <1>1, <1>2, <1>4, NewBeat DEF Told
<1> QED
  BY <1>1, <1>2, <1>3, <1>5 DEF ToldInv

\* Once a heartbeat is on disk, what the run writes says its boot.
LEMMA ToldSync ==
  ASSUME Inv, BeatInv, RunInv, ToldInv, HeartbeatSync
  PROVE  ToldInv'
<1>1. /\ hb = "replaced" /\ hb' = "idle" /\ durable' = file
      /\ UNCHANGED <<boot, pc, data, previous, tmp, file, beatBoot, early>>
  BY DEF HeartbeatSync, host
<1>2. /\ life.begun \in Nat /\ life.begun # 0 /\ boot \in Nat
      /\ beatBoot[life.begun] = boot /\ data.hb = life.begun
      /\ file.boot = boot /\ (~file.clean => file.hb = life.begun)
      /\ pc \notin StartSteps /\ pc # "down"
  BY <1>1 DEF Inv, TypeOK, Lives, RunInv, BeatInv
<1>3. pc \notin BeforeClear /\ data.boot = boot
  BY <1>2 DEF BeforeClear, StartSteps, RunInv
<1>4. \A E : Told(file, E)' /\ Told(data, E)'
  BY <1>1, <1>2, <1>3 DEF Told
<1>5. \A E : Told(durable, E)'
  BY <1>1, <1>4
<1>6. Told(previous, early)'
  BY <1>1 DEF ToldInv, Told
<1>7. pc' # "clearReplace" /\ hb' # "dumped"
  BY <1>1, <1>2 DEF StartSteps
<1> QED
  BY <1>4, <1>5, <1>6, <1>7 DEF ToldInv

\* The marker is cleared: the boot is this one, the heartbeat is the last run's.
LEMMA ToldClear ==
  ASSUME Inv, BeatInv, BootInv, ToldInv, ClearMarker
  PROVE  ToldInv'
<1>1. /\ pc = "clearing" /\ pc' = "clearReplace" /\ tmp' = data'
      /\ data' = [data EXCEPT !.boot = boot, !.clean = FALSE]
      /\ UNCHANGED <<boot, beatBoot, early, life, hb, file, durable, previous>>
  BY DEF ClearMarker, host, worker, disk, record
<1>2. data \in Docs /\ data.hb \in Nat /\ beats \in Nat /\ boot \in Nat
  BY DEF Inv, TypeOK, Docs
<1>3. data'.hb = data.hb /\ data'.boot = boot
  BY <1>1, <1>2 DEF Docs
<1>4. life.done = 0 /\ hb = "idle"
  BY <1>1 DEF Inv, StartSteps, NoLife
<1>5. boot \in Excused' /\ early \subseteq Excused' /\ Excused = early
  BY <1>1, <1>4 DEF Excused, BeforeClear
<1>6. data.hb # 0 => beatBoot[data.hb] \in 1..boot
  BY <1>2 DEF BootInv
<1>7. Told(data, Excused)'
  BY <1>1, <1>2, <1>3, <1>5, <1>6 DEF Told
<1>8. Told(file, Excused)' /\ Told(durable, Excused)' /\ Told(previous, early)'
  BY <1>1, <1>5 DEF ToldInv, Told
<1> QED
  BY <1>1, <1>4, <1>7, <1>8 DEF ToldInv

\* What a run leaves is excused for good.
LEMMA ToldDie ==
  ASSUME Inv, ToldInv, NEW how, Die(how), boot' \in {boot, boot + 1},
         file' \in {file, durable}, durable' \in {file, durable}
  PROVE  ToldInv'
<1>1. boot \in Nat /\ file.boot \in Nat /\ durable.boot \in Nat
  BY DEF Inv, TypeOK, Docs
<1>2. /\ pc' = "down" /\ hb' = "idle" /\ previous' = EmptyDoc
      /\ early' = Excused /\ Excused' = Excused /\ UNCHANGED beatBoot
  BY DEF Die, Excused, BeforeClear
<1>3. ASSUME NEW doc \in {file, durable} PROVE Told(doc, Excused)'
  <2>1. Told(doc, Excused)
    BY DEF ToldInv
  <2> QED
    BY <1>1, <1>2, <2>1 DEF Told
<1>4. Told(previous, early)'
  BY <1>2 DEF Told, EmptyDoc
<1> QED
  BY <1>2, <1>3, <1>4 DEF ToldInv, BeforeClear

\* Every step keeps documents told.
LEMMA ToldStep ==
  ASSUME MarkerIsCleared, Inv, BeatInv, RunInv, BootInv, ToldInv, [Next]_vars
  PROVE  ToldInv'
<1> USE DEF BeforeClear, host, disk, worker, counts, record, Replace, Sync, ToldInv, Told, Excused
<1>1. CASE Start
  BY <1>1 DEF Start
<1>2. CASE Prime
  BY <1>2 DEF Prime
<1>3. CASE ClearMarker
  BY <1>3, ToldClear
<1>4. CASE ClearReplace
  BY <1>4 DEF ClearReplace
<1>5. CASE ClearSync
  BY <1>5 DEF ClearSync
<1>6. CASE Classify
  BY <1>6 DEF Classify
<1>7. CASE Gather
  BY <1>7 DEF Gather
<1>8. CASE OpenRow
  BY <1>8 DEF OpenRow
<1>9. CASE CloseRow
  BY <1>9 DEF CloseRow
<1>10. CASE CancelTasks
  BY <1>10 DEF CancelTasks
<1>11. CASE MarkClean
  <2>1. data'.clean = TRUE
    BY <1>11 DEF MarkClean, Inv, TypeOK, Docs
  <2>2. pc = "marking" /\ pc' = "markReplace" /\ life'.done = life.done
        /\ UNCHANGED <<boot, beatBoot, early, hb, hbTmp, file, durable, previous>>
    BY <1>11 DEF MarkClean, Inv, TypeOK, Lives
  <2> QED
    BY <2>1, <2>2
<1>12. CASE MarkReplace
  BY <1>12 DEF MarkReplace, RunInv
<1>13. CASE MarkSync
  BY <1>13 DEF MarkSync
<1>14. CASE Exit
  <2>1. \E how : Die(how)
    BY <1>14 DEF Exit
  <2>2. /\ boot' \in {boot, boot + 1} /\ file' \in {file, durable}
        /\ durable' \in {file, durable}
    BY <1>14 DEF Exit
  <2> QED
    BY <2>1, <2>2, ToldDie
<1>15. CASE ForensicsRaises
  BY <1>15, Raised DEF Inv
<1>16. CASE HeartbeatBegin
  BY <1>16 DEF HeartbeatBegin
<1>17. CASE HeartbeatDump
  BY <1>17, ToldDump
<1>18. CASE HeartbeatReplace
  BY <1>18 DEF HeartbeatReplace
<1>19. CASE HeartbeatSync
  BY <1>19, ToldSync
<1>20. CASE FlushFails
  <2>1. TypeOK /\ (pc' \in BeforeClear <=> pc \in BeforeClear)
    BY <1>20, FlushFailed DEF Inv
  <2> QED
    BY <1>20, <2>1, FlushFailed DEF Inv
<1>21. CASE RequestStop
  BY <1>21 DEF RequestStop
<1>22. CASE Kill
  <2>1. \E how : Die(how)
    BY <1>22 DEF Kill
  <2>2. /\ boot' \in {boot, boot + 1} /\ file' \in {file, durable}
        /\ durable' \in {file, durable}
    BY <1>22 DEF Kill
  <2> QED
    BY <2>1, <2>2, ToldDie
<1>23. CASE HostReboot
  <2>1. \E how : Die(how)
    BY <1>23 DEF HostReboot
  <2>2. /\ boot' \in {boot, boot + 1} /\ file' \in {file, durable}
        /\ durable' \in {file, durable}
    BY <1>23 DEF HostReboot
  <2> QED
    BY <2>1, <2>2, ToldDie
<1>24. CASE PowerLoss
  <2>1. \E how : Die(how)
    BY <1>24 DEF PowerLoss
  <2>2. /\ boot' \in {boot, boot + 1} /\ file' \in {file, durable}
        /\ durable' \in {file, durable}
    BY <1>24 DEF PowerLoss
  <2> QED
    BY <2>1, <2>2, ToldDie
<1>25. CASE UNCHANGED vars
  BY <1>25 DEF vars
<1> QED
  BY <1>1, <1>2, <1>3, <1>4, <1>5, <1>6, <1>7, <1>8, <1>9, <1>10, <1>11, <1>12, <1>13, <1>14, <1>15, <1>16, <1>17, <1>18, <1>19, <1>20, <1>21, <1>22, <1>23, <1>24, <1>25 DEF Next, LoopStep, WorkerStep

LEMMA EndInit == Init => FullInv
<1> SUFFICES ASSUME Init PROVE FullInv
  OBVIOUS
<1>1. Inv
  BY InvInit
<1>2. BeatInv /\ RunInv
  BY DEF Init, BeatInv, RunInv, BeforeClear, NoLife
<1>3. LegacyInv /\ VerdictInv /\ RowInv /\ JournalInv
  BY DEF Init, LegacyInv, LeftBehind, NoLife, VerdictInv, BeforeVerdict, BeforeClear, RowInv,
         Outages, JournalInv
<1>4. BootInv /\ ToldInv
  BY DEF Init, BootInv, ToldInv, Told, EmptyDoc, BeforeClear
<1> QED
  BY <1>1, <1>2, <1>3, <1>4 DEF EndInv, FullInv

LEMMA EndInvariance == ASSUME MarkerIsCleared PROVE Spec => []EndInv
<1>1. EndInv /\ [Next]_vars => EndInv'
  BY InvStep, BeatStep, RunStep, LegacyStep, VerdictStep, RowStep DEF EndInv
<1>2. Init => EndInv
  BY EndInit DEF FullInv
<1> QED
  BY <1>1, <1>2, PTL DEF Spec

\* What forensics finds on file of a run that landed.
LEMMA Found ==
  ASSUME EndInv, Landed, verdict # "none"
  PROVE  /\ Left(previous, ended)
         /\ (ended.exited /\ ended.alone /\ faults = 0) => Stopped(previous)
         /\ boot \in Nat
         /\ beatBoot[previous.hb] = previous.boot \/ previous.clean
         /\ previous.hb # 0 \/ previous.clean
         /\ verdict \in Verdicts
<1>1. pc # "down"
  BY DEF EndInv, VerdictInv, BeforeVerdict, BeforeClear
<1>2. LeftBehind(previous) /\ ended.done \in Nat /\ ended.done # 0
  BY <1>1 DEF EndInv, LegacyInv, Inv, TypeOK, Lives, Landed
<1> QED
  BY <1>2 DEF LeftBehind, Left, EndInv, Inv, TypeOK

\* What an outage's verdict says of the boot of the last heartbeat on file.
LEMMA FoundOut ==
  ASSUME FullInv, verdict \in Outages
  PROVE  /\ verdict = "addon_restart" => LastBoot = boot \/ boot \in early
         /\ verdict # "addon_restart" => LastBoot < boot
         /\ verdict = "host_reboot" => bootEnds[LastBoot] = "ordered" \/ OtherJournal
         /\ (verdict = "host_power_loss" /\ pc # "gather") =>
              bootEnds[LastBoot] = "torn" \/ read = 0 \/ OtherJournal
<1>1. /\ previous.hb # 0 /\ ~previous.clean /\ Told(previous, early)
      /\ verdict = "addon_restart" => previous.boot \in {0, boot}
      /\ verdict # "addon_restart" => previous.boot # boot
  BY DEF FullInv, EndInv, VerdictInv, ToldInv, Outages
<1>2. /\ boot \in Nat \ {0} /\ previous.boot \in Nat /\ previous.hb \in Nat /\ beats \in Nat
      /\ Len(bootEnds) = boot - 1 /\ bootEnds \in Seq({"ordered", "torn"})
  BY DEF FullInv, EndInv, Inv, TypeOK, Docs, BootInv
<1>3. LastBoot \in 1..boot
  BY <1>1, <1>2 DEF FullInv, BootInv, LastBoot
<1>4. /\ LastBoot <= previous.boot /\ previous.boot <= boot
      /\ previous.boot = LastBoot \/ previous.boot \in early
  BY <1>1 DEF Told, LastBoot
<1>5. verdict = "addon_restart" => LastBoot = boot \/ boot \in early
  BY <1>1, <1>2, <1>3, <1>4
<1>6. verdict # "addon_restart" => LastBoot < boot
  BY <1>1, <1>2, <1>3, <1>4
<1>7. ASSUME verdict # "addon_restart", read \in {previous.boot, boot - 1}
      PROVE  read = LastBoot \/ OtherJournal
  BY <1>1, <1>2, <1>3, <1>4, <1>7 DEF OtherJournal
<1>8. verdict # "addon_restart" => bootEnds[LastBoot] \in {"ordered", "torn"}
  <2>1. verdict # "addon_restart" => LastBoot \in 1..Len(bootEnds)
    BY <1>2, <1>3, <1>6
  <2> QED
    BY <1>2, <2>1
<1> QED
  BY <1>5, <1>6, <1>7, <1>8 DEF FullInv, JournalInv

-----------------------------------------------------------------------------
(* The theorems about verdicts                                               *)

\* If the shutdown marker of the run before is always cleared, each verdict of
\* forensics is true of how the run before ended, whatever journal is lost and
\* whichever run died before its first heartbeat, but for the exceptions that
\* the parts of VerdictIsTrue name.
THEOREM VerdictsAreTrue ==
  ASSUME MarkerIsCleared
  PROVE  Spec => []VerdictIsTrue
<1>1. FullInv /\ [Next]_vars => FullInv'
  BY InvStep, BeatStep, RunStep, LegacyStep, VerdictStep, RowStep, JournalStep, BootStep,
     ToldStep DEF EndInv, FullInv
<1>2. FullInv => VerdictIsTrue
  <2> SUFFICES ASSUME FullInv PROVE VerdictIsTrue
    OBVIOUS
  <2>0. EndInv /\ VerdictInv
    BY DEF FullInv, EndInv
  <2>1. CleanRestartIsTrue
    BY <2>0, Found DEF CleanRestartIsTrue, VerdictInv, Left
  <2>2. CleanStopIsRecognised
    <3> SUFFICES ASSUME Landed, ended.exited, ended.alone, faults = 0, verdict # "none"
                 PROVE  verdict = "clean_restart"
      BY DEF CleanStopIsRecognised
    <3>1. previous.clean /\ previous.hb # 0
      BY <2>0, Found DEF Stopped
    <3>2. verdict \notin Outages /\ verdict \notin {"unknown", "first_run", "none"}
      BY <2>0, <3>1 DEF VerdictInv
    <3> QED
      BY <2>0, <3>2, Found DEF Outages, Verdicts
  <2>3. AddonRestartIsTrue
    BY FoundOut DEF AddonRestartIsTrue, Outages
  <2>4. HostRebootIsTrue
    BY FoundOut DEF HostRebootIsTrue, Outages
  <2>5. HostPowerLossIsTrue
    BY FoundOut DEF HostPowerLossIsTrue, Outages
  <2> QED
    BY <2>1, <2>2, <2>3, <2>4, <2>5 DEF VerdictIsTrue
<1> QED
  BY <1>1, <1>2, EndInit, PTL DEF Spec

\* If the marker of the run before is always cleared, the moment of death that is
\* reported is the last heartbeat of the run that died, in whichever of the
\* steps of a heartbeat, a flush or a stop it died.
THEOREM OutagesStartAtDeath ==
  ASSUME MarkerIsCleared
  PROVE  Spec => []OutageStartsAtDeath
<1>1. EndInv => OutageStartsAtDeath
  BY Found DEF OutageStartsAtDeath, EndInv, VerdictInv, Outages, Left
<1> QED
  BY <1>1, EndInvariance, PTL

\* If the marker of the run before is always cleared, a run that died unmarked
\* has its incident on record once its successor runs, unless forensics failed.
THEOREM UncleanEndsAreRecorded ==
  ASSUME MarkerIsCleared
  PROVE  Spec => []UncleanEndIsRecorded
<1>1. EndInv => UncleanEndIsRecorded
  <2> SUFFICES ASSUME EndInv, Landed, ~ended.marked, pc = "running", verdict # "unknown"
               PROVE  UncleanEndIsRecorded
    BY DEF UncleanEndIsRecorded
  <2>1. verdict # "none" /\ VerdictInv /\ RowInv
    BY DEF EndInv, VerdictInv
  <2>2. ~previous.clean /\ previous.hb \in ended.done..ended.begun /\ previous.hb # 0
    BY <2>1, Found DEF Left
  <2>3. verdict \in Outages
    BY <2>1, <2>2, Found DEF VerdictInv, Outages, Verdicts
  <2> QED
    BY <2>1, <2>2, <2>3 DEF RowInv, UncleanEndIsRecorded
<1> QED
  BY <1>1, EndInvariance, PTL

==============================================================================
