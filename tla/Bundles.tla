------------------------------- MODULE Bundles -------------------------------
(***************************************************************************)
(* Incident bundles (bundle.py, build and prune) and the incident rows     *)
(* that name them.  A round is what detector.py's _open_incident and       *)
(* forensics.py's _record_incident do alike: insert the row, write an      *)
(* archive at its final path, prune the directory, and only then put the   *)
(* path into the row.  No step of it is undone when a later one fails.     *)
(*                                                                         *)
(* Archive n is the n-th that was begun: build names each file after its   *)
(* incident and the time, and the files' mtime follows the order of the    *)
(* rounds.  The archives in "flushed" and the rows in "durable" are what a *)
(* power cut cannot undo: neither the archive nor the commit is synced.    *)
(*                                                                         *)
(* A definition commented "Variant" is a mistake the definition after it   *)
(* could contain; no specification uses it.                                *)
(***************************************************************************)
EXTENDS Naturals, Sequences, FiniteSets

CONSTANTS
  Keep,         \* the bundles that prune keeps
  MaxArchives,  \* bound: archives begun
  MaxFaults     \* bound: failing calls, kills, power cuts

ASSUME BundlesAssumption ==
  Keep \in Nat \ {0} /\ MaxArchives \in Nat /\ MaxFaults \in Nat

None == 0
Archives == 1 .. MaxArchives

VARIABLES
  rows,     \* the bundle_path of each incident: None or an archive
  durable,  \* what a power cut leaves of the rows
  dir,      \* the archives in BUNDLE_DIR, complete or not
  whole,    \* the archives written to the end
  flushed,  \* the archives written back to the disk
  made,     \* archives begun so far
  pc,       \* "off", "idle", or the next step of a round
  path,     \* what build returned
  asked,    \* the path a download has read from its row, or None
  overdue,  \* history: archives that a prune should have removed and could not
  torn,     \* history: archives that a power cut damaged or removed
  faults    \* faults so far

table == <<rows, durable>>
disk == <<dir, whole, flushed, torn>>
vars == <<table, disk, made, pc, path, asked, overdue, faults>>

TypeOK ==
  /\ rows \in Seq({None} \cup Archives) /\ durable \in Seq({None} \cup Archives)
  /\ dir \subseteq Archives /\ whole \subseteq Archives
  /\ flushed \subseteq whole /\ torn \subseteq Archives
  /\ made \in 0 .. MaxArchives /\ faults \in 0 .. MaxFaults
  /\ pc \in {"off", "idle", "create", "write", "prune", "name"}
  /\ path \in {None} \cup Archives /\ asked \in {None} \cup Archives
  /\ overdue \in Nat

Init ==
  /\ rows = <<>> /\ durable = <<>> /\ made = 0
  /\ dir = {} /\ whole = {} /\ flushed = {} /\ torn = {}
  /\ pc = "idle" /\ path = None /\ asked = None
  /\ overdue = 0 /\ faults = 0

Fault == faults < MaxFaults /\ faults' = faults + 1

-----------------------------------------------------------------------------
(* A round *)

\* open_incident.
OpenRow ==
  /\ pc = "idle" /\ made < MaxArchives
  /\ rows' = Append(rows, None)
  /\ pc' = "create"
  /\ UNCHANGED <<durable, disk, made, path, asked, overdue, faults>>

\* build: tarfile.open creates the file.
Create ==
  /\ pc = "create"
  /\ made' = made + 1 /\ dir' = dir \cup {made + 1}
  /\ pc' = "write"
  /\ UNCHANGED <<table, whole, flushed, torn, path, asked, overdue, faults>>

\* makedirs, which is not guarded, raises, and the round is over; or tarfile.open
\* does: there is no file, and build returns None.
CreateFails ==
  /\ pc = "create" /\ Fault
  /\ \/ pc' = "idle" /\ UNCHANGED path
     \/ pc' = "prune" /\ path' = None
  /\ UNCHANGED <<table, disk, made, asked, overdue>>

Write ==
  /\ pc = "write"
  /\ whole' = whole \cup {made} /\ path' = made
  /\ pc' = "prune"
  /\ UNCHANGED <<table, dir, flushed, torn, made, asked, overdue, faults>>

\* Variant: build returns the path although writing failed.
WriteFailsUnnoticed ==
  /\ pc = "write" /\ Fault
  /\ path' = made
  /\ pc' = "prune"
  /\ UNCHANGED <<table, disk, made, asked, overdue>>

\* Writing raises OSError: build returns None, and what was written stays.
WriteFails ==
  /\ pc = "write" /\ Fault
  /\ path' = None
  /\ pc' = "prune"
  /\ UNCHANGED <<table, disk, made, asked, overdue>>

\* Variants: the oldest are kept; one more is kept.
StaleNewest == {a \in dir : Cardinality({b \in dir : b < a}) >= Keep}
StaleLate == {a \in dir : Cardinality({b \in dir : b > a}) > Keep}

\* The entries that prune removes: the newest Keep, by mtime, stay.
Stale == {a \in dir : Cardinality({b \in dir : b > a}) >= Keep}

\* Some may fail to be removed; prune goes on, or cannot list the directory.
Prune ==
  /\ pc = "prune"
  /\ \E stuck \in SUBSET Stale :
       /\ \/ stuck = {} /\ UNCHANGED faults
          \/ stuck # {} /\ Fault
       /\ dir' = dir \ (Stale \ stuck)
       /\ overdue' = Cardinality(stuck)
  /\ pc' = "name"
  /\ UNCHANGED <<table, whole, flushed, torn, made, path, asked>>

\* getmtime, which is not guarded, raises: nothing is removed, and the round is over.
PruneFails ==
  /\ pc = "prune" /\ Stale # {} /\ Fault
  /\ overdue' = Cardinality(Stale)
  /\ pc' = "idle"
  /\ UNCHANGED <<table, disk, made, path, asked>>

\* set_incident_bundle, or the bundle_path of close_incident, if there is one.
Name ==
  /\ pc = "name"
  /\ rows' = IF path = None THEN rows ELSE [rows EXCEPT ![Len(rows)] = path]
  /\ pc' = "idle"
  /\ UNCHANGED <<durable, disk, made, path, asked, overdue, faults>>

\* The call raises: the archive stays and no row names it.
NameFails ==
  /\ pc = "name" /\ Fault
  /\ pc' = "idle"
  /\ UNCHANGED <<table, disk, made, path, asked, overdue>>

-----------------------------------------------------------------------------
(* The web interface *)

\* handle_bundle reads the row in a thread.
Ask ==
  /\ pc # "off" /\ asked = None
  /\ asked' \in {rows[i] : i \in 1 .. Len(rows)} \ {None}
  /\ UNCHANGED <<table, disk, made, pc, path, overdue, faults>>

\* It sends the file, or answers "bundle file is gone".
Answer ==
  /\ asked # None
  /\ asked' = None
  /\ UNCHANGED <<table, disk, made, pc, path, overdue, faults>>

-----------------------------------------------------------------------------
(* The process, the disk and the power *)

\* A round that is cut short before its prune leaves one entry too many.
Cut == /\ pc # "off" /\ Fault
       /\ pc' = "off" /\ path' = None /\ asked' = None
       /\ overdue' = overdue + IF pc \in {"write", "prune"} THEN 1 ELSE 0

Kill == Cut /\ UNCHANGED <<table, disk, made>>

PowerLoss ==
  /\ Cut
  /\ rows' = durable
  /\ \E gone \in SUBSET (dir \ flushed) : \E hurt \in SUBSET ((dir \ gone) \ flushed) :
       /\ dir' = dir \ gone
       /\ whole' = whole \ (gone \cup hurt)
       /\ torn' = torn \cup gone \cup hurt
  /\ UNCHANGED <<durable, flushed, made>>

Start ==
  /\ pc = "off"
  /\ pc' = "idle"
  /\ UNCHANGED <<table, disk, made, path, asked, overdue, faults>>

\* SQLite checkpoints its log; the kernel writes the files back.
Checkpoint ==
  /\ durable # rows
  /\ durable' = rows
  /\ UNCHANGED <<rows, disk, made, pc, path, asked, overdue, faults>>

WriteBack ==
  /\ flushed # whole
  /\ flushed' = whole
  /\ UNCHANGED <<table, dir, whole, torn, made, pc, path, asked, overdue, faults>>

Next ==
  \/ OpenRow \/ Create \/ CreateFails \/ Write \/ WriteFails
  \/ Prune \/ PruneFails \/ Name \/ NameFails
  \/ Ask \/ Answer
  \/ Kill \/ PowerLoss \/ Start \/ Checkpoint \/ WriteBack

Spec == Init /\ [][Next]_vars

-----------------------------------------------------------------------------
(* Properties *)

\* The archive is there and complete.
Intact(a) == a \in dir /\ a \in whole

\* A path in the incident table, also one that a power cut has taken back to
\* an earlier state, names a complete archive, unless Keep archives have been
\* begun after it (prune) or the power failed before it reached the disk: "the
\* bundle is built the moment the incident opens" (detector.py), and nothing
\* that fails on the way leaves a row with half a bundle.  The first exception is
\* the code's, not the documentation's: "Incidents and their bundles are never
\* purged" (DOCS.md) does not hold of the bundles; the rows outlive them.
EvidenceKept ==
  /\ TypeOK
  /\ \A view \in {rows, durable} : \A i \in 1 .. Len(view) :
       LET a == view[i]
       IN  a # None => Intact(a) \/ a \in torn \/ made - a >= Keep

\* "Keep only the newest bundles so /data can't fill up" (bundle.py), against
\* DOCS.md, which says that bundles are never purged: there are at most Keep
\* archives and the one being made, except for what rounds that were cut short,
\* removals that failed and prunes that raised have left since the last prune.  A
\* later prune makes up for it, also for archives that no row names.
DirectoryBounded ==
  Cardinality(dir) <= Keep + overdue + IF pc \in {"write", "prune"} THEN 1 ELSE 0

\* Two incidents never share an archive, and a download never sends half of
\* one, although prune and the writer work while it is under way.
DownloadsAreWhole ==
  /\ \A i, j \in 1 .. Len(rows) : rows[i] = rows[j] /\ i # j => rows[i] = None
  /\ asked \in dir => asked \in whole \cup torn

=============================================================================
