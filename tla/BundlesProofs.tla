---------------------------- MODULE BundlesProofs ----------------------------
(***************************************************************************)
(* For any number of archives, faults and bundles to keep: a row names a   *)
(* whole archive until prune may take it or the power has failed, the      *)
(* directory stays bounded, and no download sends half an archive.         *)
(*                                                                         *)
(* A path is followed from build to the row and on to the download: what   *)
(* Kept says of it holds from then on, so that it holds of all of them.    *)
(***************************************************************************)
EXTENDS Bundles, FiniteSetTheorems, WellFoundedInduction, TLAPS

\* What holds of an archive that a path leads to.
Kept(a) ==
  a # None =>
    /\ a <= made
    /\ a \in whole \cup torn
    /\ a \in dir \/ a \in torn \/ made - a >= Keep

\* No two rows name the same archive.
Apart(view) ==
  \A i, j \in 1 .. Len(view) : view[i] = view[j] /\ i # j => view[i] = None

\* An archive is begun in a round of its own, and no row names it before the end
\* of its round.
RoundInv ==
  /\ pc = "create" => made < MaxArchives
  /\ pc = "write" => made \in dir /\ made # None
  /\ pc \in {"prune", "name"} => path \in {None, made}
  /\ (pc = "write" \/ (pc \in {"prune", "name"} /\ path # None)) =>
       \A i \in 1 .. Len(rows) : rows[i] # made
  /\ dir \cup whole \subseteq 1 .. made

PathInv ==
  /\ \A i \in 1 .. Len(rows) : Kept(rows[i])
  /\ \A i \in 1 .. Len(durable) : Kept(durable[i])
  /\ Kept(path) /\ Kept(asked)
  /\ Apart(rows) /\ Apart(durable)

Inv == TypeOK /\ RoundInv /\ PathInv /\ DirectoryBounded

-----------------------------------------------------------------------------
(* The directory *)

\* What the types say of the numbers and sets.
LEMMA Fields ==
  ASSUME TypeOK
  PROVE  /\ Keep \in Nat \ {0} /\ MaxArchives \in Nat /\ made \in Nat /\ made <= MaxArchives
         /\ overdue \in Nat
         /\ Len(rows) \in Nat /\ Len(durable) \in Nat
         /\ \A i \in 1 .. Len(rows) : rows[i] \in {None} \cup Archives
         /\ \A i \in 1 .. Len(durable) : durable[i] \in {None} \cup Archives
         /\ \A a \in Archives : a \in Nat \ {0}
         /\ None = 0 /\ None \notin Archives
         /\ dir \subseteq Nat /\ IsFiniteSet(dir) /\ Cardinality(dir) \in Nat
<1>1. IsFiniteSet(Archives)
  BY BundlesAssumption, FS_Interval DEF Archives
<1>2. IsFiniteSet(dir) /\ Cardinality(dir) \in Nat
  BY <1>1, FS_Subset, FS_CardinalityType DEF TypeOK
<1> QED
  BY <1>2, BundlesAssumption DEF TypeOK, Archives, None

Sizes == Cardinality(dir) \in Nat /\ overdue \in Nat

LEMMA SizesAreNumbers == TypeOK => Sizes
  BY Fields DEF Sizes

\* Two facts of arithmetic.
LEMMA Later ==
  ASSUME NEW m \in Nat, NEW n \in Nat, NEW a \in Nat, NEW k \in Nat, m <= n, m - a >= k
  PROVE  n - a >= k
  OBVIOUS

LEMMA Room ==
  ASSUME NEW k \in Nat, NEW m \in Nat, NEW n \in Nat, NEW a \in Nat, NEW b \in Nat,
         NEW c \in Nat, NEW d \in Nat, n <= m, m <= k + a + b, c + d >= a + b
  PROVE  n <= k + c + d
  OBVIOUS

\* A set of numbers has a least one.
LEMMA Least ==
  ASSUME NEW S \in SUBSET Nat, S # {}
  PROVE  \E x \in S : \A y \in S : x <= y
<1>1. IsWellFoundedOn(OpToRel(<, Nat), Nat)
  BY NatLessThanWellFounded
<1>2. PICK x \in S : \A y \in S : ~(<<y, x>> \in OpToRel(<, Nat))
  BY <1>1, WFMin
<1>3. \A y \in S : ~(y < x)
  BY <1>2 DEF OpToRel
<1> QED
  BY <1>3

\* The elements of d with fewer than Keep elements above them.
Newest(d) == {a \in d : ~(Cardinality({b \in d : b > a}) >= Keep)}

\* Of a finite set of numbers they are at most Keep.
LEMMA FewNewest ==
  ASSUME NEW d \in SUBSET Nat, IsFiniteSet(d)
  PROVE  Cardinality(Newest(d)) <= Keep
<1> DEFINE new == Newest(d)
<1>1. new \subseteq d /\ IsFiniteSet(new)
  BY FS_Subset DEF Newest
<1>2. CASE new = {}
  <2>1. Cardinality({}) = 0
    BY FS_EmptySet
  <2> QED
    BY <1>2, <2>1, BundlesAssumption
<1>3. CASE new # {}
  <2>1. PICK x \in new : \A y \in new : x <= y
    BY <1>1, <1>3, Least
  <2> DEFINE above == {b \in d : b > x}
  <2>2. IsFiniteSet(above) /\ Cardinality(above) \in Nat
    BY FS_Subset, FS_CardinalityType
  <2>3. Cardinality(above) < Keep
    BY <2>1, <2>2, BundlesAssumption DEF Newest
  <2>4. new \ {x} \subseteq above
    <3> SUFFICES ASSUME NEW y \in new, y # x PROVE y \in d /\ y > x
      OBVIOUS
    <3>1. x \in Nat /\ y \in Nat /\ x <= y
      BY <1>1, <2>1
    <3> QED
      BY <1>1, <3>1
  <2>5. Cardinality(new \ {x}) <= Cardinality(above)
    BY <2>2, <2>4, FS_Subset
  <2>6. /\ Cardinality(new \ {x}) = Cardinality(new) - 1
        /\ Cardinality(new) \in Nat
    BY <1>1, <2>1, FS_RemoveElement, FS_CardinalityType
  <2> QED
    BY <2>2, <2>3, <2>5, <2>6, BundlesAssumption
<1> QED
  BY <1>2, <1>3

\* An archive is stale only if Keep archives have been begun after it.
LEMMA StaleIsOld ==
  ASSUME TypeOK, RoundInv, NEW a \in Stale
  PROVE  made - a >= Keep
<1>1. /\ a \in dir /\ made \in Nat /\ a \in Nat /\ a <= made /\ Keep \in Nat
      /\ Cardinality({b \in dir : b > a}) >= Keep
  BY Fields DEF Stale, RoundInv
<1> DEFINE later == {b \in dir : b > a}
<1>2. later \subseteq (a + 1) .. made
  BY <1>1, Fields DEF RoundInv
<1>3. /\ IsFiniteSet((a + 1) .. made)
      /\ Cardinality((a + 1) .. made) = IF a + 1 > made THEN 0 ELSE made - (a + 1) + 1
  BY <1>1, FS_Interval
<1>4. Cardinality(later) <= Cardinality((a + 1) .. made) /\ Cardinality(later) \in Nat
  BY <1>2, <1>3, FS_Subset, FS_CardinalityType
<1> QED
  BY <1>1, <1>3, <1>4

\* What prune leaves: the newest Keep, and what is stuck.
LEMMA Pruned ==
  ASSUME TypeOK, NEW stuck \in SUBSET Stale, NEW left, left = dir \ (Stale \ stuck)
  PROVE  /\ IsFiniteSet(stuck) /\ Cardinality(stuck) \in Nat
         /\ Cardinality(left) \in Nat /\ Cardinality(left) <= Keep + Cardinality(stuck)
<1> DEFINE new == Newest(dir)
<1>1. Stale \subseteq dir /\ new \subseteq dir /\ left = new \cup stuck
  BY DEF Stale, Newest
<1>2. /\ IsFiniteSet(stuck) /\ Cardinality(stuck) \in Nat
      /\ IsFiniteSet(new) /\ Cardinality(new) \in Nat
  BY <1>1, Fields, FS_Subset, FS_CardinalityType
<1>3. Cardinality(new) <= Keep
  BY Fields, FewNewest
<1> HIDE DEF new
<1>4. IsFiniteSet(new \cup stuck) /\ IsFiniteSet(new \cap stuck)
  BY <1>2, FS_Union, FS_Intersection
<1>5. Cardinality(new \cup stuck) \in Nat /\ Cardinality(new \cap stuck) \in Nat
  BY <1>4, FS_CardinalityType
<1>6. Cardinality(new \cup stuck) =
        Cardinality(new) + Cardinality(stuck) - Cardinality(new \cap stuck)
  BY <1>2, FS_Union
<1>7. Cardinality(left) = Cardinality(new \cup stuck)
  BY <1>1
<1>8. Cardinality(new \cup stuck) <= Keep + Cardinality(stuck)
  BY <1>2, <1>3, <1>5, <1>6, BundlesAssumption
<1> QED
  BY <1>2, <1>5, <1>7, <1>8

-----------------------------------------------------------------------------
(* The steps *)

\* What is kept stays kept: the numbers grow, what is not whole any more is torn,
\* and what has left the directory is torn or old.
LEMMA KeptStays ==
  ASSUME TypeOK, NEW a \in {None} \cup Archives, Kept(a),
         made' \in Nat, made <= made', torn \subseteq torn', whole \ whole' \subseteq torn',
         \A b \in dir \ dir' : b \in torn' \/ made' - b >= Keep
  PROVE  Kept(a)'
<1>1. a \in Nat /\ made \in Nat /\ Keep \in Nat
  BY Fields
<1>2. CASE a # None
  <2>1. a \in whole \cup torn /\ a <= made /\ (a \in dir \/ a \in torn \/ made - a >= Keep)
    BY <1>2 DEF Kept
  <2>2. a <= made' /\ (made - a >= Keep => made' - a >= Keep)
    <3>1. a <= made
      BY <2>1
    <3>2. a <= made'
      BY <1>1, <3>1
    <3>3. ASSUME made - a >= Keep PROVE made' - a >= Keep
      BY <1>1, <3>3, Later
    <3> QED
      BY <3>2, <3>3
  <2>3. a \in whole' \cup torn'
    BY <2>1
  <2>4. a \in dir' \/ a \in torn' \/ made' - a >= Keep
    BY <2>1, <2>2
  <2> QED
    BY <2>2, <2>3, <2>4 DEF Kept
<1> QED
  BY <1>2 DEF Kept, None

\* A step in which no path is written.
LEMMA PathsStay ==
  ASSUME TypeOK, PathInv,
         rows' \in {rows, durable, Append(rows, None)}, durable' \in {durable, rows},
         path' \in {path, None}, asked' \in {asked, None} \cup {rows[i] : i \in 1 .. Len(rows)},
         made' \in Nat, made <= made', torn \subseteq torn', whole \ whole' \subseteq torn',
         \A b \in dir \ dir' : b \in torn' \/ made' - b >= Keep
  PROVE  PathInv'
<1>1. \A a \in {None} \cup Archives : Kept(a) => Kept(a)'
  BY KeptStays
<1>2. /\ \A i \in 1 .. Len(rows) : rows[i] \in {None} \cup Archives /\ Kept(rows[i])
      /\ \A i \in 1 .. Len(durable) : durable[i] \in {None} \cup Archives /\ Kept(durable[i])
      /\ Len(rows) \in Nat /\ Kept(None)
  BY Fields DEF PathInv, Kept
<1>3. \A i \in 1 .. Len(rows') : rows'[i] \in {None} \cup Archives /\ Kept(rows'[i])
  <2>1. CASE rows' = Append(rows, None)
    <3>1. \A i \in 1 .. Len(rows') : (i \in 1 .. Len(rows) /\ rows'[i] = rows[i]) \/ rows'[i] = None
      BY <1>2, <2>1 DEF TypeOK
    <3> QED
      BY <1>2, <3>1
  <2> QED
    BY <1>2, <2>1
<1>4. \A i \in 1 .. Len(durable') : durable'[i] \in {None} \cup Archives /\ Kept(durable'[i])
  BY <1>2
<1>5. /\ path' \in {None} \cup Archives /\ Kept(path')
      /\ asked' \in {None} \cup Archives /\ Kept(asked')
  BY <1>2 DEF TypeOK, PathInv
<1>6. Apart(rows') /\ Apart(durable')
  <2>1. CASE rows' = Append(rows, None)
    <3>1. \A i \in 1 .. Len(rows') : (i \in 1 .. Len(rows) /\ rows'[i] = rows[i]) \/ rows'[i] = None
      BY <1>2, <2>1 DEF TypeOK
    <3> QED
      BY <3>1 DEF PathInv, Apart
  <2> QED
    BY <2>1 DEF PathInv
<1> QED
  BY <1>1, <1>3, <1>4, <1>5, <1>6 DEF PathInv, Apart

\* The state keeps its types.
LEMMA TypeStep ==
  ASSUME TypeOK, RoundInv, [Next]_vars
  PROVE  TypeOK'
<1> USE Fields, BundlesAssumption DEF table, disk
<1>1. CASE OpenRow
  BY <1>1 DEF OpenRow, TypeOK
<1>2. CASE Create
  <2>1. made' \in 0 .. MaxArchives /\ made + 1 \in Archives
    BY <1>2 DEF Create, RoundInv, Archives
  <2> QED
    BY <1>2, <2>1 DEF Create, TypeOK
<1>3. CASE CreateFails
  BY <1>3 DEF CreateFails, Fault, TypeOK
<1>4. CASE Write
  <2>1. made \in Archives
    BY <1>4 DEF Write, RoundInv, TypeOK
  <2> QED
    BY <1>4, <2>1 DEF Write, TypeOK
<1>5. CASE WriteFails
  BY <1>5 DEF WriteFails, Fault, TypeOK
<1>6. CASE Prune
  <2>1. PICK stuck \in SUBSET Stale :
          /\ \/ stuck = {} /\ UNCHANGED faults
             \/ stuck # {} /\ Fault
          /\ dir' = dir \ (Stale \ stuck)
          /\ overdue' = Cardinality(stuck)
    BY <1>6 DEF Prune
  <2>2. overdue' \in Nat /\ dir' \subseteq dir
    BY <2>1, Pruned
  <2> QED
    BY <1>6, <2>1, <2>2 DEF Prune, Fault, TypeOK
<1>7. CASE Name
  <2>1. rows' \in Seq({None} \cup Archives)
    BY <1>7 DEF Name, TypeOK
  <2> QED
    BY <1>7, <2>1 DEF Name, TypeOK
<1>8. CASE NameFails
  BY <1>8 DEF NameFails, Fault, TypeOK
<1>9. CASE Ask
  <2>1. asked' \in {None} \cup Archives
    BY <1>9 DEF Ask
  <2> QED
    BY <1>9, <2>1 DEF Ask, TypeOK
<1>10. CASE Answer
  BY <1>10 DEF Answer, TypeOK
<1>11. CASE Kill
  BY <1>11 DEF Kill, Cut, Fault, TypeOK
<1>12. CASE PowerLoss
  BY <1>12 DEF PowerLoss, Cut, Fault, TypeOK
<1>13. CASE Start
  BY <1>13 DEF Start, TypeOK
<1>14. CASE Checkpoint \/ WriteBack
  BY <1>14 DEF Checkpoint, WriteBack, TypeOK
<1>15. CASE UNCHANGED vars
  BY <1>15 DEF vars, TypeOK
<1>16. CASE PruneFails
  <2>1. Cardinality(Stale) \in Nat
    BY Pruned
  <2> QED
    BY <1>16, <2>1 DEF PruneFails, Fault, TypeOK
<1> QED
  BY <1>1, <1>2, <1>3, <1>4, <1>5, <1>6, <1>7, <1>8, <1>9, <1>10, <1>11, <1>12, <1>13,
     <1>14, <1>15, <1>16 DEF Next

\* Each round begins a new archive.
LEMMA RoundStep ==
  ASSUME TypeOK, RoundInv, PathInv, [Next]_vars
  PROVE  RoundInv'
<1> USE Fields DEF RoundInv, table, disk
<1>1. CASE OpenRow \/ CreateFails \/ Write \/ WriteFails \/ NameFails
  BY <1>1 DEF OpenRow, CreateFails, Write, WriteFails, NameFails, TypeOK, None
<1>2. CASE Create
  <2>1. \A i \in 1 .. Len(rows) : rows[i] # made + 1
    BY DEF PathInv, Kept
  <2> QED
    BY <1>2, <2>1 DEF Create
<1>3. CASE Prune \/ PruneFails
  BY <1>3 DEF Prune, PruneFails
<1>4. CASE Name
  BY <1>4 DEF Name
<1>5. CASE Ask \/ Answer \/ Start \/ WriteBack \/ Checkpoint
  BY <1>5 DEF Ask, Answer, Start, WriteBack, Checkpoint, TypeOK
<1>6. CASE Kill \/ PowerLoss
  BY <1>6 DEF Kill, PowerLoss, Cut
<1>7. CASE UNCHANGED vars
  BY <1>7 DEF vars
<1> QED
  BY <1>1, <1>2, <1>3, <1>4, <1>5, <1>6, <1>7 DEF Next

\* Only Write and Name give a path to anyone.
LEMMA PathStep ==
  ASSUME TypeOK, RoundInv, PathInv, [Next]_vars
  PROVE  PathInv'
<1> USE Fields DEF table, disk
<1>1. CASE \/ OpenRow \/ Create \/ CreateFails \/ WriteFails \/ PruneFails \/ NameFails
           \/ Ask \/ Answer \/ Kill \/ Start \/ Checkpoint \/ WriteBack
  BY <1>1, PathsStay
     DEF OpenRow, Create, CreateFails, WriteFails, PruneFails, NameFails, Ask, Answer, Kill,
         Cut, Start, Checkpoint, WriteBack, TypeOK
<1>2. CASE PowerLoss
  BY <1>2, PathsStay DEF PowerLoss, Cut
<1>3. CASE Prune
  <2>1. \A b \in dir \ dir' : b \in Stale
    BY <1>3 DEF Prune
  <2> QED
    BY <1>3, <2>1, StaleIsOld, PathsStay DEF Prune
<1>4. CASE Write
  <2>1. /\ UNCHANGED <<table, dir, torn, made, asked>> /\ whole' = whole \cup {made}
        /\ path' = made /\ made \in dir
    BY <1>4 DEF Write, RoundInv
  <2>2. \A a \in {None} \cup Archives : Kept(a) => Kept(a)'
    BY <2>1, KeptStays
  <2>3. made <= made
    OBVIOUS
  <2> QED
    BY <2>1, <2>2, <2>3 DEF PathInv, Apart, Kept, TypeOK
<1>5. CASE Name
  <2>1. UNCHANGED <<durable, disk, made, path, asked>>
    BY <1>5 DEF Name
  <2>2. \A a \in {None} \cup Archives : Kept(a) => Kept(a)'
    BY <2>1, KeptStays
  <2>3. CASE path = None \/ Len(rows) = 0
    <3>1. rows' = rows
      BY <1>5, <2>3 DEF Name, TypeOK
    <3> QED
      BY <2>1, <2>2, <3>1 DEF PathInv, Apart, TypeOK
  <2>4. CASE path # None /\ Len(rows) # 0
    <3>1. /\ rows' = [rows EXCEPT ![Len(rows)] = path]
          /\ path = made /\ path \in Archives
          /\ \A i \in 1 .. Len(rows) : rows[i] # path
      BY <1>5, <2>4 DEF Name, RoundInv, TypeOK
    <3>2. /\ Len(rows') = Len(rows)
          /\ \A i \in 1 .. Len(rows) :
               rows'[i] = IF i = Len(rows) THEN path ELSE rows[i]
      BY <3>1 DEF TypeOK
    <3>3. \A i \in 1 .. Len(rows) : Kept(rows'[i])
      BY <3>2 DEF PathInv
    <3>4. Apart(rows')
      <4> SUFFICES ASSUME NEW i \in 1 .. Len(rows), NEW j \in 1 .. Len(rows),
                          rows'[i] = rows'[j], i # j
                   PROVE  rows'[i] = None
        BY <3>2 DEF Apart
      <4>1. i # Len(rows) /\ j # Len(rows)
        BY <3>1, <3>2
      <4> QED
        BY <3>2, <4>1 DEF PathInv, Apart
    <3>5. \A i \in 1 .. Len(rows) : rows'[i] \in {None} \cup Archives
      BY <3>1, <3>2
    <3> QED
      BY <2>1, <2>2, <3>2, <3>3, <3>4, <3>5 DEF PathInv, Apart, TypeOK
  <2> QED
    BY <2>3, <2>4
<1>6. CASE UNCHANGED vars
  BY <1>6 DEF vars, PathInv, Apart, Kept
<1> QED
  BY <1>1, <1>2, <1>3, <1>4, <1>5, <1>6 DEF Next

\* The archive being made.
Extra == IF pc \in {"write", "prune"} THEN 1 ELSE 0

\* Every entry over the bound is accounted for.
LEMMA BoundStep ==
  ASSUME TypeOK, TypeOK', RoundInv, DirectoryBounded, [Next]_vars
  PROVE  DirectoryBounded'
<1>0. /\ Cardinality(dir) \in Nat /\ IsFiniteSet(dir) /\ overdue \in Nat /\ Keep \in Nat
      /\ Cardinality(dir') \in Nat /\ overdue' \in Nat /\ Extra \in {0, 1} /\ Extra' \in {0, 1}
      /\ Cardinality(dir) <= Keep + overdue + Extra
  <2>1. Sizes'
    BY SizesAreNumbers, PTL
  <2> QED
    BY <2>1, Fields DEF DirectoryBounded, Sizes, Extra
<1>1. ASSUME dir' \subseteq dir, overdue' + Extra' >= overdue + Extra
      PROVE  DirectoryBounded'
  <2>1. Cardinality(dir') <= Cardinality(dir)
    BY <1>0, <1>1, FS_Subset
  <2>2. Cardinality(dir') <= Keep + overdue' + Extra'
    BY <1>0, <1>1, <2>1, Room
  <2> QED
    BY <2>2 DEF DirectoryBounded, Extra
<1>2. CASE \/ OpenRow \/ CreateFails \/ Write \/ WriteFails \/ Name \/ NameFails
           \/ Ask \/ Answer \/ Start \/ Checkpoint \/ WriteBack
  BY <1>0, <1>1, <1>2
     DEF OpenRow, CreateFails, Write, WriteFails, Name, NameFails, Ask, Answer, Start,
         Checkpoint, WriteBack, disk, Extra
<1>3. CASE Create
  <2>1. /\ dir' = dir \cup {made + 1} /\ overdue' = overdue /\ Extra = 0 /\ Extra' = 1
    BY <1>3 DEF Create, Extra
  <2>2. Cardinality(dir') <= Cardinality(dir) + 1
    BY <1>0, <2>1, FS_AddElement
  <2>3. Cardinality(dir') <= Keep + overdue' + Extra'
    BY <1>0, <2>1, <2>2
  <2> QED
    BY <2>3 DEF DirectoryBounded, Extra
<1>4. CASE Prune
  <2>1. PICK stuck \in SUBSET Stale :
          dir' = dir \ (Stale \ stuck) /\ overdue' = Cardinality(stuck)
    BY <1>4 DEF Prune
  <2>2. Cardinality(dir') <= Keep + overdue'
    BY <2>1, Pruned
  <2>3. Cardinality(dir') <= Keep + overdue' + Extra'
    BY <1>0, <2>2
  <2> QED
    BY <2>3 DEF DirectoryBounded, Extra
<1>5. CASE Kill \/ PowerLoss
  <2>1. dir' \subseteq dir /\ overdue' = overdue + Extra /\ Extra' = 0
    BY <1>5 DEF Kill, PowerLoss, Cut, disk, Extra
  <2> QED
    BY <1>0, <1>1, <2>1
<1>6. CASE UNCHANGED vars
  BY <1>0, <1>1, <1>6 DEF vars, disk, Extra
<1>7. CASE PruneFails
  <2>1. dir = dir \ (Stale \ Stale) /\ dir' = dir /\ overdue' = Cardinality(Stale)
    BY <1>7 DEF PruneFails, disk
  <2>2. Cardinality(dir') <= Keep + overdue'
    BY <2>1, Pruned
  <2>3. Cardinality(dir') <= Keep + overdue' + Extra'
    BY <1>0, <2>2
  <2> QED
    BY <2>3 DEF DirectoryBounded, Extra
<1> QED
  BY <1>2, <1>3, <1>4, <1>5, <1>6, <1>7 DEF Next

\* Nothing is there at first.
LEMMA InitInv == Init => Inv
<1> SUFFICES ASSUME Init PROVE Inv
  OBVIOUS
<1>1. TypeOK
  BY BundlesAssumption DEF Init, TypeOK
<1>2. RoundInv /\ PathInv
  BY DEF Init, RoundInv, PathInv, Apart, Kept
<1>3. DirectoryBounded
  <2>1. Cardinality({}) = 0
    BY FS_EmptySet
  <2>2. dir = {} /\ overdue = 0 /\ pc = "idle"
    BY DEF Init
  <2> QED
    BY <2>1, <2>2, BundlesAssumption DEF DirectoryBounded, Extra
<1> QED
  BY <1>1, <1>2, <1>3 DEF Inv

LEMMA Invariance == Spec => []Inv
<1>1. Inv /\ [Next]_vars => Inv'
  BY TypeStep, RoundStep, PathStep, BoundStep DEF Inv
<1> QED
  BY <1>1, InitInv, PTL DEF Spec

-----------------------------------------------------------------------------
(* The theorems *)

\* A path in the incident table, also in what a power cut leaves of it, names a
\* whole archive until prune may take it or the power has damaged it, through any
\* failing calls, kills and power cuts.
THEOREM EvidenceIsKept == Spec => []EvidenceKept
<1>1. Inv => EvidenceKept
  BY DEF Inv, PathInv, Kept, EvidenceKept, Intact
<1> QED
  BY <1>1, Invariance, PTL

\* The directory holds Keep archives and the one being made, and what failing
\* removals and rounds that were cut short have left since the last prune.
THEOREM DirectoryStaysBounded == Spec => []DirectoryBounded
<1>1. Inv => DirectoryBounded
  BY DEF Inv
<1> QED
  BY <1>1, Invariance, PTL

\* No two incidents share an archive, and a download never sends half of one that
\* the power has not damaged, whatever prune and the writer do meanwhile.
THEOREM DownloadsStayWhole == Spec => []DownloadsAreWhole
<1>1. Inv => DownloadsAreWhole
  BY Fields DEF Inv, PathInv, Apart, Kept, TypeOK, DownloadsAreWhole
<1> QED
  BY <1>1, Invariance, PTL

=============================================================================
