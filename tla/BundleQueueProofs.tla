-------------------------- MODULE BundleQueueProofs ---------------------------
(***************************************************************************)
(* A bundle of the download queue, for any number of files, of sources, of *)
(* segments and of events.                                                 *)
(*                                                                         *)
(* First the folds over the files of a bundle: what RemoveItems and        *)
(* RemoveQIs leave and the sum Bytes.  Then the types (Types).  Calm says  *)
(* where the items are that the threads work on; it holds until an         *)
(* operation overtakes one of them (Steady), and on it rest the status     *)
(* (Settled), the counts (Counting) and the lists of the sources           *)
(* (Sourcing).                                                             *)
(***************************************************************************)
EXTENDS BundleQueue, FiniteSetTheorems, FunctionTheorems, WellFoundedInduction, TLAPS

\* A set of naturals that is not empty has a least element.
LEMMA LeastNat ==
  ASSUME NEW T, T \subseteq Nat, T # {}
  PROVE  \E x \in T : \A y \in T : x <= y
<1> DEFINE R == {ss \in Nat \X Nat : ss[1] < ss[2]}
<1>1. IsWellFoundedOn(R, Nat) BY NatLessThanWellFounded DEF OpToRel
<1>2. PICK x \in T : \A y \in T : ~(<<y, x>> \in R)
  <2> HIDE DEF R
  <2> QED BY <1>1, WFMin
<1>3. ASSUME NEW y \in T PROVE x <= y
  <2>1. x \in Nat /\ y \in Nat OBVIOUS
  <2>2. y < x => <<y, x>> \in R BY <2>1
  <2>3. ~(<<y, x>> \in R)
    <3> HIDE DEF R
    <3> QED BY <1>2
  <2> HIDE DEF R
  <2> QED BY <2>1, <2>2, <2>3
<1> QED BY <1>3

\* Induction, for a set of naturals.
LEMMA NatSet ==
  ASSUME NEW Z, 0 \in Z, \A n \in Nat : n \in Z => n + 1 \in Z
  PROVE  \A n \in Nat : n \in Z
<1> SUFFICES ASSUME Nat \ Z # {} PROVE FALSE OBVIOUS
<1>1. PICK x \in Nat \ Z : \A y \in Nat \ Z : x <= y BY LeastNat
<1>2. x # 0 /\ x \in Nat OBVIOUS
<1>3. x - 1 \in Nat /\ x = (x - 1) + 1 /\ ~(x <= x - 1) BY <1>2
<1>4. x - 1 \in Z BY <1>1, <1>3
<1>5. (x - 1) + 1 \in Z BY <1>3, <1>4
<1> QED BY <1>3, <1>5

-----------------------------------------------------------------------------
(* Folds over a set.                                                       *)

\* The element that a fold takes out of a set first.
First(s) == CHOOSE x \in s : TRUE

\* g is the fold of op over the subsets of S.
IsFold(g, S, base, op) ==
  g = [s \in SUBSET S |-> IF s = {} THEN base ELSE op[<<First(s), g[s \ {First(s)}]>>]]

\* The first element, and what remains.
LEMMA FirstIs ==
  ASSUME NEW s, s # {}, IsFiniteSet(s)
  PROVE  /\ First(s) \in s /\ IsFiniteSet(s \ {First(s)})
         /\ Cardinality(s) \in Nat /\ Cardinality(s) >= 1
         /\ Cardinality(s \ {First(s)}) = Cardinality(s) - 1
<1>1. First(s) \in s BY DEF First
<1>2. IsFiniteSet(s \ {First(s)}) /\ Cardinality(s \ {First(s)}) = Cardinality(s) - 1
  BY <1>1, FS_RemoveElement
<1>3. Cardinality(s) \in Nat /\ Cardinality(s \ {First(s)}) \in Nat BY <1>2, FS_CardinalityType
<1> QED BY <1>1, <1>2, <1>3

\* There is a fold over a finite set.
LEMMA FoldExists ==
  ASSUME NEW S, IsFiniteSet(S), NEW T, NEW base \in T, NEW op \in [S \X T -> T]
  PROVE  \E g \in [SUBSET S -> T] : IsFold(g, S, base, op)
<1> DEFINE D(n) == {s \in SUBSET S : Cardinality(s) <= n}
           Up(g, n) == \A s \in D(n) :
                         g[s] = IF s = {} THEN base ELSE op[<<First(s), g[s \ {First(s)}]>>]
           Z == {n \in Nat : \E g \in [D(n) -> T] : Up(g, n)}
<1>0. \A s \in SUBSET S :
        IsFiniteSet(s) /\ Cardinality(s) \in Nat /\ Cardinality(s) <= Cardinality(S)
  BY FS_Subset, FS_CardinalityType
<1>1. 0 \in Z
  <2> DEFINE g == [s \in D(0) |-> base]
  <2>1. g \in [D(0) -> T] OBVIOUS
  <2>2. ASSUME NEW s \in D(0) PROVE s = {}
    <3>1. Cardinality(s) = 0 BY <1>0
    <3> QED BY <1>0, <3>1, FS_EmptySet
  <2>3. Up(g, 0) BY <2>2
  <2> QED BY <2>1, <2>3
<1>2. ASSUME NEW n \in Nat, n \in Z PROVE n + 1 \in Z
  <2>1. PICK g \in [D(n) -> T] : Up(g, n) BY <1>2
  <2> DEFINE h == [s \in D(n + 1) |-> IF s \in D(n) THEN g[s]
                                      ELSE op[<<First(s), g[s \ {First(s)}]>>]]
  <2>2. ASSUME NEW s \in D(n + 1), s # {}
        PROVE  /\ First(s) \in S /\ s \ {First(s)} \in D(n)
    <3>1. s \in SUBSET S /\ IsFiniteSet(s) /\ Cardinality(s) <= n + 1 BY <1>0
    <3>2. /\ First(s) \in s /\ Cardinality(s) \in Nat
          /\ Cardinality(s \ {First(s)}) = Cardinality(s) - 1
      BY <2>2, <3>1, FirstIs
    <3>3. Cardinality(s \ {First(s)}) <= n BY <3>1, <3>2
    <3> QED BY <3>1, <3>2, <3>3
  <2>3. {} \in D(n) BY FS_EmptySet
  <2>4. \A s \in D(n) : s \in D(n + 1) BY <1>0
  <2>5. h \in [D(n + 1) -> T]
    <3> SUFFICES ASSUME NEW s \in D(n + 1)
                 PROVE  (IF s \in D(n) THEN g[s] ELSE op[<<First(s), g[s \ {First(s)}]>>]) \in T
      OBVIOUS
    <3>1. CASE s \in D(n) BY <3>1
    <3>2. CASE s \notin D(n)
      <4>1. s # {} BY <2>3, <3>2
      <4>2. First(s) \in S /\ s \ {First(s)} \in D(n) BY <2>2, <4>1
      <4> HIDE DEF D
      <4>3. g[s \ {First(s)}] \in T BY <4>2
      <4>4. <<First(s), g[s \ {First(s)}]>> \in S \X T BY <4>2, <4>3
      <4> QED BY <3>2, <4>4
    <3> QED BY <3>1, <3>2
  <2>6. Up(h, n + 1)
    <3> SUFFICES ASSUME NEW s \in D(n + 1)
                 PROVE  h[s] = IF s = {} THEN base ELSE op[<<First(s), h[s \ {First(s)}]>>]
      OBVIOUS
    <3>1. CASE s = {} BY <2>1, <2>3, <2>4, <3>1
    <3>2. CASE s # {}
      <4>1. First(s) \in S /\ s \ {First(s)} \in D(n) BY <2>2, <3>2
      <4>2. h[s \ {First(s)}] = g[s \ {First(s)}] BY <2>4, <4>1
      <4>3. h[s] = op[<<First(s), g[s \ {First(s)}]>>]
        <5>1. CASE s \in D(n) BY <2>1, <3>2, <5>1
        <5>2. CASE s \notin D(n) BY <5>2
        <5> QED BY <5>1, <5>2
      <4> QED BY <3>2, <4>2, <4>3
    <3> QED BY <3>1, <3>2
  <2> HIDE DEF D, h, Up
  <2>7. \E f \in [D(n + 1) -> T] : Up(f, n + 1) BY <2>5, <2>6
  <2>8. n + 1 \in Nat OBVIOUS
  <2> QED BY <2>7, <2>8
<1>3. Cardinality(S) \in Nat BY FS_CardinalityType
<1>4. Cardinality(S) \in Z
  <2>1. \A n \in Nat : n \in Z
    <3> HIDE DEF Z
    <3> QED BY <1>1, <1>2, NatSet
  <2> QED BY <1>3, <2>1
<1>5. PICK g \in [D(Cardinality(S)) -> T] : Up(g, Cardinality(S)) BY <1>4
<1>6. D(Cardinality(S)) = SUBSET S BY <1>0
<1>7. g \in [SUBSET S -> T] BY <1>5, <1>6
<1>8. \A s \in SUBSET S : g[s] = IF s = {} THEN base ELSE op[<<First(s), g[s \ {First(s)}]>>]
  BY <1>5, <1>6
<1>9. g = [s \in SUBSET S |-> IF s = {} THEN base ELSE op[<<First(s), g[s \ {First(s)}]>>]]
  BY <1>7, <1>8
<1> QED BY <1>7, <1>9 DEF IsFold

\* What holds of the empty set, and of a set when it holds without its first
\* element, holds of every finite set.
LEMMA FirstInduction ==
  ASSUME NEW S, IsFiniteSet(S), NEW Z, {} \in Z,
         \A s \in SUBSET S : s # {} /\ s \ {First(s)} \in Z => s \in Z
  PROVE  S \in Z
<1> DEFINE N == {n \in Nat : \A s \in SUBSET S : Cardinality(s) <= n => s \in Z}
<1>0. \A s \in SUBSET S : IsFiniteSet(s) /\ Cardinality(s) \in Nat
  BY FS_Subset, FS_CardinalityType
<1>1. 0 \in N
  <2> SUFFICES ASSUME NEW s \in SUBSET S, Cardinality(s) <= 0 PROVE s \in Z OBVIOUS
  <2>1. Cardinality(s) = 0 BY <1>0
  <2>2. IsFiniteSet(s) BY <1>0
  <2>3. s = {} BY <2>1, <2>2, FS_EmptySet
  <2> QED BY <2>3
<1>2. ASSUME NEW n \in Nat, n \in N PROVE n + 1 \in N
  <2> SUFFICES ASSUME NEW s \in SUBSET S, Cardinality(s) <= n + 1 PROVE s \in Z OBVIOUS
  <2>1. CASE s = {} BY <2>1
  <2>2. CASE s # {}
    <3>1. /\ Cardinality(s) \in Nat
          /\ Cardinality(s \ {First(s)}) = Cardinality(s) - 1
      BY <1>0, <2>2, FirstIs
    <3>2. Cardinality(s \ {First(s)}) <= n /\ s \ {First(s)} \in SUBSET S BY <3>1
    <3> QED BY <1>2, <2>2, <3>2
  <2> QED BY <2>1, <2>2
<1>3. \A n \in Nat : n \in N
  <2> HIDE DEF N
  <2> QED BY <1>1, <1>2, NatSet
<1>4. Cardinality(S) \in Nat /\ Cardinality(S) <= Cardinality(S) BY FS_CardinalityType
<1> QED BY <1>3, <1>4

-----------------------------------------------------------------------------
(* The records, and what happens to the lists.                             *)

ItemStatuses == {"NEW", "QUEUED", "DOWNLOADED", "VALIDATION_RUNNING", "VALIDATION_ERROR",
                 "COMPLETED"}
Prios == {"normal", "paused"}
ItemRecords == [status : ItemStatuses, bytes : 0..Size, sources : SUBSET Users, prio : Prios]
BundleRecords == [queueItems : SUBSET Items, finishedFiles : SUBSET Items, size : Int,
                  finished : Int, queueSize : Int, pathQueued : Int, pathFinished : Int,
                  pathSize : Int]
UserRecords == [queue : SUBSET (Prios \X Items), files : Int]

\* An item is a path and a number.
LEMMA ItemIs ==
  /\ \A i \in Items : i[1] \in Files /\ i[2] \in 1..Gens /\ i = <<i[1], i[2]>>
  /\ \A f \in Files, n \in 1..Gens : <<f, n>> \in Items
  /\ NoItem \notin Items
BY DEF Items, NoItem

\* The bounds are positive numbers.
LEMMA Sizes == Size \in Nat /\ Size >= 1 /\ Gens \in Nat /\ Gens >= 1
BY BundleAssumption

\* There are finitely many items.
LEMMA ItemsFinite ==
  /\ IsFiniteSet(Items)
  /\ \A S \in SUBSET Items : IsFiniteSet(S) /\ Cardinality(S) \in Nat
<1>1. IsFiniteSet(1..Gens) BY Sizes, FS_Interval
<1>2. IsFiniteSet(Files) BY BundleAssumption
<1>3. IsFiniteSet(Items) BY <1>1, <1>2, FS_Product DEF Items
<1> QED BY <1>3, FS_Subset, FS_CardinalityType

\* The fields of a bundle.
LEMMA BundleFields ==
  ASSUME NEW b \in BundleRecords
  PROVE  /\ b.queueItems \subseteq Items /\ b.finishedFiles \subseteq Items /\ b.size \in Int
         /\ b.finished \in Int /\ b.queueSize \in Int /\ b.pathQueued \in Int
         /\ b.pathFinished \in Int /\ b.pathSize \in Int
BY DEF BundleRecords

\* A file leaves the bundle.
LEMMA DropIs ==
  ASSUME NEW b \in BundleRecords, NEW it \in [Items -> ItemRecords], NEW i \in Items,
         NEW r, r = BundleDrop(b, it, i)
  PROVE  /\ r \in BundleRecords
         /\ isDownloaded(it[i].status) =>
              /\ r.queueItems = b.queueItems /\ r.finishedFiles = b.finishedFiles \ {i}
              /\ r.queueSize = b.queueSize
         /\ ~isDownloaded(it[i].status) =>
              /\ r.queueItems = b.queueItems \ {i} /\ r.finishedFiles = b.finishedFiles
              /\ r.queueSize = b.queueSize - Size
         /\ i \in b.finishedFiles \/ ~isDownloaded(it[i].status) =>
              r.size = b.size - Size /\ r.finished = b.finished - it[i].bytes
         /\ r.pathSize = b.pathSize - Size
<1>9. it[i] \in ItemRecords /\ Size \in Int BY Sizes
<1>8. it[i].bytes \in Int BY <1>9 DEF ItemRecords
<1>0. /\ b.queueItems \subseteq Items /\ b.finishedFiles \subseteq Items /\ b.size \in Int
      /\ b.finished \in Int /\ b.queueSize \in Int /\ b.pathQueued \in Int
      /\ b.pathFinished \in Int /\ b.pathSize \in Int /\ it[i].bytes \in Int /\ Size \in Int
  BY <1>8, <1>9, BundleFields
<1>1. CASE isDownloaded(it[i].status) /\ i \in b.finishedFiles
  <2>1. r = [b EXCEPT !.finishedFiles = b.finishedFiles \ {i}, !.size = b.size - Size,
                      !.finished = b.finished - it[i].bytes,
                      !.pathFinished = b.pathFinished - 1, !.pathSize = b.pathSize - Size]
    BY <1>1 DEF BundleDrop, BundleRemove, removeQueue, BundleRecords
  <2>2. /\ b.finishedFiles \ {i} \subseteq Items
        /\ b.size - Size \in Int /\ b.finished - it[i].bytes \in Int
        /\ b.pathFinished - 1 \in Int /\ b.pathSize - Size \in Int
    BY <1>0
  <2>3. r \in BundleRecords BY <1>0, <2>1, <2>2 DEF BundleRecords
  <2>4. /\ r.queueItems = b.queueItems /\ r.finishedFiles = b.finishedFiles \ {i}
        /\ r.size = b.size - Size /\ r.finished = b.finished - it[i].bytes
        /\ r.queueSize = b.queueSize /\ r.pathSize = b.pathSize - Size
    BY <2>1 DEF BundleRecords
  <2> QED BY <1>1, <2>3, <2>4
<1>2. CASE isDownloaded(it[i].status) /\ i \notin b.finishedFiles
  <2>1. r = [b EXCEPT !.pathFinished = b.pathFinished - 1, !.pathSize = b.pathSize - Size]
    BY <1>2 DEF BundleDrop, BundleRemove, removeQueue, BundleRecords
  <2>2. b.pathFinished - 1 \in Int /\ b.pathSize - Size \in Int
    BY <1>0
  <2>3. r \in BundleRecords BY <1>0, <2>1, <2>2 DEF BundleRecords
  <2>4. /\ r.queueItems = b.queueItems /\ r.finishedFiles = b.finishedFiles
        /\ r.size = b.size /\ r.finished = b.finished
        /\ r.queueSize = b.queueSize /\ r.pathSize = b.pathSize - Size
    BY <2>1 DEF BundleRecords
  <2> QED BY <1>2, <2>3, <2>4
<1>3. CASE ~isDownloaded(it[i].status)
  <2>1. r = [b EXCEPT !.queueItems = b.queueItems \ {i}, !.size = b.size - Size,
                      !.finished = b.finished - it[i].bytes, !.pathQueued = b.pathQueued - 1,
                      !.pathSize = b.pathSize - Size, !.queueSize = b.queueSize - Size]
    BY <1>3 DEF BundleDrop, BundleRemove, removeQueue, BundleRecords
  <2>2. /\ b.queueItems \ {i} \subseteq Items
        /\ b.size - Size \in Int /\ b.finished - it[i].bytes \in Int
        /\ b.pathQueued - 1 \in Int /\ b.pathSize - Size \in Int /\ b.queueSize - Size \in Int
    BY <1>0
  <2>3. r \in BundleRecords BY <1>0, <2>1, <2>2 DEF BundleRecords
  <2>4. /\ r.queueItems = b.queueItems \ {i} /\ r.finishedFiles = b.finishedFiles
        /\ r.size = b.size - Size /\ r.finished = b.finished - it[i].bytes
        /\ r.queueSize = b.queueSize - Size /\ r.pathSize = b.pathSize - Size
    BY <2>1 DEF BundleRecords
  <2> QED BY <1>3, <2>3, <2>4
<1> QED BY <1>1, <1>2, <1>3

\* A file that is done moves to the finished ones.
LEMMA FinishIs ==
  ASSUME NEW b \in BundleRecords, NEW it \in [Items -> ItemRecords], NEW i \in Items,
         NEW r, r = BundleFinish(b, it, i)
  PROVE  /\ r \in BundleRecords
         /\ r.queueItems = b.queueItems \ {i} /\ r.finishedFiles = b.finishedFiles \cup {i}
         /\ r.size = b.size /\ r.finished = b.finished /\ r.pathSize = b.pathSize
         /\ r.queueSize = b.queueSize - Size
<1>0. /\ b.queueItems \subseteq Items /\ b.finishedFiles \subseteq Items /\ b.size \in Int
      /\ b.finished \in Int /\ b.queueSize \in Int /\ b.pathQueued \in Int
      /\ b.pathFinished \in Int /\ b.pathSize \in Int /\ Size \in Int
  BY BundleFields, Sizes
<1>1. CASE isDownloaded(it[i].status)
  <2>1. r = [b EXCEPT !.queueItems = b.queueItems \ {i},
                      !.finishedFiles = b.finishedFiles \cup {i},
                      !.pathFinished = b.pathFinished - 1, !.queueSize = b.queueSize - Size]
    BY <1>1 DEF BundleFinish, BundleRemove, removeQueue, BundleRecords
  <2>2. /\ b.queueItems \ {i} \subseteq Items /\ b.finishedFiles \cup {i} \subseteq Items
        /\ b.pathFinished - 1 \in Int /\ b.queueSize - Size \in Int
    BY <1>0
  <2>3. r \in BundleRecords BY <1>0, <2>1, <2>2 DEF BundleRecords
  <2>4. /\ r.queueItems = b.queueItems \ {i} /\ r.finishedFiles = b.finishedFiles \cup {i}
        /\ r.size = b.size /\ r.finished = b.finished
        /\ r.queueSize = b.queueSize - Size /\ r.pathSize = b.pathSize
    BY <2>1 DEF BundleRecords
  <2> QED BY <1>1, <2>3, <2>4
<1>2. CASE ~isDownloaded(it[i].status)
  <2>1. r = [b EXCEPT !.queueItems = b.queueItems \ {i},
                      !.finishedFiles = b.finishedFiles \cup {i},
                      !.pathQueued = b.pathQueued - 1, !.queueSize = b.queueSize - Size]
    BY <1>2 DEF BundleFinish, BundleRemove, removeQueue, BundleRecords
  <2>2. /\ b.queueItems \ {i} \subseteq Items /\ b.finishedFiles \cup {i} \subseteq Items
        /\ b.pathQueued - 1 \in Int /\ b.queueSize - Size \in Int
    BY <1>0
  <2>3. r \in BundleRecords BY <1>0, <2>1, <2>2 DEF BundleRecords
  <2>4. /\ r.queueItems = b.queueItems \ {i} /\ r.finishedFiles = b.finishedFiles \cup {i}
        /\ r.size = b.size /\ r.finished = b.finished
        /\ r.queueSize = b.queueSize - Size /\ r.pathSize = b.pathSize
    BY <2>1 DEF BundleRecords
  <2> QED BY <1>2, <2>3, <2>4
<1> QED BY <1>1, <1>2

\* A file is added to the queued ones.
LEMMA AddIs ==
  ASSUME NEW b \in BundleRecords, NEW it \in [Items -> ItemRecords], NEW i \in Items,
         NEW r, r = BundleAdd(b, it, i)
  PROVE  /\ r \in BundleRecords
         /\ r.queueItems = b.queueItems \cup {i} /\ r.finishedFiles = b.finishedFiles
         /\ r.size = b.size + Size /\ r.finished = b.finished + it[i].bytes
         /\ r.pathSize = b.pathSize + Size /\ r.queueSize = b.queueSize + Size
<1>9. it[i] \in ItemRecords /\ Size \in Int BY Sizes
<1>8. it[i].bytes \in Int BY <1>9 DEF ItemRecords
<1>0. /\ b.queueItems \subseteq Items /\ b.finishedFiles \subseteq Items /\ b.size \in Int
      /\ b.finished \in Int /\ b.queueSize \in Int /\ b.pathQueued \in Int
      /\ b.pathFinished \in Int /\ b.pathSize \in Int /\ it[i].bytes \in Int /\ Size \in Int
  BY <1>8, <1>9, BundleFields
<1>1. r = [b EXCEPT !.queueItems = b.queueItems \cup {i}, !.size = b.size + Size,
                    !.finished = b.finished + it[i].bytes, !.pathQueued = b.pathQueued + 1,
                    !.pathSize = b.pathSize + Size, !.queueSize = b.queueSize + Size]
  BY DEF BundleAdd, BundleRecords
<1>2. /\ b.queueItems \cup {i} \subseteq Items /\ b.size + Size \in Int
      /\ b.finished + it[i].bytes \in Int /\ b.pathQueued + 1 \in Int
      /\ b.pathSize + Size \in Int /\ b.queueSize + Size \in Int
  BY <1>0
<1>3. r \in BundleRecords BY <1>0, <1>1, <1>2 DEF BundleRecords
<1> QED BY <1>1, <1>3 DEF BundleRecords

\* RemoveItems takes the files out one by one.
LEMMA RemoveItemsFold ==
  ASSUME NEW b \in BundleRecords, NEW it \in [Items -> ItemRecords], NEW S \in SUBSET Items
  PROVE  \E g : /\ RemoveItems(b, it, S) = g[S]
                /\ \A s \in SUBSET S :
                     g[s] = IF s = {} THEN b
                            ELSE BundleDrop(g[s \ {First(s)}], it, First(s))
<1> DEFINE Is(g) == g = [s \in SUBSET S |->
                           IF s = {} THEN b
                           ELSE BundleDrop(g[s \ {First(s)}], it, First(s))]
           c == CHOOSE g : Is(g)
           op == [p \in S \X BundleRecords |-> BundleDrop(p[2], it, p[1])]
<1>1. RemoveItems(b, it, S) = c[S] BY DEF RemoveItems, FoldSet, MapThenFoldSet, First
<1>2. op \in [S \X BundleRecords -> BundleRecords]
  <2> SUFFICES ASSUME NEW i \in S, NEW r \in BundleRecords
               PROVE  BundleDrop(r, it, i) \in BundleRecords
    OBVIOUS
  <2>1. i \in Items OBVIOUS
  <2> QED BY <2>1, DropIs
<1>3. IsFiniteSet(S) BY ItemsFinite
<1>4. PICK g \in [SUBSET S -> BundleRecords] : IsFold(g, S, b, op)
  <2> HIDE DEF op
  <2> QED BY <1>2, <1>3, FoldExists
<1>5. Is(g)
  <2>1. ASSUME NEW s \in SUBSET S, s # {}
        PROVE  op[<<First(s), g[s \ {First(s)}]>>] = BundleDrop(g[s \ {First(s)}], it, First(s))
    <3>1. First(s) \in S BY <2>1 DEF First
    <3>2. s \ {First(s)} \in SUBSET S OBVIOUS
    <3>3. g[s \ {First(s)}] \in BundleRecords BY <3>2
    <3> QED BY <3>1, <3>3
  <2> HIDE DEF op
  <2> QED BY <1>4, <2>1 DEF IsFold
<1>6. Is(c)
  <2> HIDE DEF Is
  <2> QED BY <1>5
<1> HIDE DEF c
<1>7. \A s \in SUBSET S :
        c[s] = IF s = {} THEN b ELSE BundleDrop(c[s \ {First(s)}], it, First(s))
  BY <1>6
<1> QED BY <1>1, <1>7

\* A file leaves the lists of the users U, and joins them.
LEMMA UserTypes ==
  ASSUME NEW us \in [Users -> UserRecords], NEW it \in [Items -> ItemRecords], NEW i \in Items,
         NEW U
  PROVE  /\ RemoveQI(us, it, i, U) \in [Users -> UserRecords]
         /\ AddQI(us, it, i, U) \in [Users -> UserRecords]
<1>1. it[i].prio \in Prios
  <2>1. it[i] \in ItemRecords OBVIOUS
  <2> QED BY <2>1 DEF ItemRecords
<1>2. ASSUME NEW u \in Users
      PROVE  /\ us[u] \in UserRecords
             /\ [queue |-> us[u].queue \ {<<it[i].prio, i>>}, files |-> us[u].files - 1]
                  \in UserRecords
             /\ [queue |-> us[u].queue \cup {<<it[i].prio, i>>}, files |-> us[u].files + 1]
                  \in UserRecords
  <2>1. us[u] \in UserRecords OBVIOUS
  <2>2. us[u].queue \subseteq Prios \X Items /\ us[u].files \in Int BY <2>1 DEF UserRecords
  <2>3. <<it[i].prio, i>> \in Prios \X Items BY <1>1
  <2>4. us[u].files - 1 \in Int /\ us[u].files + 1 \in Int BY <2>2
  <2>5. /\ us[u].queue \ {<<it[i].prio, i>>} \subseteq Prios \X Items
        /\ us[u].queue \cup {<<it[i].prio, i>>} \subseteq Prios \X Items
    BY <2>2, <2>3
  <2> QED BY <2>1, <2>4, <2>5 DEF UserRecords
<1>3. RemoveQI(us, it, i, U) \in [Users -> UserRecords] BY <1>2 DEF RemoveQI
<1>4. AddQI(us, it, i, U) \in [Users -> UserRecords] BY <1>2 DEF AddQI
<1> QED BY <1>3, <1>4

\* RemoveQIs takes the files out of the lists of their sources one by one.
LEMMA RemoveQIsFold ==
  ASSUME NEW us \in [Users -> UserRecords], NEW it \in [Items -> ItemRecords],
         NEW S \in SUBSET Items
  PROVE  \E g : /\ RemoveQIs(us, it, S) = g[S]
                /\ \A s \in SUBSET S :
                     g[s] = IF s = {} THEN us
                            ELSE RemoveQI(g[s \ {First(s)}], it, First(s), it[First(s)].sources)
<1> DEFINE Is(g) == g = [s \in SUBSET S |->
                           IF s = {} THEN us
                           ELSE RemoveQI(g[s \ {First(s)}], it, First(s), it[First(s)].sources)]
           c == CHOOSE g : Is(g)
           T == [Users -> UserRecords]
           op == [p \in S \X T |-> RemoveQI(p[2], it, p[1], it[p[1]].sources)]
<1>1. RemoveQIs(us, it, S) = c[S] BY DEF RemoveQIs, FoldSet, MapThenFoldSet, First
<1>2. op \in [S \X T -> T]
  <2> SUFFICES ASSUME NEW i \in S, NEW r \in T
               PROVE  RemoveQI(r, it, i, it[i].sources) \in T
    OBVIOUS
  <2>1. i \in Items OBVIOUS
  <2> QED BY <2>1, UserTypes
<1>3. IsFiniteSet(S) BY ItemsFinite
<1>4. PICK g \in [SUBSET S -> T] : IsFold(g, S, us, op)
  <2> HIDE DEF op, T
  <2>1. us \in T BY DEF T
  <2> QED BY <1>2, <1>3, <2>1, FoldExists
<1>5. Is(g)
  <2>1. ASSUME NEW s \in SUBSET S, s # {}
        PROVE  op[<<First(s), g[s \ {First(s)}]>>] =
                 RemoveQI(g[s \ {First(s)}], it, First(s), it[First(s)].sources)
    <3>1. First(s) \in S BY <2>1 DEF First
    <3>2. s \ {First(s)} \in SUBSET S OBVIOUS
    <3> HIDE DEF T
    <3>3. g[s \ {First(s)}] \in T BY <3>2
    <3> QED BY <3>1, <3>3
  <2> HIDE DEF op, T
  <2> QED BY <1>4, <2>1 DEF IsFold
<1>6. Is(c)
  <2> HIDE DEF Is
  <2> QED BY <1>5
<1> HIDE DEF c
<1>7. \A s \in SUBSET S :
        c[s] = IF s = {} THEN us
               ELSE RemoveQI(c[s \ {First(s)}], it, First(s), it[First(s)].sources)
  BY <1>6
<1> QED BY <1>1, <1>7

\* What the lists of the users are after it.
LEMMA RemoveQIsType ==
  ASSUME NEW us \in [Users -> UserRecords], NEW it \in [Items -> ItemRecords],
         NEW S \in SUBSET Items
  PROVE  RemoveQIs(us, it, S) \in [Users -> UserRecords]
<1>1. PICK g : /\ RemoveQIs(us, it, S) = g[S]
               /\ \A s \in SUBSET S :
                     g[s] = IF s = {} THEN us
                            ELSE RemoveQI(g[s \ {First(s)}], it, First(s), it[First(s)].sources)
  BY RemoveQIsFold
<1> DEFINE Z == {s \in SUBSET S : g[s] \in [Users -> UserRecords]}
<1>2. {} \in Z BY <1>1
<1>3. ASSUME NEW s \in SUBSET S, s # {}, s \ {First(s)} \in Z PROVE s \in Z
  <2>1. First(s) \in Items BY <1>3 DEF First
  <2>2. g[s] = RemoveQI(g[s \ {First(s)}], it, First(s), it[First(s)].sources) BY <1>1, <1>3
  <2>3. g[s \ {First(s)}] \in [Users -> UserRecords] BY <1>3
  <2>4. RemoveQI(g[s \ {First(s)}], it, First(s), it[First(s)].sources) \in [Users -> UserRecords]
    BY <2>1, <2>3, UserTypes
  <2>5. g[s] \in [Users -> UserRecords] BY <2>2, <2>4
  <2> QED BY <2>5
<1>4. S \in Z
  <2> HIDE DEF Z
  <2> QED BY <1>2, <1>3, ItemsFinite, FirstInduction
<1> QED BY <1>1, <1>4

-----------------------------------------------------------------------------
(* The sum of what was downloaded.                                         *)

\* What was downloaded of the files S, unit by unit.
Units(it, S) == UNION {{i} \X (1..it[i].bytes) : i \in S}

\* The units of one file more.
LEMMA UnitsStep ==
  ASSUME NEW it \in [Items -> ItemRecords], NEW S \in SUBSET Items, NEW i \in S,
         IsFiniteSet(Units(it, S \ {i}))
  PROVE  /\ IsFiniteSet(Units(it, S))
         /\ Cardinality(Units(it, S)) = it[i].bytes + Cardinality(Units(it, S \ {i}))
<1> DEFINE A == {i} \X (1..it[i].bytes)
           B == Units(it, S \ {i})
<1>1. it[i].bytes \in Nat
  <2>1. it[i] \in ItemRecords OBVIOUS
  <2> QED BY <2>1, Sizes DEF ItemRecords
<1>2. Units(it, S) = A \cup B BY DEF Units
<1>3. A \cap B = {} BY DEF Units
<1>4. IsFiniteSet(A) /\ Cardinality(A) = it[i].bytes
  <2>1. IsFiniteSet(1..it[i].bytes) /\ Cardinality(1..it[i].bytes) = it[i].bytes
    <3>1. 1 \in Int /\ it[i].bytes \in Int BY <1>1
    <3>2. /\ IsFiniteSet(1..it[i].bytes)
          /\ Cardinality(1..it[i].bytes) =
               IF 1 > it[i].bytes THEN 0 ELSE it[i].bytes - 1 + 1
      BY <3>1, FS_Interval
    <3> QED BY <1>1, <3>2
  <2>2. IsFiniteSet({i}) /\ Cardinality({i}) = 1 BY FS_Singleton
  <2>3. IsFiniteSet(A) /\ Cardinality(A) = Cardinality({i}) * Cardinality(1..it[i].bytes)
    BY <2>1, <2>2, FS_Product
  <2> QED BY <1>1, <2>1, <2>2, <2>3
<1> HIDE DEF A, B
<1>5. /\ IsFiniteSet(A \cup B)
      /\ Cardinality(A \cup B) = Cardinality(A) + Cardinality(B) - Cardinality(A \cap B)
  BY <1>4, FS_Union DEF B
<1>6. Cardinality(B) \in Nat /\ Cardinality(A \cap B) = 0
  BY <1>3, FS_CardinalityType, FS_EmptySet DEF B
<1> QED BY <1>1, <1>2, <1>4, <1>5, <1>6 DEF B

\* The sum is the number of the units.
LEMMA BytesAreUnits ==
  ASSUME NEW it \in [Items -> ItemRecords], NEW S \in SUBSET Items
  PROVE  /\ Bytes(it, S) = Cardinality(Units(it, S)) /\ IsFiniteSet(Units(it, S))
         /\ Bytes(it, S) \in Nat
<1> DEFINE Is(g) == g = [s \in SUBSET S |-> IF s = {} THEN 0
                                            ELSE it[First(s)].bytes + g[s \ {First(s)}]]
           c == CHOOSE g : Is(g)
           op == [p \in S \X Nat |-> it[p[1]].bytes + p[2]]
<1>0. \A i \in S : it[i].bytes \in Nat
  <2> TAKE i \in S
  <2>1. it[i] \in ItemRecords OBVIOUS
  <2> QED BY <2>1, Sizes DEF ItemRecords
<1>1. Bytes(it, S) = c[S] BY DEF Bytes, MapThenSumSet, MapThenFoldSet, First
<1>2. op \in [S \X Nat -> Nat] BY <1>0
<1>3. IsFiniteSet(S) BY ItemsFinite
<1>4. PICK g \in [SUBSET S -> Nat] : IsFold(g, S, 0, op)
  <2> HIDE DEF op
  <2> QED BY <1>2, <1>3, FoldExists
<1>5. Is(g)
  <2>1. ASSUME NEW s \in SUBSET S, s # {}
        PROVE  op[<<First(s), g[s \ {First(s)}]>>] = it[First(s)].bytes + g[s \ {First(s)}]
    <3>1. First(s) \in S BY <2>1 DEF First
    <3>2. s \ {First(s)} \in SUBSET S OBVIOUS
    <3>3. g[s \ {First(s)}] \in Nat BY <3>2
    <3> QED BY <3>1, <3>3
  <2> HIDE DEF op
  <2> QED BY <1>4, <2>1 DEF IsFold
<1>6. Is(c)
  <2> HIDE DEF Is
  <2> QED BY <1>5
<1> HIDE DEF c
<1>7. \A s \in SUBSET S :
        c[s] = IF s = {} THEN 0 ELSE it[First(s)].bytes + c[s \ {First(s)}]
  BY <1>6
<1> DEFINE Z == {s \in SUBSET S : /\ IsFiniteSet(Units(it, s))
                                  /\ c[s] = Cardinality(Units(it, s))}
<1>8. {} \in Z
  <2>1. Units(it, {}) = {} BY DEF Units
  <2> QED BY <1>7, <2>1, FS_EmptySet
<1>9. ASSUME NEW s \in SUBSET S, s # {}, s \ {First(s)} \in Z PROVE s \in Z
  <2>1. First(s) \in s BY <1>9 DEF First
  <2>2. /\ IsFiniteSet(Units(it, s))
        /\ Cardinality(Units(it, s)) = it[First(s)].bytes + Cardinality(Units(it, s \ {First(s)}))
    <3>1. s \in SUBSET Items OBVIOUS
    <3> QED BY <1>9, <2>1, <3>1, UnitsStep
  <2>3. c[s] = it[First(s)].bytes + c[s \ {First(s)}] BY <1>7, <1>9
  <2> QED BY <1>9, <2>2, <2>3
<1>10. S \in Z
  <2> HIDE DEF Z
  <2> QED BY <1>3, <1>8, <1>9, FirstInduction
<1> QED BY <1>1, <1>10, FS_CardinalityType

\* One file less, no file, and other files that have changed.
LEMMA BytesAre ==
  ASSUME NEW it \in [Items -> ItemRecords], NEW S \in SUBSET Items
  PROVE  /\ Bytes(it, S) \in Nat /\ Bytes(it, {}) = 0
         /\ \A i \in S : Bytes(it, S) = it[i].bytes + Bytes(it, S \ {i})
         /\ \A jt \in [Items -> ItemRecords] :
              (\A i \in S : jt[i].bytes = it[i].bytes) => Bytes(jt, S) = Bytes(it, S)
<1>1. Bytes(it, S) \in Nat BY BytesAreUnits
<1>2. Bytes(it, {}) = 0
  <2>1. Units(it, {}) = {} BY DEF Units
  <2>2. {} \in SUBSET Items OBVIOUS
  <2> QED BY <2>1, <2>2, BytesAreUnits, FS_EmptySet
<1>3. ASSUME NEW i \in S PROVE Bytes(it, S) = it[i].bytes + Bytes(it, S \ {i})
  <2>1. S \ {i} \in SUBSET Items OBVIOUS
  <2>2. /\ Bytes(it, S) = Cardinality(Units(it, S))
        /\ Bytes(it, S \ {i}) = Cardinality(Units(it, S \ {i}))
        /\ IsFiniteSet(Units(it, S \ {i}))
    BY <2>1, BytesAreUnits
  <2> QED BY <2>2, UnitsStep
<1>4. ASSUME NEW jt \in [Items -> ItemRecords], \A i \in S : jt[i].bytes = it[i].bytes
      PROVE  Bytes(jt, S) = Bytes(it, S)
  <2>1. Units(jt, S) = Units(it, S) BY <1>4 DEF Units
  <2> QED BY <2>1, BytesAreUnits
<1> QED BY <1>1, <1>2, <1>3, <1>4

\* The files of S that were still queued, and those that are done.
Undone(it, S) == {i \in S : ~isDownloaded(it[i].status)}
Done(it, S) == {i \in S : isDownloaded(it[i].status)}

\* A product with one file more.
LEMMA TimesStep == \A n \in Int : Size * n \in Int /\ Size * n = Size + Size * (n - 1)
<1> TAKE n \in Int
<1>1. Size \in Int BY Sizes
<1>2. Size * n \in Int BY <1>1
<1>3. Size * n = Size + Size * (n - 1) BY <1>1
<1> QED BY <1>2, <1>3

\* What is left of the bundle, and what it counts.
LEMMA RemoveItemsAre ==
  ASSUME NEW b \in BundleRecords, NEW it \in [Items -> ItemRecords], NEW S \in SUBSET Items,
         NEW r, r = RemoveItems(b, it, S)
  PROVE  /\ r \in BundleRecords
         /\ r.queueItems = b.queueItems \ Undone(it, S)
         /\ r.finishedFiles = b.finishedFiles \ Done(it, S)
         /\ r.pathSize = b.pathSize - Size * Cardinality(S)
         /\ r.queueSize = b.queueSize - Size * Cardinality(Undone(it, S))
         /\ Done(it, S) \subseteq b.finishedFiles =>
              /\ r.size = b.size - Size * Cardinality(S)
              /\ r.finished = b.finished - Bytes(it, S)
<1> DEFINE Left(s, q) ==
             /\ q.queueItems = b.queueItems \ Undone(it, s)
             /\ q.finishedFiles = b.finishedFiles \ Done(it, s)
           Sums(s, q) ==
             /\ q.pathSize = b.pathSize - Size * Cardinality(s)
             /\ q.queueSize = b.queueSize - Size * Cardinality(Undone(it, s))
           Counts(s, q) ==
             Done(it, S) \subseteq b.finishedFiles =>
               /\ q.size = b.size - Size * Cardinality(s)
               /\ q.finished = b.finished - Bytes(it, s)
<1>0. PICK g : /\ RemoveItems(b, it, S) = g[S]
               /\ \A s \in SUBSET S :
                    g[s] = IF s = {} THEN b
                           ELSE BundleDrop(g[s \ {First(s)}], it, First(s))
  BY RemoveItemsFold
<1> DEFINE Z == {s \in SUBSET S : /\ g[s] \in BundleRecords /\ Left(s, g[s])
                                  /\ Sums(s, g[s]) /\ Counts(s, g[s])}
<1>1. {} \in Z
  <2>1. g[{}] = b BY <1>0
  <2>2. Undone(it, {}) = {} /\ Done(it, {}) = {} BY DEF Undone, Done
  <2>3. Cardinality({}) = 0 /\ Bytes(it, {}) = 0
    <3>1. {} \in SUBSET Items OBVIOUS
    <3> QED BY <3>1, FS_EmptySet, BytesAre
  <2>4. Left({}, b) BY <2>2
  <2>5. Sums({}, b) /\ Counts({}, b)
    <3>1. Size * 0 = 0 BY Sizes
    <3>2. b.size \in Int /\ b.finished \in Int /\ b.pathSize \in Int /\ b.queueSize \in Int
      BY BundleFields
    <3>3. Size * Cardinality({}) = 0 BY <2>3, <3>1
    <3>4. /\ b.size - 0 = b.size /\ b.finished - 0 = b.finished
          /\ b.pathSize - 0 = b.pathSize /\ b.queueSize - 0 = b.queueSize
      BY <3>2
    <3> QED BY <2>2, <2>3, <3>3, <3>4
  <2> HIDE DEF Left, Sums, Counts
  <2> QED BY <2>1, <2>4, <2>5
<1>2. ASSUME NEW s \in SUBSET S, s # {}, s \ {First(s)} \in Z PROVE s \in Z
  <2> DEFINE i == First(s)
             t == s \ {i}
             q == g[t]
             p == g[s]
  <2>1. i \in s /\ i \in Items BY <1>2 DEF First
  <2>2. q \in BundleRecords /\ Left(t, q) /\ Sums(t, q) /\ Counts(t, q) BY <1>2
  <2>3. p = BundleDrop(q, it, i) BY <1>0, <1>2
  <2>4. /\ Cardinality(s) \in Int /\ Cardinality(t) = Cardinality(s) - 1
        /\ Bytes(it, s) = it[i].bytes + Bytes(it, t)
        /\ Bytes(it, s) \in Int /\ Bytes(it, t) \in Int /\ it[i].bytes \in Int
    <3>1. s \in SUBSET Items /\ t \in SUBSET Items /\ IsFiniteSet(s) BY ItemsFinite
    <3>2. it[i].bytes \in Int
      <4>1. it[i] \in ItemRecords BY <2>1
      <4> QED BY <4>1, Sizes DEF ItemRecords
    <3>3. Cardinality(s) \in Nat /\ Cardinality(t) = Cardinality(s) - 1 BY <1>2, <3>1, FirstIs
    <3>4. Bytes(it, s) = it[i].bytes + Bytes(it, t) BY <2>1, <3>1, BytesAre
    <3>5. Bytes(it, s) \in Nat /\ Bytes(it, t) \in Nat BY <3>1, BytesAre
    <3> QED BY <3>2, <3>3, <3>4, <3>5
  <2>5. /\ q.size \in Int /\ q.finished \in Int /\ q.pathSize \in Int /\ q.queueSize \in Int
        /\ b.size \in Int /\ b.finished \in Int /\ b.pathSize \in Int /\ b.queueSize \in Int
        /\ Size \in Int
    <3>1. q \in BundleRecords BY <2>2
    <3> HIDE DEF q
    <3> QED BY <3>1, BundleFields, Sizes
  <2>6. Size * Cardinality(s) = Size + Size * Cardinality(t) /\ Size * Cardinality(t) \in Int
    <3>1. PICK m \in Int : m = Cardinality(s) BY <2>4
    <3>2. Cardinality(t) = m - 1 /\ m - 1 \in Int BY <2>4, <3>1
    <3> HIDE DEF t, i
    <3>3. Size * m = Size + Size * (m - 1) BY TimesStep
    <3>4. Size * (m - 1) \in Int BY <3>2, TimesStep
    <3> QED BY <3>1, <3>2, <3>3, <3>4
  <2> HIDE DEF i, t, q, p
  <2>7. /\ p \in BundleRecords
        /\ isDownloaded(it[i].status) =>
             /\ p.queueItems = q.queueItems /\ p.finishedFiles = q.finishedFiles \ {i}
             /\ p.queueSize = q.queueSize
        /\ ~isDownloaded(it[i].status) =>
             /\ p.queueItems = q.queueItems \ {i} /\ p.finishedFiles = q.finishedFiles
             /\ p.queueSize = q.queueSize - Size
        /\ i \in q.finishedFiles \/ ~isDownloaded(it[i].status) =>
             p.size = q.size - Size /\ p.finished = q.finished - it[i].bytes
        /\ p.pathSize = q.pathSize - Size
    <3>1. q \in BundleRecords /\ i \in Items BY <2>1, <2>2
    <3>2. it \in [Items -> ItemRecords] OBVIOUS
    <3> QED BY <2>3, <3>1, <3>2, DropIs
  <2>8. t = s \ {i} BY DEF t
  <2>9. /\ isDownloaded(it[i].status) =>
             Undone(it, s) = Undone(it, t) /\ Done(it, s) = Done(it, t) \cup {i}
        /\ ~isDownloaded(it[i].status) =>
             Undone(it, s) = Undone(it, t) \cup {i} /\ Done(it, s) = Done(it, t)
    BY <2>1, <2>8 DEF Undone, Done
  <2>10. Left(s, p) BY <2>2, <2>7, <2>9
  <2>11. Sums(s, p)
    <3>1. p.pathSize = b.pathSize - Size * Cardinality(s) BY <2>2, <2>5, <2>6, <2>7
    <3>2. p.queueSize = b.queueSize - Size * Cardinality(Undone(it, s))
      <4>1. CASE isDownloaded(it[i].status) BY <2>2, <2>7, <2>9, <4>1
      <4>2. CASE ~isDownloaded(it[i].status)
        <5>1. i \notin Undone(it, t) BY <2>8 DEF Undone
        <5>2. Undone(it, t) \in SUBSET Items BY <2>8 DEF Undone
        <5>3. IsFiniteSet(Undone(it, t)) /\ Cardinality(Undone(it, t)) \in Int
          BY <5>2, ItemsFinite
        <5>4. Cardinality(Undone(it, s)) = Cardinality(Undone(it, t)) + 1
          BY <2>9, <4>2, <5>1, <5>3, FS_AddElement
        <5>5. /\ Size * Cardinality(Undone(it, s)) = Size + Size * Cardinality(Undone(it, t))
              /\ Size * Cardinality(Undone(it, t)) \in Int
          BY <2>5, <5>3, <5>4, TimesStep
        <5>6. q.queueSize = b.queueSize - Size * Cardinality(Undone(it, t)) BY <2>2
        <5>7. p.queueSize = q.queueSize - Size BY <2>7, <4>2
        <5> QED BY <2>5, <5>5, <5>6, <5>7
      <4> QED BY <4>1, <4>2
    <3> QED BY <3>1, <3>2
  <2>12. Counts(s, p)
    <3> SUFFICES ASSUME Done(it, S) \subseteq b.finishedFiles
                 PROVE  /\ p.size = b.size - Size * Cardinality(s)
                        /\ p.finished = b.finished - Bytes(it, s)
      OBVIOUS
    <3>1. /\ q.size = b.size - Size * Cardinality(t)
          /\ q.finished = b.finished - Bytes(it, t)
      BY <2>2
    <3>2. isDownloaded(it[i].status) => i \in q.finishedFiles
      <4>1. i \in S /\ i \notin Done(it, t) BY <2>1, <2>8 DEF Done
      <4>2. isDownloaded(it[i].status) => i \in b.finishedFiles BY <4>1 DEF Done
      <4> QED BY <2>2, <4>1, <4>2
    <3>3. p.size = q.size - Size /\ p.finished = q.finished - it[i].bytes BY <2>7, <3>2
    <3> QED BY <2>4, <2>5, <2>6, <3>1, <3>3
  <2> HIDE DEF Left, Sums, Counts
  <2>13. g[s] \in BundleRecords /\ Left(s, g[s]) /\ Sums(s, g[s]) /\ Counts(s, g[s])
    BY <2>7, <2>10, <2>11, <2>12 DEF p
  <2> QED BY <2>13
<1>3. S \in Z
  <2> HIDE DEF Z
  <2> QED BY <1>1, <1>2, ItemsFinite, FirstInduction
<1>4. r = g[S] BY <1>0
<1> QED BY <1>3, <1>4

-----------------------------------------------------------------------------
(* The types.                                                              *)

ItemOrNone == Items \cup {NoItem}
ReturnRecords == [pc : {"idle", "found", "whole", "emptied", "moved"}, item : ItemOrNone]
TaskRecords == [type : {"hooks", "pause", "check", "share", "shareAnyway"}, item : ItemOrNone]
RunRecords == [phase : {"none", "fileHook", "check", "failed", "completed", "revalidate",
                        "bundleHook", "sharing"},
               item : ItemOrNone]
RemoverRecords == [pc : {"idle", "removed", "empty"}, item : ItemOrNone]

\* The lists are lists of items.
ListTypes ==
  /\ fileQueue \in [Files -> 0..Gens] /\ made \in [Files -> 0..Gens]
  /\ item \in [Items -> ItemRecords]
  /\ bundle \in BundleRecords
  /\ users \in [Users -> UserRecords]
  /\ onDisk \subseteq Items

StateTypes == status \in Statuses /\ paused \in BOOLEAN /\ searched \in Nat

\* No item comes before it is made, no file is both queued and finished, and
\* what is finished has been downloaded.
Placed ==
  /\ \A f \in Files : fileQueue[f] <= made[f]
  /\ \A i \in bundle.queueItems \cup bundle.finishedFiles : i[2] <= made[i[1]]
  /\ bundle.queueItems \cap bundle.finishedFiles = {}
  /\ \A i \in bundle.finishedFiles : isDownloaded(item[i].status)

\* A connection has an item of its path that it will move only once.
ReturnsOf(f) ==
  LET i == dl[f].item IN
  dl[f].pc # "idle" =>
    /\ i \in Items /\ i[1] = f /\ i[2] <= made[f]
    /\ dl[f].pc \in {"found", "whole"} => i \notin bundle.finishedFiles
    /\ dl[f].pc = "whole" => isDownloaded(item[i].status)
Returned == dl \in [Files -> ReturnRecords] /\ \A f \in Files : ReturnsOf(f)

\* The other threads have an item where they use it.
Tasked ==
  /\ tasks \in Seq(TaskRecords)
  /\ \A n \in DOMAIN tasks : tasks[n].type = "hooks" => tasks[n].item \in Items
Running == task \in RunRecords /\ (task.phase = "fileHook" => task.item \in Items)
OtherThreads ==
  /\ remover \in RemoverRecords /\ setter \in ItemOrNone
  /\ remover.pc # "idle" => remover.item \in Items

Types ==
  ListTypes /\ StateTypes /\ Placed /\ Returned /\ Tasked /\ Running /\ OtherThreads

-----------------------------------------------------------------------------
(* Steps of the queue's tasks and of the items.                            *)

\* A task is added at the end.
LEMMA AppendTask ==
  ASSUME tasks \in Seq(TaskRecords), NEW t \in TaskRecords, tasks' = Append(tasks, t)
  PROVE  /\ tasks' \in Seq(TaskRecords)
         /\ \A n \in DOMAIN tasks : n \in DOMAIN tasks' /\ tasks'[n] = tasks[n]
         /\ \A n \in DOMAIN tasks' : n \in DOMAIN tasks \/ (n = Len(tasks) + 1 /\ tasks'[n] = t)
         /\ Len(tasks) + 1 \notin DOMAIN tasks
OBVIOUS

\* The first one is taken.
LEMMA TakeTask ==
  ASSUME tasks \in Seq(TaskRecords), tasks # << >>, tasks' = Tail(tasks)
  PROVE  /\ tasks' \in Seq(TaskRecords)
         /\ 1 \in DOMAIN tasks /\ Head(tasks) = tasks[1] /\ tasks[1] \in TaskRecords
         /\ \A n \in DOMAIN tasks' : /\ n + 1 \in DOMAIN tasks /\ tasks'[n] = tasks[n + 1]
                                     /\ n \in Nat /\ n + 1 # 1
OBVIOUS

\* An item that has changed.
WithStatus(it, i, s) == [it EXCEPT ![i].status = s]
WithBytes(it, i, n) == [it EXCEPT ![i].bytes = n]
WithSources(it, i, U) == [it EXCEPT ![i].sources = U]
WithPrio(it, i, p) == [it EXCEPT ![i].prio = p]
WithSegment(it, i, s) == [it EXCEPT ![i].bytes = it[i].bytes + 1, ![i].status = s]

\* One item gets another status.
LEMMA StatusIs ==
  ASSUME NEW it \in [Items -> ItemRecords], NEW i \in Items, NEW s \in ItemStatuses,
         NEW jt, jt = WithStatus(it, i, s)
  PROVE  /\ jt \in [Items -> ItemRecords]
         /\ jt[i].status = s /\ jt[i].bytes = it[i].bytes /\ jt[i].sources = it[i].sources
         /\ jt[i].prio = it[i].prio
         /\ \A j \in Items \ {i} : jt[j] = it[j]
<1>1. it[i] \in ItemRecords OBVIOUS
<1>2. [it[i] EXCEPT !.status = s] \in ItemRecords BY <1>1 DEF ItemRecords
<1>3. jt = [it EXCEPT ![i] = [it[i] EXCEPT !.status = s]] BY DEF WithStatus
<1>4. jt[i] = [it[i] EXCEPT !.status = s] /\ \A j \in Items \ {i} : jt[j] = it[j] BY <1>3
<1> QED BY <1>1, <1>2, <1>3, <1>4 DEF ItemRecords

\* ... other bytes,
LEMMA BytesIs ==
  ASSUME NEW it \in [Items -> ItemRecords], NEW i \in Items, NEW n \in 0..Size,
         NEW jt, jt = WithBytes(it, i, n)
  PROVE  /\ jt \in [Items -> ItemRecords]
         /\ jt[i].bytes = n /\ jt[i].status = it[i].status /\ jt[i].sources = it[i].sources
         /\ jt[i].prio = it[i].prio
         /\ \A j \in Items \ {i} : jt[j] = it[j]
<1>1. it[i] \in ItemRecords OBVIOUS
<1>2. [it[i] EXCEPT !.bytes = n] \in ItemRecords BY <1>1 DEF ItemRecords
<1>3. jt = [it EXCEPT ![i] = [it[i] EXCEPT !.bytes = n]] BY DEF WithBytes
<1>4. jt[i] = [it[i] EXCEPT !.bytes = n] /\ \A j \in Items \ {i} : jt[j] = it[j] BY <1>3
<1> QED BY <1>1, <1>2, <1>3, <1>4 DEF ItemRecords

\* ... other sources,
LEMMA SourcesIs ==
  ASSUME NEW it \in [Items -> ItemRecords], NEW i \in Items, NEW U \in SUBSET Users,
         NEW jt, jt = WithSources(it, i, U)
  PROVE  /\ jt \in [Items -> ItemRecords]
         /\ jt[i].sources = U /\ jt[i].status = it[i].status /\ jt[i].bytes = it[i].bytes
         /\ jt[i].prio = it[i].prio
         /\ \A j \in Items \ {i} : jt[j] = it[j]
<1>1. it[i] \in ItemRecords OBVIOUS
<1>2. [it[i] EXCEPT !.sources = U] \in ItemRecords BY <1>1 DEF ItemRecords
<1>3. jt = [it EXCEPT ![i] = [it[i] EXCEPT !.sources = U]] BY DEF WithSources
<1>4. jt[i] = [it[i] EXCEPT !.sources = U] /\ \A j \in Items \ {i} : jt[j] = it[j] BY <1>3
<1> QED BY <1>1, <1>2, <1>3, <1>4 DEF ItemRecords

\* ... or another priority.
LEMMA PrioIs ==
  ASSUME NEW it \in [Items -> ItemRecords], NEW i \in Items, NEW p \in Prios,
         NEW jt, jt = WithPrio(it, i, p)
  PROVE  /\ jt \in [Items -> ItemRecords]
         /\ jt[i].prio = p /\ jt[i].status = it[i].status /\ jt[i].bytes = it[i].bytes
         /\ jt[i].sources = it[i].sources
         /\ \A j \in Items \ {i} : jt[j] = it[j]
<1>1. it[i] \in ItemRecords OBVIOUS
<1>2. [it[i] EXCEPT !.prio = p] \in ItemRecords BY <1>1 DEF ItemRecords
<1>3. jt = [it EXCEPT ![i] = [it[i] EXCEPT !.prio = p]] BY DEF WithPrio
<1>4. jt[i] = [it[i] EXCEPT !.prio = p] /\ \A j \in Items \ {i} : jt[j] = it[j] BY <1>3
<1> QED BY <1>1, <1>2, <1>3, <1>4 DEF ItemRecords

\* A connection adds a segment.
LEMMA SegmentIs ==
  ASSUME NEW it \in [Items -> ItemRecords], NEW i \in Items, it[i].bytes < Size,
         NEW s \in ItemStatuses,
         NEW jt, jt = WithSegment(it, i, s)
  PROVE  /\ jt \in [Items -> ItemRecords]
         /\ jt[i].bytes = it[i].bytes + 1
         /\ jt[i].status = s
         /\ jt[i].sources = it[i].sources /\ jt[i].prio = it[i].prio
         /\ \A j \in Items \ {i} : jt[j] = it[j]
<1> DEFINE r == [it[i] EXCEPT !.bytes = it[i].bytes + 1, !.status = s]
<1>1. it[i] \in ItemRecords OBVIOUS
<1>0. it[i].bytes \in 0..Size /\ it[i].bytes + 1 \in 0..Size
  <2>1. it[i].bytes \in 0..Size BY <1>1 DEF ItemRecords
  <2> QED BY <2>1, Sizes
<1>6. jt[i] = r BY <1>1 DEF WithSegment, ItemRecords
<1>7. /\ DOMAIN jt = Items /\ \A j \in Items \ {i} : jt[j] = it[j]
      /\ jt = [j \in Items |-> jt[j]]
  BY DEF WithSegment
<1>2. r \in ItemRecords BY <1>0, <1>1 DEF ItemRecords
<1>8. r.bytes = it[i].bytes + 1 /\ r.status = s /\ r.sources = it[i].sources /\ r.prio = it[i].prio
  BY <1>1 DEF ItemRecords
<1> HIDE DEF r
<1>9. \A j \in Items : jt[j] \in ItemRecords BY <1>2, <1>6, <1>7
<1> QED BY <1>6, <1>7, <1>8, <1>9

\* The fields of an item.
LEMMA ItemFields ==
  ASSUME NEW it \in [Items -> ItemRecords], NEW i \in Items
  PROVE  /\ it[i].status \in ItemStatuses /\ it[i].bytes \in 0..Size /\ it[i].bytes \in Nat
         /\ it[i].sources \subseteq Users /\ it[i].prio \in Prios
<1>1. it[i] \in ItemRecords OBVIOUS
<1> QED BY <1>1, Sizes DEF ItemRecords

\* A file that is queued.
LEMMA QueuedIs ==
  ASSUME NEW U \in SUBSET Users
  PROVE  /\ Queued(U) \in ItemRecords /\ Queued(U).status = "QUEUED" /\ Queued(U).bytes = 0
         /\ Queued(U).sources = U /\ Queued(U).prio = "normal"
         /\ New \in ItemRecords
<1>1. 0 \in 0..Size BY Sizes
<1>2. New \in ItemRecords BY <1>1 DEF New, ItemRecords, ItemStatuses, Prios
<1>3. New.bytes = 0 /\ New.prio = "normal" BY DEF New
<1>4. Queued(U) = [New EXCEPT !.status = "QUEUED", !.sources = U] BY DEF Queued
<1>5. Queued(U) \in ItemRecords BY <1>2, <1>4 DEF ItemRecords, ItemStatuses
<1>6. /\ Queued(U).status = "QUEUED" /\ Queued(U).bytes = 0
      /\ Queued(U).sources = U /\ Queued(U).prio = "normal"
  BY <1>2, <1>3, <1>4 DEF ItemRecords
<1> QED BY <1>2, <1>5, <1>6

\* The item that a path has.
LEMMA CurrentIs ==
  ASSUME fileQueue \in [Files -> 0..Gens]
  PROVE  /\ Current \subseteq Items
         /\ \A f \in Files : fileQueue[f] # 0 <=> <<f, fileQueue[f]>> \in Current
         /\ \A f \in Files : fileQueue[f] # 0 <=> <<f, fileQueue[f]>> \in Items
         /\ \A i \in Items : i \in Current <=> fileQueue[i[1]] = i[2]
<1>1. \A f \in Files : fileQueue[f] \in 0..Gens /\ fileQueue[f] \in Nat BY Sizes
<1>2. \A i : i \in Current <=> \E f \in Files : fileQueue[f] # 0 /\ i = <<f, fileQueue[f]>>
  BY DEF Current
<1>3. \A f \in Files : fileQueue[f] # 0 <=> <<f, fileQueue[f]>> \in Items
  BY <1>1, Sizes DEF Items
<1>4. \A f \in Files : fileQueue[f] # 0 <=> <<f, fileQueue[f]>> \in Current
  BY <1>2
<1>5. \A i \in Items : i \in Current <=> fileQueue[i[1]] = i[2]
  BY <1>1, <1>2, ItemIs, Sizes
<1> QED BY <1>2, <1>3, <1>4, <1>5

\* A task is added at the end of the list,
LEMMA TaskAdded ==
  ASSUME Tasked, NEW type \in {"hooks", "pause", "check", "share", "shareAnyway"},
         NEW j \in ItemOrNone, type = "hooks" => j \in Items,
         tasks' = Append(tasks, Task(type, j))
  PROVE  Tasked'
<1>1. tasks \in Seq(TaskRecords) BY DEF Tasked
<1>2. Task(type, j) \in TaskRecords /\ Task(type, j).type = type /\ Task(type, j).item = j
  BY DEF Task, TaskRecords
<1>3. /\ tasks' \in Seq(TaskRecords)
      /\ \A n \in DOMAIN tasks : n \in DOMAIN tasks' /\ tasks'[n] = tasks[n]
      /\ \A n \in DOMAIN tasks' :
           n \in DOMAIN tasks \/ (n = Len(tasks) + 1 /\ tasks'[n] = Task(type, j))
  BY <1>1, <1>2, AppendTask
<1> QED BY <1>2, <1>3 DEF Tasked

\* taken from its head to be run,
LEMMA TaskTaken ==
  ASSUME Tasked, NEW type, Starts(type)
  PROVE  Tasked' /\ Head(tasks) \in TaskRecords /\ (type = "hooks" => Head(tasks).item \in Items)
<1>1. tasks \in Seq(TaskRecords) /\ tasks # << >> /\ tasks' = Tail(tasks) /\ Head(tasks).type = type
  BY DEF Tasked, Starts
<1>2. /\ tasks' \in Seq(TaskRecords)
      /\ 1 \in DOMAIN tasks /\ Head(tasks) = tasks[1] /\ tasks[1] \in TaskRecords
      /\ \A n \in DOMAIN tasks' : n + 1 \in DOMAIN tasks /\ tasks'[n] = tasks[n + 1]
  BY <1>1, TakeTask
<1> QED BY <1>1, <1>2 DEF Tasked

\* ended,
LEMMA TaskEnded == ASSUME ends PROVE Running'
<1>1. task' = [phase |-> "none", item |-> NoItem] BY DEF ends, NoTask
<1> QED BY <1>1 DEF Running, RunRecords, ItemOrNone

\* or goes on.
LEMMA TaskWent ==
  ASSUME Running, goes("check") \/ goes("failed") \/ goes("completed") \/ goes("revalidate")
                 \/ goes("bundleHook") \/ goes("sharing")
  PROVE  Running'
BY DEF Running, goes, RunRecords

\* Nothing moves, and what is downloaded stays so.
LEMMA ListsKept ==
  ASSUME Types, UNCHANGED <<fileQueue, made, bundle, users>>, onDisk' \subseteq Items,
         item' \in [Items -> ItemRecords],
         \A i \in Items : isDownloaded(item[i].status) => isDownloaded(item'[i].status)
  PROVE  ListTypes' /\ Placed' /\ (UNCHANGED dl => Returned')
<1>1. ListTypes' BY DEF Types, ListTypes
<1>2. Placed'
  <2>1. bundle.finishedFiles \subseteq Items BY BundleFields DEF Types, ListTypes
  <2> QED BY <2>1 DEF Types, Placed
<1>3. ASSUME UNCHANGED dl PROVE Returned'
  BY <1>3 DEF Types, Returned, ReturnsOf
<1> QED BY <1>1, <1>2, <1>3

\* The lists stay.
LEMMA ListsSame ==
  ASSUME Types, UNCHANGED lists
  PROVE  ListTypes' /\ Placed' /\ (UNCHANGED dl => Returned')
<1>1. UNCHANGED <<fileQueue, made, bundle, users, item, onDisk>> BY DEF lists
<1>2. onDisk' \subseteq Items /\ item' \in [Items -> ItemRecords] BY <1>1 DEF Types, ListTypes
<1>3. \A i \in Items : isDownloaded(item[i].status) => isDownloaded(item'[i].status) BY <1>1
<1> QED BY <1>1, <1>2, <1>3, ListsKept

\* One connection goes on.
LEMMA ReturnGoes ==
  ASSUME Types, NEW f \in Files, dl' \in [Files -> ReturnRecords],
         \A g \in Files \ {f} : dl'[g] = dl[g],
         UNCHANGED made,
         \A j \in Items : j[1] # f /\ j \in bundle'.finishedFiles => j \in bundle.finishedFiles,
         \A j \in Items : j[1] # f => item'[j] = item[j],
         ReturnsOf(f)'
  PROVE  Returned'
<1>1. ASSUME NEW g \in Files \ {f} PROVE ReturnsOf(g)'
  <2>1. ReturnsOf(g) BY DEF Types, Returned
  <2> QED BY <2>1 DEF ReturnsOf
<1> QED BY <1>1 DEF Returned

\* What a connection may have.
LEMMA ReturnKinds ==
  /\ NoReturn \in ReturnRecords /\ NoReturn.pc = "idle"
  /\ \A i \in Items, pc \in {"found", "whole", "emptied", "moved"} :
       /\ [pc |-> pc, item |-> i] \in ReturnRecords
       /\ [pc |-> pc, item |-> i].pc = pc /\ [pc |-> pc, item |-> i].item = i
  /\ \A r \in ReturnRecords : r = [pc |-> r.pc, item |-> r.item]
BY DEF NoReturn, ReturnRecords, ItemOrNone

-----------------------------------------------------------------------------
\* The segment's path is looked up.
LEMMA PutTypes ==
  ASSUME Types, NEW f \in Files, putDownload(f)
  PROVE  Types'
<1>1. UNCHANGED lists /\ UNCHANGED state /\ UNCHANGED <<tasks, task, remover, setter>>
  BY DEF putDownload
<1>2. ListTypes' /\ Placed' BY <1>1, ListsSame
<1>3. StateTypes' /\ Tasked' /\ Running' /\ OtherThreads'
  BY <1>1 DEF Types, StateTypes, Tasked, Running, OtherThreads, state
<1>4. Returned'
  <2> DEFINE i == <<f, fileQueue[f]>>
             r == [pc |-> "found", item |-> i]
  <2>1. dl' = [dl EXCEPT ![f] = r] /\ fileQueue[f] # 0 /\ item[i].status = "QUEUED"
    BY DEF putDownload
  <2>2. i \in Items /\ i[1] = f /\ i[2] <= made[f]
    BY <2>1, CurrentIs DEF Types, ListTypes, Placed
  <2>3. i \notin bundle.finishedFiles BY <2>1 DEF Types, Placed, isDownloaded
  <2> HIDE DEF i
  <2>4. r \in ReturnRecords /\ r.pc = "found" /\ r.item = i BY <2>2, ReturnKinds
  <2>7. UNCHANGED <<made, bundle, item>> BY <1>1 DEF lists
  <2> HIDE DEF r
  <2>8. dl' \in [Files -> ReturnRecords] /\ dl'[f] = r /\ \A g \in Files \ {f} : dl'[g] = dl[g]
    BY <2>1, <2>4 DEF Types, Returned
  <2>9. ReturnsOf(f)' BY <2>2, <2>3, <2>4, <2>7, <2>8 DEF ReturnsOf
  <2> QED BY <2>7, <2>8, <2>9, ReturnGoes
<1> QED BY <1>2, <1>3, <1>4 DEF Types

\* A segment is added to the file it was asked for.
LEMMA CompletedIs ==
  ASSUME Types, NEW f \in Files, onFileDownloadCompleted(f), NEW i, i = dl[f].item
  PROVE  /\ dl[f].pc = "found" /\ i \in Items /\ i[1] = f /\ i[2] <= made[f]
         /\ i \notin bundle.finishedFiles /\ item[i].bytes < Size
         /\ item' \in [Items -> ItemRecords] /\ \A j \in Items \ {i} : item'[j] = item[j]
         /\ item'[i].bytes = item[i].bytes + 1 /\ item'[i].sources = item[i].sources
         /\ item'[i].prio = item[i].prio
         /\ bundle' \in BundleRecords
         /\ bundle'.queueItems = bundle.queueItems
         /\ bundle'.finishedFiles = bundle.finishedFiles
         /\ bundle'.size = bundle.size /\ bundle'.finished = bundle.finished + 1
         /\ bundle'.queueSize = bundle.queueSize /\ bundle'.pathSize = bundle.pathSize
         /\ dl' \in [Files -> ReturnRecords] /\ \A g \in Files \ {f} : dl'[g] = dl[g]
         /\ \/ /\ item'[i].status = "DOWNLOADED"
               /\ users' = RemoveQI(users, item, i, item[i].sources)
               /\ item[i].bytes + 1 = Size
               /\ dl'[f].pc = "whole" /\ dl'[f].item = i
            \/ /\ item'[i].status = item[i].status /\ UNCHANGED users
               /\ item[i].bytes + 1 # Size
               /\ dl'[f].pc = "idle" /\ dl'[f].item = NoItem
<1> DEFINE whole == item[i].bytes + 1 = Size
<1>1. dl[f].pc = "found" /\ item[i].bytes < Size BY DEF onFileDownloadCompleted
<1>2. i \in Items /\ i[1] = f /\ i[2] <= made[f] /\ i \notin bundle.finishedFiles
  BY <1>1 DEF Types, Returned, ReturnsOf
<1> DEFINE s == IF whole THEN "DOWNLOADED" ELSE item[i].status
<1>3. item' = WithSegment(item, i, s)
  BY DEF onFileDownloadCompleted, WithSegment
<1>4. item \in [Items -> ItemRecords] /\ bundle \in BundleRecords BY DEF Types, ListTypes
<1>5. /\ item' \in [Items -> ItemRecords]
      /\ item'[i].bytes = item[i].bytes + 1
      /\ item'[i].status = IF whole THEN "DOWNLOADED" ELSE item[i].status
      /\ item'[i].sources = item[i].sources /\ item'[i].prio = item[i].prio
      /\ \A j \in Items \ {i} : item'[j] = item[j]
  <2>0. item[i].status \in ItemStatuses BY <1>2, <1>4, ItemFields
  <2>1. s \in ItemStatuses BY <2>0 DEF ItemStatuses
  <2>2. s = IF whole THEN "DOWNLOADED" ELSE item[i].status OBVIOUS
  <2> HIDE DEF s, whole
  <2>3. /\ item' \in [Items -> ItemRecords]
        /\ item'[i].bytes = item[i].bytes + 1
        /\ item'[i].status = s
        /\ item'[i].sources = item[i].sources /\ item'[i].prio = item[i].prio
        /\ \A j \in Items \ {i} : item'[j] = item[j]
    BY <1>1, <1>2, <1>3, <1>4, <2>1, SegmentIs
  <2> QED BY <2>2, <2>3
<1>6. /\ bundle' \in BundleRecords
      /\ bundle'.queueItems = bundle.queueItems
      /\ bundle'.finishedFiles = bundle.finishedFiles
      /\ bundle'.size = bundle.size /\ bundle'.finished = bundle.finished + 1
      /\ bundle'.queueSize = bundle.queueSize /\ bundle'.pathSize = bundle.pathSize
  <2>1. bundle' = [bundle EXCEPT !.finished = bundle.finished + 1]
    BY <1>4 DEF onFileDownloadCompleted, BundleRecords
  <2>2. bundle.finished + 1 \in Int BY <1>4, BundleFields
  <2>3. bundle' \in BundleRecords BY <1>4, <2>1, <2>2 DEF BundleRecords
  <2> QED BY <1>4, <2>1, <2>3 DEF BundleRecords
<1>7. dl[f] \in ReturnRecords /\ dl[f] = [pc |-> "found", item |-> i]
  BY <1>1, ReturnKinds DEF Types, Returned
<1>8. /\ users' = IF whole THEN RemoveQI(users, item, i, item[i].sources) ELSE users
      /\ dl' = [dl EXCEPT ![f] = IF whole THEN [dl[f] EXCEPT !.pc = "whole"] ELSE NoReturn]
  BY DEF onFileDownloadCompleted
<1>9. [dl[f] EXCEPT !.pc = "whole"] = [pc |-> "whole", item |-> i] BY <1>7
<1>10. dl' = [dl EXCEPT ![f] = IF whole THEN [pc |-> "whole", item |-> i] ELSE NoReturn]
  BY <1>8, <1>9
<1> DEFINE r == IF whole THEN [pc |-> "whole", item |-> i] ELSE NoReturn
<1>11. /\ r \in ReturnRecords
       /\ whole => r.pc = "whole" /\ r.item = i
       /\ ~whole => r.pc = "idle" /\ r.item = NoItem
  BY <1>2, ReturnKinds DEF NoReturn
<1>12. dl \in [Files -> ReturnRecords] BY DEF Types, Returned
<1> HIDE DEF r
<1>13. dl' = [dl EXCEPT ![f] = r] BY <1>10 DEF r
<1>14. /\ dl' \in [Files -> ReturnRecords] /\ dl'[f] = r
       /\ \A g \in Files \ {f} : dl'[g] = dl[g]
  BY <1>11, <1>12, <1>13
<1> QED BY <1>1, <1>2, <1>5, <1>6, <1>8, <1>11, <1>14

\* The types hold after it.
LEMMA CompletedTypes ==
  ASSUME Types, NEW f \in Files, onFileDownloadCompleted(f)
  PROVE  Types'
<1>0. PICK i : i = dl[f].item OBVIOUS
<1>1. UNCHANGED <<fileQueue, made, onDisk, state, tasks, task, remover, setter>>
  BY DEF onFileDownloadCompleted
<1>2. /\ i \in Items /\ i[1] = f /\ i[2] <= made[f] /\ i \notin bundle.finishedFiles
      /\ item' \in [Items -> ItemRecords] /\ \A j \in Items \ {i} : item'[j] = item[j]
      /\ bundle' \in BundleRecords
      /\ bundle'.queueItems = bundle.queueItems
      /\ bundle'.finishedFiles = bundle.finishedFiles
      /\ dl' \in [Files -> ReturnRecords] /\ \A g \in Files \ {f} : dl'[g] = dl[g]
  BY <1>0, CompletedIs
<1>3. \/ /\ item'[i].status = "DOWNLOADED"
         /\ users' = RemoveQI(users, item, i, item[i].sources)
         /\ dl'[f].pc = "whole" /\ dl'[f].item = i
      \/ UNCHANGED users /\ dl'[f].pc = "idle"
  BY <1>0, CompletedIs
<1>4. ListTypes'
  <2>1. users' \in [Users -> UserRecords] BY <1>2, <1>3, UserTypes DEF Types, ListTypes
  <2> QED BY <1>1, <1>2, <2>1 DEF Types, ListTypes
<1>5. Placed'
  <2>1. bundle.finishedFiles \subseteq Items BY BundleFields DEF Types, ListTypes
  <2> QED BY <1>1, <1>2, <2>1 DEF Types, Placed
<1>6. Returned'
  <2>1. \A j \in Items : j[1] # f => item'[j] = item[j] BY <1>2
  <2>2. ReturnsOf(f)' BY <1>1, <1>2, <1>3 DEF ReturnsOf, isDownloaded
  <2> QED BY <1>1, <1>2, <2>1, <2>2, ReturnGoes
<1>7. StateTypes' /\ Tasked' /\ Running' /\ OtherThreads'
  BY <1>1 DEF Types, StateTypes, Tasked, Running, OtherThreads, state
<1> QED BY <1>4, <1>5, <1>6, <1>7 DEF Types

\* The file moves to the finished ones.
LEMMA MovesIs ==
  ASSUME Types, NEW f \in Files, MovesItem(f), NEW i, i = dl[f].item
  PROVE  /\ dl[f].pc = "whole" /\ i \in Items /\ i[1] = f /\ i[2] <= made[f]
         /\ i \notin bundle.finishedFiles /\ isDownloaded(item[i].status)
         /\ bundle' \in BundleRecords
         /\ bundle'.queueItems = bundle.queueItems \ {i}
         /\ bundle'.finishedFiles = bundle.finishedFiles \cup {i}
         /\ bundle'.size = bundle.size /\ bundle'.finished = bundle.finished
         /\ bundle'.queueSize = bundle.queueSize - Size /\ bundle'.pathSize = bundle.pathSize
         /\ dl' \in [Files -> ReturnRecords] /\ \A g \in Files \ {f} : dl'[g] = dl[g]
         /\ dl'[f].pc = IF bundle'.queueItems = {} THEN "emptied" ELSE "moved"
         /\ dl'[f].item = i
         /\ searched' = IF bundle'.queueItems = {} /\ ~paused THEN 0 ELSE searched
<1>1. dl[f].pc = "whole" BY DEF MovesItem
<1>2. /\ i \in Items /\ i[1] = f /\ i[2] <= made[f] /\ i \notin bundle.finishedFiles
      /\ isDownloaded(item[i].status)
  BY <1>1 DEF Types, Returned, ReturnsOf
<1>3. bundle' = BundleFinish(bundle, item, i) BY DEF MovesItem
<1>4. item \in [Items -> ItemRecords] /\ bundle \in BundleRecords BY DEF Types, ListTypes
<1>5. /\ bundle' \in BundleRecords
      /\ bundle'.queueItems = bundle.queueItems \ {i}
      /\ bundle'.finishedFiles = bundle.finishedFiles \cup {i}
      /\ bundle'.size = bundle.size /\ bundle'.finished = bundle.finished
      /\ bundle'.pathSize = bundle.pathSize
      /\ bundle'.queueSize = bundle.queueSize - Size
  BY <1>2, <1>3, <1>4, FinishIs
<1>6. /\ searched' = IF bundle'.queueItems = {} /\ ~paused THEN 0 ELSE searched
      /\ dl' = [dl EXCEPT ![f].pc = IF bundle'.queueItems = {} THEN "emptied" ELSE "moved"]
  BY <1>3 DEF MovesItem, removeSearchPrio
<1> DEFINE pc == IF bundle'.queueItems = {} THEN "emptied" ELSE "moved"
           r == [pc |-> pc, item |-> i]
<1>7. pc \in {"emptied", "moved"} /\ (pc = "emptied" <=> bundle'.queueItems = {}) OBVIOUS
<1>8. dl[f] \in ReturnRecords /\ dl[f] = [pc |-> "whole", item |-> i]
  BY <1>1, ReturnKinds DEF Types, Returned
<1> HIDE DEF pc
<1>9. [dl[f] EXCEPT !.pc = pc] = r BY <1>8
<1>10. dl' = [dl EXCEPT ![f] = r]
  <2>1. dl' = [dl EXCEPT ![f] = [dl[f] EXCEPT !.pc = pc]]
    BY <1>6 DEF pc
  <2> QED BY <1>9, <2>1
<1> HIDE DEF r
<1>11. r \in ReturnRecords /\ r.pc = pc /\ r.item = i BY <1>2, <1>7, ReturnKinds DEF r
<1>12. dl \in [Files -> ReturnRecords] BY DEF Types, Returned
<1>13. /\ dl' \in [Files -> ReturnRecords] /\ dl'[f] = r
       /\ \A g \in Files \ {f} : dl'[g] = dl[g]
  BY <1>10, <1>11, <1>12
<1>14. pc = IF bundle'.queueItems = {} THEN "emptied" ELSE "moved" BY DEF pc
<1> QED BY <1>1, <1>2, <1>5, <1>6, <1>11, <1>13, <1>14

\* The types hold after the move,
LEMMA MovesTypes ==
  ASSUME Types, NEW f \in Files, MovesItem(f)
  PROVE  Types'
<1>0. PICK i : i = dl[f].item OBVIOUS
<1>1. UNCHANGED <<fileQueue, made, item, users, onDisk, status, paused, tasks, task,
                 remover, setter>>
  BY DEF MovesItem
<1>2. /\ i \in Items /\ i[1] = f /\ i[2] <= made[f] /\ isDownloaded(item[i].status)
      /\ bundle' \in BundleRecords
      /\ bundle'.queueItems = bundle.queueItems \ {i}
      /\ bundle'.finishedFiles = bundle.finishedFiles \cup {i}
      /\ searched' = IF bundle'.queueItems = {} /\ ~paused THEN 0 ELSE searched
  BY <1>0, MovesIs
<1>3. /\ dl' \in [Files -> ReturnRecords] /\ \A g \in Files \ {f} : dl'[g] = dl[g]
      /\ dl'[f].pc \in {"emptied", "moved"} /\ dl'[f].item = i
  BY <1>0, MovesIs
<1>4. ListTypes' BY <1>1, <1>2 DEF Types, ListTypes
<1>5. Placed' BY <1>1, <1>2 DEF Types, Placed
<1>6. Returned'
  <2>1. ReturnsOf(f)' BY <1>1, <1>2, <1>3 DEF ReturnsOf
  <2> QED BY <1>1, <1>2, <1>3, <2>1, ReturnGoes
<1>7. StateTypes'
  BY <1>1, <1>2 DEF Types, StateTypes
<1>8. Tasked' /\ Running' /\ OtherThreads'
  BY <1>1 DEF Types, Tasked, Running, OtherThreads
<1> QED BY <1>4, <1>5, <1>6, <1>7, <1>8 DEF Types

\* after the bundle is finished,
LEMMA FinishesTypes ==
  ASSUME Types, NEW f \in Files, FinishesBundle(f)
  PROVE  Types'
<1>1. UNCHANGED lists /\ UNCHANGED <<paused, searched, tasks, task, remover, setter>>
      /\ status' = "DOWNLOADED" /\ dl[f].pc = "emptied"
      /\ dl' = [dl EXCEPT ![f].pc = "moved"]
  BY DEF FinishesBundle, Finishes
<1>2. ListTypes' /\ Placed' BY <1>1, ListsSame
<1>3. StateTypes' /\ Tasked' /\ Running' /\ OtherThreads'
  BY <1>1 DEF Types, StateTypes, Tasked, Running, OtherThreads, Statuses
<1>4. Returned'
  <2> DEFINE r == [dl[f] EXCEPT !.pc = "moved"]
  <2>1. dl[f] \in ReturnRecords /\ dl \in [Files -> ReturnRecords] BY DEF Types, Returned
  <2>2. r \in ReturnRecords /\ r.pc = "moved" /\ r.item = dl[f].item
    BY <2>1 DEF ReturnRecords
  <2>3. dl' = [dl EXCEPT ![f] = r] BY <1>1
  <2> HIDE DEF r
  <2>4. dl' \in [Files -> ReturnRecords] /\ dl'[f] = r /\ \A g \in Files \ {f} : dl'[g] = dl[g]
    BY <2>1, <2>2, <2>3
  <2>5. UNCHANGED <<made, bundle, item>> BY <1>1 DEF lists
  <2>6. ReturnsOf(f)' BY <1>1, <2>2, <2>4, <2>5 DEF Types, Returned, ReturnsOf
  <2> QED BY <2>4, <2>5, <2>6, ReturnGoes
<1> QED BY <1>2, <1>3, <1>4 DEF Types

\* and after the file is renamed.
LEMMA RenameTypes ==
  ASSUME Types, NEW f \in Files, renameDownloadedFile(f)
  PROVE  Types'
<1>1. UNCHANGED <<fileQueue, made, item, bundle, users, status, paused, searched, task, remover,
                  setter>>
      /\ onDisk' = onDisk \cup {dl[f].item}
      /\ tasks' = Append(tasks, Task("hooks", dl[f].item))
      /\ dl[f].pc = "moved" /\ dl' = [dl EXCEPT ![f] = NoReturn]
  BY DEF renameDownloadedFile, state
<1>2. dl[f].item \in Items BY <1>1 DEF Types, Returned, ReturnsOf
<1>3. ListTypes' /\ Placed'
  <2>1. onDisk' \subseteq Items BY <1>1, <1>2 DEF Types, ListTypes
  <2>2. item' \in [Items -> ItemRecords] /\ UNCHANGED item BY <1>1 DEF Types, ListTypes
  <2> QED BY <1>1, <2>1, <2>2, ListsKept
<1>4. StateTypes' /\ Running' /\ OtherThreads'
  BY <1>1 DEF Types, StateTypes, Running, OtherThreads
<1>5. Tasked' BY <1>1, <1>2, TaskAdded DEF Types, ItemOrNone
<1>6. Returned'
  <2>1. dl \in [Files -> ReturnRecords] BY DEF Types, Returned
  <2>2. /\ dl' \in [Files -> ReturnRecords] /\ dl'[f] = NoReturn
        /\ \A g \in Files \ {f} : dl'[g] = dl[g]
    BY <1>1, <2>1, ReturnKinds
  <2>3. ReturnsOf(f)' BY <2>2, ReturnKinds DEF ReturnsOf
  <2> QED BY <1>1, <2>2, <2>3, ReturnGoes
<1> QED BY <1>3, <1>4, <1>5, <1>6 DEF Types

\* The priority changes.
LEMMA PriorityIs ==
  ASSUME StateTypes, \E p \in BOOLEAN : SetPriority(p)
  PROVE  paused' \in BOOLEAN /\ searched' \in Nat
<1>0. PICK p \in BOOLEAN : SetPriority(p) OBVIOUS
<1>1. \/ UNCHANGED <<paused, searched>>
      \/ paused' = p /\ searched' = IF p THEN 0 ELSE searched + 1
  BY <1>0 DEF SetPriority
<1> QED BY <1>1 DEF StateTypes

\* What happens to the status, the priority and the other threads only.
LEMMA StatusTypes ==
  ASSUME Types, UNCHANGED <<lists, threads>>, StateTypes'
  PROVE  Types'
<1>1. UNCHANGED lists /\ UNCHANGED <<dl, tasks, task, remover, setter>> BY DEF threads
<1>2. ListTypes' /\ Placed' /\ Returned' BY <1>1, ListsSame
<1> QED BY <1>1, <1>2 DEF Types, Tasked, Running, OtherThreads

\* A disk error, and room on the disk again.
LEMMA ErrorTypes ==
  ASSUME Types, onDownloadError \/ SetsError \/ checkDiskSpace \/ checkResumeBundles
  PROVE  Types'
<1>1. UNCHANGED lists /\ UNCHANGED <<dl, task, remover, setter>>
  BY DEF onDownloadError, SetsError, checkDiskSpace, checkResumeBundles, threads
<1>2. ListTypes' /\ Placed' /\ Returned' BY <1>1, ListsSame
<1>3. Running' /\ OtherThreads' BY <1>1 DEF Types, Running, OtherThreads
<1>4. Tasked'
  <2>1. UNCHANGED tasks \/ tasks' = Append(tasks, Task("pause", NoItem))
    BY DEF onDownloadError, SetsError, checkDiskSpace, checkResumeBundles, threads
  <2>2. CASE UNCHANGED tasks BY <2>2 DEF Types, Tasked
  <2>3. CASE tasks' = Append(tasks, Task("pause", NoItem))
    BY <2>3, TaskAdded DEF Types, ItemOrNone
  <2> QED BY <2>1, <2>2, <2>3
<1>5. StateTypes'
  <2>1. CASE onDownloadError BY <2>1 DEF onDownloadError, state, Types, StateTypes
  <2>2. CASE SetsError BY <2>2 DEF SetsError, Types, StateTypes, Statuses
  <2>3. CASE checkDiskSpace BY <2>3 DEF checkDiskSpace, Types, StateTypes, Statuses
  <2>4. CASE checkResumeBundles
    <3>1. status' = "QUEUED" BY <2>4 DEF checkResumeBundles
    <3>2. UNCHANGED <<paused, searched>> \/ SetPriority(FALSE)
      BY <2>4, Zenon DEF checkResumeBundles
    <3>3. UNCHANGED <<paused, searched>> \/ \E p \in BOOLEAN : SetPriority(p) BY <3>2, Zenon
    <3> QED BY <3>1, <3>3, PriorityIs DEF Types, StateTypes, Statuses
  <2> QED BY <2>1, <2>2, <2>3, <2>4
<1> QED BY <1>2, <1>3, <1>4, <1>5 DEF Types

\* The bundle is paused,
LEMMA PauseTypes ==
  ASSUME Types, PauseTask
  PROVE  Types'
<1>1. UNCHANGED lists /\ UNCHANGED <<status, dl, task, remover, setter>> /\ Starts("pause")
  BY DEF PauseTask
<1>2. ListTypes' /\ Placed' /\ Returned' BY <1>1, ListsSame
<1>3. Running' /\ OtherThreads' BY <1>1 DEF Types, Running, OtherThreads
<1>4. Tasked' BY <1>1, TaskTaken DEF Types
<1>5. StateTypes'
  <2>1. UNCHANGED <<paused, searched>> \/ SetPriority(TRUE) BY Zenon DEF PauseTask
  <2>2. UNCHANGED <<paused, searched>> \/ \E p \in BOOLEAN : SetPriority(p) BY <2>1, Zenon
  <2> QED BY <1>1, <2>2, PriorityIs DEF Types, StateTypes
<1> QED BY <1>2, <1>3, <1>4, <1>5 DEF Types

\* gets another priority,
LEMMA SetPriorityTypes ==
  ASSUME Types, NEW p \in BOOLEAN, setBundlePriority(p)
  PROVE  Types'
<1>1. UNCHANGED <<lists, threads>> /\ UNCHANGED status /\ SetPriority(p) BY DEF setBundlePriority
<1>2. StateTypes' BY <1>1, PriorityIs DEF Types, StateTypes
<1> QED BY <1>1, <1>2, StatusTypes

\* or is to be shared.
LEMMA ShareTypes ==
  ASSUME Types, NEW skip \in BOOLEAN, shareBundle(skip)
  PROVE  Types'
<1>1. UNCHANGED lists /\ UNCHANGED state /\ UNCHANGED <<dl, task, remover, setter>>
  BY DEF shareBundle
<1>2. ListTypes' /\ Placed' /\ Returned' BY <1>1, ListsSame
<1>3. Running' /\ OtherThreads' /\ StateTypes'
  BY <1>1 DEF Types, Running, OtherThreads, StateTypes, state
<1>4. Tasked'
  <2> DEFINE type == IF skip THEN "shareAnyway" ELSE "share"
  <2>1. type \in {"share", "shareAnyway"} /\ type # "hooks" OBVIOUS
  <2>2. tasks' = Append(tasks, Task(type, NoItem)) BY DEF shareBundle
  <2> HIDE DEF type
  <2>3. NoItem \in ItemOrNone BY DEF ItemOrNone
  <2> QED BY <2>1, <2>2, <2>3, TaskAdded DEF Types
<1> QED BY <1>2, <1>3, <1>4 DEF Types

\* The refresh, the delayed check and the look at a file.
LEMMA OtherTypes ==
  ASSUME Types, \/ RefreshCompleted \/ SetsShared \/ DelayedCheck
                \/ \E i \in Items : setQIPriority(i)
  PROVE  Types'
<1>1. UNCHANGED lists /\ UNCHANGED <<dl, task, remover>>
  BY DEF RefreshCompleted, SetsShared, DelayedCheck, setQIPriority, state
<1>2. ListTypes' /\ Placed' /\ Returned' BY <1>1, ListsSame
<1>3. Running' BY <1>1 DEF Types, Running
<1>4. OtherThreads'
  <2>1. UNCHANGED setter \/ setter' \in Items
    BY DEF RefreshCompleted, SetsShared, DelayedCheck, setQIPriority
  <2> QED BY <1>1, <2>1 DEF Types, OtherThreads, ItemOrNone
<1>5. StateTypes'
  <2>1. UNCHANGED <<paused, searched>> /\ status' \in {status, "SHARED"}
    BY DEF RefreshCompleted, SetsShared, DelayedCheck, setQIPriority, state
  <2> QED BY <2>1 DEF Types, StateTypes, Statuses
<1>6. Tasked'
  <2>1. UNCHANGED tasks \/ tasks' = Append(tasks, Task("check", NoItem))
    BY DEF RefreshCompleted, SetsShared, DelayedCheck, setQIPriority, state
  <2>2. CASE UNCHANGED tasks BY <2>2 DEF Types, Tasked
  <2>3. CASE tasks' = Append(tasks, Task("check", NoItem))
    BY <2>3, TaskAdded DEF Types, ItemOrNone
  <2> QED BY <2>1, <2>2, <2>3
<1> QED BY <1>2, <1>3, <1>4, <1>5, <1>6 DEF Types

-----------------------------------------------------------------------------
\* The hooks of a file begin,
LEMMA FileHookIs ==
  ASSUME Types, FileHook, NEW i, i = Head(tasks).item
  PROVE  /\ Starts("hooks") /\ tasks # << >> /\ tasks' = Tail(tasks)
         /\ Head(tasks) = tasks[1] /\ tasks[1].type = "hooks" /\ 1 \in DOMAIN tasks
         /\ i \in Items /\ item' \in [Items -> ItemRecords]
         /\ item'[i].status = "VALIDATION_RUNNING" /\ item'[i].bytes = item[i].bytes
         /\ item'[i].sources = item[i].sources /\ item'[i].prio = item[i].prio
         /\ \A j \in Items \ {i} : item'[j] = item[j]
         /\ task'.phase = "fileHook" /\ task'.item = i /\ task' \in RunRecords
<1>1. Starts("hooks") /\ tasks # << >> /\ tasks' = Tail(tasks) /\ Head(tasks).type = "hooks"
  BY DEF FileHook, Starts
<1>2. tasks \in Seq(TaskRecords) BY DEF Types, Tasked
<1>3. Head(tasks) = tasks[1] /\ 1 \in DOMAIN tasks BY <1>1, <1>2
<1>4. i \in Items BY <1>1, <1>3 DEF Types, Tasked
<1>5. item' = WithStatus(item, i, "VALIDATION_RUNNING") BY DEF FileHook, WithStatus
<1>6. item \in [Items -> ItemRecords] /\ "VALIDATION_RUNNING" \in ItemStatuses
  BY DEF Types, ListTypes, ItemStatuses
<1>7. /\ item' \in [Items -> ItemRecords]
      /\ item'[i].status = "VALIDATION_RUNNING" /\ item'[i].bytes = item[i].bytes
      /\ item'[i].sources = item[i].sources /\ item'[i].prio = item[i].prio
      /\ \A j \in Items \ {i} : item'[j] = item[j]
  BY <1>4, <1>5, <1>6, StatusIs
<1>8. task' = [phase |-> "fileHook", item |-> i] BY DEF FileHook
<1>9. task'.phase = "fileHook" /\ task'.item = i /\ task' \in RunRecords
  BY <1>4, <1>8 DEF RunRecords, ItemOrNone
<1> QED BY <1>1, <1>3, <1>4, <1>7, <1>9

\* with the types kept,
LEMMA FileHookTypes ==
  ASSUME Types, FileHook
  PROVE  Types'
<1>0. PICK i : i = Head(tasks).item OBVIOUS
<1>1. /\ Starts("hooks") /\ i \in Items /\ item' \in [Items -> ItemRecords]
      /\ item'[i].status = "VALIDATION_RUNNING"
      /\ \A j \in Items \ {i} : item'[j] = item[j]
      /\ task'.phase = "fileHook" /\ task'.item = i /\ task' \in RunRecords
  BY <1>0, FileHookIs
<1>2. UNCHANGED <<fileQueue, made, bundle, users, onDisk, state, dl, remover, setter>>
  BY DEF FileHook
<1>3. \A j \in Items : isDownloaded(item[j].status) => isDownloaded(item'[j].status)
  BY <1>1 DEF isDownloaded
<1>4. ListTypes' /\ Placed' /\ Returned'
  <2>1. onDisk' \subseteq Items BY <1>2 DEF Types, ListTypes
  <2> QED BY <1>1, <1>2, <1>3, <2>1, ListsKept
<1>5. Tasked' BY <1>1, TaskTaken DEF Types
<1>6. Running' BY <1>1 DEF Running
<1>7. StateTypes' /\ OtherThreads' BY <1>2 DEF Types, StateTypes, OtherThreads, state
<1> QED BY <1>4, <1>5, <1>6, <1>7 DEF Types

\* and accept or reject it,
LEMMA HookDoneIs ==
  ASSUME Types, FileHookDone, NEW i, i = task.item
  PROVE  /\ task.phase = "fileHook" /\ UNCHANGED tasks
         /\ i \in Items /\ item' \in [Items -> ItemRecords]
         /\ item'[i].status \in {"COMPLETED", "VALIDATION_ERROR"}
         /\ item'[i].bytes = item[i].bytes
         /\ item'[i].sources = item[i].sources /\ item'[i].prio = item[i].prio
         /\ \A j \in Items \ {i} : item'[j] = item[j]
         /\ ends \/ goes("check")
<1>1. task.phase = "fileHook" /\ UNCHANGED tasks /\ (ends \/ goes("check"))
  BY DEF FileHookDone, Runs
<1>2. i \in Items BY <1>1 DEF Types, Running
<1>3. PICK v \in Verdicts(i) : item' = [item EXCEPT ![i].status = v] BY DEF FileHookDone
<1>4. item' = WithStatus(item, i, v) BY <1>3 DEF WithStatus
<1>5. v \in {"COMPLETED", "VALIDATION_ERROR"} BY DEF Verdicts
<1>6. item \in [Items -> ItemRecords] /\ v \in ItemStatuses
  BY <1>5 DEF Types, ListTypes, ItemStatuses
<1>7. /\ item' \in [Items -> ItemRecords]
      /\ item'[i].status = v /\ item'[i].bytes = item[i].bytes
      /\ item'[i].sources = item[i].sources /\ item'[i].prio = item[i].prio
      /\ \A j \in Items \ {i} : item'[j] = item[j]
  BY <1>2, <1>4, <1>6, StatusIs
<1> QED BY <1>1, <1>2, <1>5, <1>7

\* with the types kept.
LEMMA HookDoneTypes ==
  ASSUME Types, FileHookDone
  PROVE  Types'
<1>0. PICK i : i = task.item OBVIOUS
<1>1. /\ UNCHANGED tasks /\ i \in Items /\ item' \in [Items -> ItemRecords]
      /\ item'[i].status \in {"COMPLETED", "VALIDATION_ERROR"}
      /\ \A j \in Items \ {i} : item'[j] = item[j]
      /\ ends \/ goes("check")
  BY <1>0, HookDoneIs
<1>2. UNCHANGED <<fileQueue, made, bundle, users, onDisk, state, dl, remover, setter>>
  BY DEF FileHookDone
<1>3. \A j \in Items : isDownloaded(item[j].status) => isDownloaded(item'[j].status)
  BY <1>1 DEF isDownloaded
<1>4. ListTypes' /\ Placed' /\ Returned'
  <2>1. onDisk' \subseteq Items BY <1>2 DEF Types, ListTypes
  <2> QED BY <1>1, <1>2, <1>3, <2>1, ListsKept
<1>6. Running' BY <1>1, TaskEnded, TaskWent DEF Types
<1>7. StateTypes' /\ OtherThreads' /\ Tasked'
  BY <1>1, <1>2 DEF Types, StateTypes, OtherThreads, Tasked, state
<1> QED BY <1>4, <1>6, <1>7 DEF Types

\* The files that failed and are accepted now.
LEMMA RevalidatedIs ==
  ASSUME Types, Revalidate
  PROVE  \E still \in SUBSET Failed(bundle, item) :
           /\ task.phase = "revalidate" /\ UNCHANGED tasks
           /\ item' \in [Items -> ItemRecords]
           /\ \A i \in Items :
                /\ item'[i].status = IF i \in Failed(bundle, item) \ still THEN "COMPLETED"
                                     ELSE item[i].status
                /\ item'[i].bytes = item[i].bytes
                /\ item'[i].sources = item[i].sources /\ item'[i].prio = item[i].prio
           /\ \/ still = {} /\ goes("bundleHook") /\ UNCHANGED status
              \/ still # {} /\ ends /\ status' = "VALIDATION_ERROR"
<1>1. task.phase = "revalidate" /\ UNCHANGED tasks BY DEF Revalidate, Runs
<1> DEFINE failed == Failed(bundle, item)
<1>2. PICK still \in SUBSET {i \in failed : i[1] \in Rejected} :
        /\ item' = [i \in Items |-> IF i \in failed \ still
                                    THEN [item[i] EXCEPT !.status = "COMPLETED"] ELSE item[i]]
        /\ IF still = {} THEN goes("bundleHook") /\ UNCHANGED status
           ELSE ends /\ status' = "VALIDATION_ERROR"
  BY DEF Revalidate
<1>3. item \in [Items -> ItemRecords] BY DEF Types, ListTypes
<1>4. ASSUME NEW i \in Items
      PROVE  /\ [item[i] EXCEPT !.status = "COMPLETED"] \in ItemRecords
             /\ [item[i] EXCEPT !.status = "COMPLETED"].status = "COMPLETED"
             /\ [item[i] EXCEPT !.status = "COMPLETED"].bytes = item[i].bytes
             /\ [item[i] EXCEPT !.status = "COMPLETED"].sources = item[i].sources
             /\ [item[i] EXCEPT !.status = "COMPLETED"].prio = item[i].prio
  <2>1. item[i] \in ItemRecords BY <1>3
  <2> QED BY <2>1 DEF ItemRecords, ItemStatuses
<1> HIDE DEF failed
<1>5. item' \in [Items -> ItemRecords] BY <1>2, <1>3, <1>4
<1>6. ASSUME NEW i \in Items
      PROVE  /\ item'[i].status = IF i \in failed \ still THEN "COMPLETED" ELSE item[i].status
             /\ item'[i].bytes = item[i].bytes
             /\ item'[i].sources = item[i].sources /\ item'[i].prio = item[i].prio
  <2>1. item'[i] = IF i \in failed \ still
                   THEN [item[i] EXCEPT !.status = "COMPLETED"] ELSE item[i]
    BY <1>2
  <2>2. CASE i \in failed \ still BY <1>4, <2>1, <2>2
  <2>3. CASE i \notin failed \ still BY <2>1, <2>3
  <2> QED BY <2>2, <2>3
<1>7. still \in SUBSET failed OBVIOUS
<1>8. \/ still = {} /\ goes("bundleHook") /\ UNCHANGED status
      \/ still # {} /\ ends /\ status' = "VALIDATION_ERROR"
  BY <1>2
<1> QED BY <1>1, <1>5, <1>6, <1>7, <1>8 DEF failed

\* The types hold after a second validation.
LEMMA RevalidateTypes ==
  ASSUME Types, Revalidate
  PROVE  Types'
<1>1. PICK still \in SUBSET Failed(bundle, item) :
        /\ UNCHANGED tasks
        /\ item' \in [Items -> ItemRecords]
        /\ \A i \in Items :
             item'[i].status = IF i \in Failed(bundle, item) \ still THEN "COMPLETED"
                               ELSE item[i].status
        /\ \/ goes("bundleHook") /\ UNCHANGED status
           \/ ends /\ status' = "VALIDATION_ERROR"
  BY RevalidatedIs
<1>2. UNCHANGED <<fileQueue, made, bundle, users, onDisk, paused, searched, dl, remover, setter>>
  BY DEF Revalidate
<1>3. \A j \in Items : isDownloaded(item[j].status) => isDownloaded(item'[j].status)
  BY <1>1 DEF isDownloaded
<1>4. ListTypes' /\ Placed' /\ Returned'
  <2>1. onDisk' \subseteq Items BY <1>2 DEF Types, ListTypes
  <2> QED BY <1>1, <1>2, <1>3, <2>1, ListsKept
<1>6. Running' BY <1>1, TaskEnded, TaskWent DEF Types
<1>7. StateTypes' /\ OtherThreads' /\ Tasked'
  BY <1>1, <1>2 DEF Types, StateTypes, OtherThreads, Tasked, Statuses
<1> QED BY <1>4, <1>6, <1>7 DEF Types

\* The steps of the task thread that leave the lists alone.
LEMMA TaskThreadTypes ==
  ASSUME Types, \/ CheckFinished \/ SetsFailed \/ CheckCompleted
                \/ StartShare \/ BundleHook \/ ShareBundle
  PROVE  Types'
<1>1. UNCHANGED lists /\ UNCHANGED <<paused, searched, dl, remover, setter>>
  BY DEF CheckFinished, SetsFailed, CheckCompleted, Completes, StartShare, BundleHook,
         ShareBundle, state
<1>2. ListTypes' /\ Placed' /\ Returned' BY <1>1, ListsSame
<1>3. OtherThreads' BY <1>1 DEF Types, OtherThreads
<1>4. StateTypes'
  <2>1. status' \in Statuses
    BY DEF CheckFinished, SetsFailed, CheckCompleted, Completes, StartShare, BundleHook,
           ShareBundle, state, Types, StateTypes, Statuses
  <2> QED BY <1>1, <2>1 DEF Types, StateTypes
<1>5. Running'
  <2>1. \/ ends \/ goes("failed") \/ goes("completed") \/ goes("revalidate")
        \/ goes("bundleHook") \/ goes("sharing")
    BY DEF CheckFinished, SetsFailed, CheckCompleted, Completes, StartShare, BundleHook,
           ShareBundle
  <2> QED BY <2>1, TaskEnded, TaskWent DEF Types
<1>6. Tasked'
  <2>1. \/ UNCHANGED tasks \/ Starts("check") \/ Starts("share") \/ Starts("shareAnyway")
        \/ tasks' = Append(tasks, Task("share", NoItem))
    BY DEF CheckFinished, SetsFailed, CheckCompleted, Completes, StartShare, BundleHook,
           ShareBundle, Runs
  <2>2. CASE UNCHANGED tasks BY <2>2 DEF Types, Tasked
  <2>3. CASE tasks' = Append(tasks, Task("share", NoItem))
    BY <2>3, TaskAdded DEF Types, ItemOrNone
  <2> QED BY <2>1, <2>2, <2>3, TaskTaken DEF Types
<1> QED BY <1>2, <1>3, <1>4, <1>5, <1>6 DEF Types

\* Another priority.
LEMMA PrioSetIs ==
  ASSUME Types, SetsQIPriority, NEW i, i = setter
  PROVE  /\ i \in Items /\ item' \in [Items -> ItemRecords]
         /\ \E p \in Prios : /\ p # item[i].prio /\ item'[i].prio = p
                             /\ users' = Reprioritized(users, item, i, p)
         /\ item'[i].status = item[i].status /\ item'[i].bytes = item[i].bytes
         /\ item'[i].sources = item[i].sources
         /\ \A j \in Items \ {i} : item'[j] = item[j]
         /\ users' = AddQI(RemoveQI(users, item, i, item[i].sources), item', i, item[i].sources)
<1>1. i \in Items BY DEF SetsQIPriority, Types, OtherThreads, ItemOrNone
<1> DEFINE p == IF item[i].prio = "normal" THEN "paused" ELSE "normal"
<1>2. item' = WithPrio(item, i, p) /\ users' = Reprioritized(users, item, i, p)
  BY DEF SetsQIPriority, WithPrio
<1>3. item \in [Items -> ItemRecords] BY DEF Types, ListTypes
<1>4. item[i].prio \in Prios BY <1>1, <1>3, ItemFields
<1>5. p \in Prios /\ p # item[i].prio BY <1>4 DEF Prios
<1> HIDE DEF p
<1>6. /\ item' \in [Items -> ItemRecords] /\ item'[i].prio = p
      /\ item'[i].status = item[i].status /\ item'[i].bytes = item[i].bytes
      /\ item'[i].sources = item[i].sources
      /\ \A j \in Items \ {i} : item'[j] = item[j]
  BY <1>1, <1>2, <1>3, <1>5, PrioIs
<1>7. users' = AddQI(RemoveQI(users, item, i, item[i].sources), item', i, item[i].sources)
  BY <1>2 DEF Reprioritized, WithPrio
<1> QED BY <1>1, <1>2, <1>5, <1>6, <1>7

\* A source more or less.
LEMMA SourceIs ==
  ASSUME Types, NEW i \in Items, NEW u \in Users,
         removeFileSource(i, u) \/ addValidatedSource(i, u)
  PROVE  /\ item' \in [Items -> ItemRecords]
         /\ item'[i].status = item[i].status /\ item'[i].bytes = item[i].bytes
         /\ item'[i].prio = item[i].prio
         /\ item'[i].sources = IF removeFileSource(i, u) THEN item[i].sources \ {u}
                               ELSE item[i].sources \cup {u}
         /\ \A j \in Items \ {i} : item'[j] = item[j]
         /\ users' = IF removeFileSource(i, u) THEN RemoveQI(users, item, i, {u})
                     ELSE AddQI(users, item, i, {u})
<1>1. item \in [Items -> ItemRecords] BY DEF Types, ListTypes
<1>2. item[i].sources \subseteq Users BY <1>1, ItemFields
<1> DEFINE U == IF removeFileSource(i, u) THEN item[i].sources \ {u}
                ELSE item[i].sources \cup {u}
<1>3. U \in SUBSET Users BY <1>2
<1>4. item' = WithSources(item, i, U)
  BY DEF removeFileSource, addValidatedSource, WithSources
<1> HIDE DEF U
<1>5. /\ item' \in [Items -> ItemRecords] /\ item'[i].sources = U
      /\ item'[i].status = item[i].status /\ item'[i].bytes = item[i].bytes
      /\ item'[i].prio = item[i].prio
      /\ \A j \in Items \ {i} : item'[j] = item[j]
  BY <1>1, <1>3, <1>4, SourcesIs
<1>6. users' = IF removeFileSource(i, u) THEN RemoveQI(users, item, i, {u})
               ELSE AddQI(users, item, i, {u})
  BY DEF removeFileSource, addValidatedSource
<1> QED BY <1>5, <1>6 DEF U

\* The items and the lists of the users change, nothing is moved.
LEMMA UsersChange ==
  ASSUME Types, UNCHANGED <<fileQueue, made, bundle, onDisk, dl>>,
         item' \in [Items -> ItemRecords], users' \in [Users -> UserRecords],
         \A i \in Items : item'[i].status = item[i].status
  PROVE  ListTypes' /\ Placed' /\ Returned'
<1>1. ListTypes' BY DEF Types, ListTypes
<1>2. Placed'
  <2>1. bundle.finishedFiles \subseteq Items BY BundleFields DEF Types, ListTypes
  <2> QED BY <2>1 DEF Types, Placed
<1>3. Returned' BY DEF Types, Returned, ReturnsOf
<1> QED BY <1>1, <1>2, <1>3

\* The types hold after another priority,
LEMMA PrioTypes ==
  ASSUME Types, SetsQIPriority
  PROVE  Types'
<1>0. PICK i : i = setter OBVIOUS
<1>1. /\ i \in Items /\ item' \in [Items -> ItemRecords] /\ item'[i].status = item[i].status
      /\ \A j \in Items \ {i} : item'[j] = item[j]
      /\ users' = AddQI(RemoveQI(users, item, i, item[i].sources), item', i, item[i].sources)
  BY <1>0, PrioSetIs
<1>2. UNCHANGED <<fileQueue, made, bundle, onDisk, state, dl, tasks, task, remover>>
      /\ setter' = NoItem
  BY DEF SetsQIPriority
<1>3. users' \in [Users -> UserRecords] BY <1>1, UserTypes DEF Types, ListTypes
<1>4. ListTypes' /\ Placed' /\ Returned' BY <1>1, <1>2, <1>3, UsersChange
<1>5. StateTypes' /\ OtherThreads' /\ Tasked' /\ Running'
  BY <1>2 DEF Types, StateTypes, OtherThreads, Tasked, Running, state, ItemOrNone
<1> QED BY <1>4, <1>5 DEF Types

\* after a source more or less,
LEMMA SourceTypes ==
  ASSUME Types, NEW i \in Items, NEW u \in Users,
         removeFileSource(i, u) \/ addValidatedSource(i, u)
  PROVE  Types'
<1>1. /\ item' \in [Items -> ItemRecords] /\ item'[i].status = item[i].status
      /\ \A j \in Items \ {i} : item'[j] = item[j]
      /\ users' = IF removeFileSource(i, u) THEN RemoveQI(users, item, i, {u})
                  ELSE AddQI(users, item, i, {u})
  BY SourceIs
<1>2. UNCHANGED <<fileQueue, made, bundle, onDisk, state, dl, tasks, task, remover, setter>>
  BY DEF removeFileSource, addValidatedSource, threads
<1>3. users' \in [Users -> UserRecords] BY <1>1, UserTypes DEF Types, ListTypes
<1>4. ListTypes' /\ Placed' /\ Returned' BY <1>1, <1>2, <1>3, UsersChange
<1>5. StateTypes' /\ OtherThreads' /\ Tasked' /\ Running'
  BY <1>2 DEF Types, StateTypes, OtherThreads, Tasked, Running, state
<1> QED BY <1>4, <1>5 DEF Types

\* after a file is lost,
LEMMA LoseTypes ==
  ASSUME Types, NEW i \in Items, LoseFile(i)
  PROVE  Types'
<1>1. UNCHANGED <<fileQueue, made, bundle, users, item, state, threads>> /\ onDisk' = onDisk \ {i}
  BY DEF LoseFile
<1>2. onDisk' \subseteq Items /\ item' \in [Items -> ItemRecords] BY <1>1 DEF Types, ListTypes
<1>3. ListTypes' /\ Placed' /\ Returned' BY <1>1, <1>2, ListsKept DEF threads
<1>4. StateTypes' /\ OtherThreads' /\ Tasked' /\ Running'
  BY <1>1 DEF Types, StateTypes, OtherThreads, Tasked, Running, state, threads
<1> QED BY <1>3, <1>4 DEF Types

\* A file is taken off its path.
LEMMA RemoveIs ==
  ASSUME Types, NEW i \in Items, removeQI(i)
  PROVE  /\ i \in Current /\ remover.pc = "idle"
         /\ fileQueue' \in [Files -> 0..Gens]
         /\ fileQueue'[i[1]] = 0 /\ \A f \in Files \ {i[1]} : fileQueue'[f] = fileQueue[f]
         /\ users' = RemoveQI(users, item, i, IF isDownloaded(item[i].status) THEN {}
                                              ELSE item[i].sources)
         /\ users' \in [Users -> UserRecords]
         /\ onDisk' \subseteq Items
         /\ remover'.pc = "removed" /\ remover'.item = i /\ remover' \in RemoverRecords
<1>1. i \in Current /\ remover.pc = "idle" BY DEF removeQI
<1>2. fileQueue' = [fileQueue EXCEPT ![i[1]] = 0] BY DEF removeQI
<1>3. fileQueue \in [Files -> 0..Gens] /\ i[1] \in Files /\ 0 \in 0..Gens
  BY ItemIs, Sizes DEF Types, ListTypes
<1>4. /\ fileQueue' \in [Files -> 0..Gens]
      /\ fileQueue'[i[1]] = 0 /\ \A f \in Files \ {i[1]} : fileQueue'[f] = fileQueue[f]
  BY <1>2, <1>3
<1>5. users' = RemoveQI(users, item, i, IF isDownloaded(item[i].status) THEN {}
                                        ELSE item[i].sources)
  BY DEF removeQI
<1>6. users' \in [Users -> UserRecords] BY <1>5, UserTypes DEF Types, ListTypes
<1>7. onDisk' \subseteq Items BY DEF removeQI, Types, ListTypes
<1>8. remover' = [pc |-> "removed", item |-> i] BY DEF removeQI
<1>9. remover'.pc = "removed" /\ remover'.item = i /\ remover' \in RemoverRecords
  BY <1>8 DEF RemoverRecords, ItemOrNone
<1> QED BY <1>1, <1>4, <1>5, <1>6, <1>7, <1>9

\* The types hold after it.
LEMMA RemoveTypes ==
  ASSUME Types, NEW i \in Items, removeQI(i)
  PROVE  Types'
<1>1. /\ fileQueue' \in [Files -> 0..Gens]
      /\ fileQueue'[i[1]] = 0 /\ \A f \in Files \ {i[1]} : fileQueue'[f] = fileQueue[f]
      /\ users' \in [Users -> UserRecords] /\ onDisk' \subseteq Items
      /\ remover'.pc = "removed" /\ remover'.item = i /\ remover' \in RemoverRecords
  BY RemoveIs
<1>2. UNCHANGED <<made, item, bundle, state, dl, tasks, task, setter>> BY DEF removeQI
<1>3. ListTypes' BY <1>1, <1>2 DEF Types, ListTypes
<1>4. Placed'
  <2>1. \A f \in Files : made[f] \in 0..Gens /\ made[f] >= 0 BY Sizes DEF Types, ListTypes
  <2>2. \A f \in Files : fileQueue'[f] <= made'[f]
    BY <1>1, <1>2, <2>1 DEF Types, Placed
  <2> QED BY <1>2, <2>2 DEF Types, Placed
<1>5. Returned' BY <1>2 DEF Types, Returned, ReturnsOf
<1>6. StateTypes' /\ OtherThreads' /\ Tasked' /\ Running'
  BY <1>1, <1>2 DEF Types, StateTypes, OtherThreads, Tasked, Running, state
<1> QED BY <1>3, <1>4, <1>5, <1>6 DEF Types

\* ... and out of its bundle.
LEMMA RemovesIs ==
  ASSUME Types, RemovesItem, NEW i, i = remover.item
  PROVE  /\ remover.pc = "removed" /\ i \in Items /\ bundle' \in BundleRecords
         /\ isDownloaded(item[i].status) =>
              /\ bundle'.queueItems = bundle.queueItems
              /\ bundle'.finishedFiles = bundle.finishedFiles \ {i}
         /\ ~isDownloaded(item[i].status) =>
              /\ bundle'.queueItems = bundle.queueItems \ {i}
              /\ bundle'.finishedFiles = bundle.finishedFiles
         /\ bundle' = BundleDrop(bundle, item, i)
         /\ remover' \in RemoverRecords /\ remover'.pc \in {"idle", "empty"}
         /\ remover'.item \in {i, NoItem}
         /\ remover'.pc # "idle" => remover'.item = i
<1>1. remover.pc = "removed" BY DEF RemovesItem
<1>2. i \in Items BY <1>1 DEF Types, OtherThreads
<1>3. bundle' = BundleDrop(bundle, item, i) BY DEF RemovesItem
<1>4. item \in [Items -> ItemRecords] /\ bundle \in BundleRecords BY DEF Types, ListTypes
<1>5. /\ bundle' \in BundleRecords
      /\ isDownloaded(item[i].status) =>
           /\ bundle'.queueItems = bundle.queueItems
           /\ bundle'.finishedFiles = bundle.finishedFiles \ {i}
      /\ ~isDownloaded(item[i].status) =>
           /\ bundle'.queueItems = bundle.queueItems \ {i}
           /\ bundle'.finishedFiles = bundle.finishedFiles
  BY <1>2, <1>3, <1>4, DropIs
<1>6. remover' = [remover EXCEPT !.pc = "empty"] \/ remover' = NoReturn BY DEF RemovesItem
<1>7. remover \in RemoverRecords BY DEF Types, OtherThreads
<1>8. /\ remover' \in RemoverRecords /\ remover'.pc \in {"idle", "empty"}
      /\ remover'.item \in {i, NoItem}
      /\ remover'.pc # "idle" => remover'.item = i
  BY <1>6, <1>7 DEF RemoverRecords, NoReturn, ItemOrNone
<1> QED BY <1>1, <1>2, <1>3, <1>5, <1>8

\* The types hold after that as well.
LEMMA RemovesTypes ==
  ASSUME Types, RemovesItem
  PROVE  Types'
<1>0. PICK i : i = remover.item OBVIOUS
<1>1. /\ i \in Items /\ bundle' \in BundleRecords
      /\ bundle'.queueItems \subseteq bundle.queueItems
      /\ bundle'.finishedFiles \subseteq bundle.finishedFiles
      /\ remover' \in RemoverRecords
      /\ remover'.pc # "idle" => remover'.item = i
  BY <1>0, RemovesIs
<1>2. UNCHANGED <<fileQueue, made, item, users, onDisk, state, dl, tasks, task, setter>>
  BY DEF RemovesItem
<1>3. ListTypes' BY <1>1, <1>2 DEF Types, ListTypes
<1>4. Placed' BY <1>1, <1>2 DEF Types, Placed
<1>5. Returned' BY <1>1, <1>2 DEF Types, Returned, ReturnsOf
<1>6. StateTypes' /\ OtherThreads' /\ Tasked' /\ Running'
  BY <1>1, <1>2 DEF Types, StateTypes, OtherThreads, Tasked, Running, state
<1> QED BY <1>3, <1>4, <1>5, <1>6 DEF Types

\* The whole bundle is removed.
LEMMA BundleGoneIs ==
  ASSUME Types, removeBundle
  PROVE  /\ bundle' \in BundleRecords
         /\ bundle'.queueItems = {i \in bundle.queueItems : isDownloaded(item[i].status)}
         /\ bundle'.finishedFiles = {}
         /\ bundle' = RemoveItems(bundle, item, bundle.queueItems \cup bundle.finishedFiles)
         /\ fileQueue' \in [Files -> 0..Gens]
         /\ \A f \in Files :
              fileQueue'[f] = IF \E i \in bundle.queueItems \cup bundle.finishedFiles : i[1] = f
                              THEN 0 ELSE fileQueue[f]
         /\ users' = RemoveQIs(users, item,
                               {i \in bundle.queueItems : ~isDownloaded(item[i].status)})
         /\ users' \in [Users -> UserRecords]
         /\ onDisk' \subseteq Items
         /\ searched' = IF paused THEN searched ELSE 0
         /\ UNCHANGED remover \/ remover' = NoReturn
<1> DEFINE I == bundle.queueItems \cup bundle.finishedFiles
           Q == {i \in bundle.queueItems : ~isDownloaded(item[i].status)}
<1>0. /\ item \in [Items -> ItemRecords] /\ bundle \in BundleRecords
      /\ users \in [Users -> UserRecords] /\ fileQueue \in [Files -> 0..Gens]
      /\ onDisk \subseteq Items /\ 0 \in 0..Gens
  BY Sizes DEF Types, ListTypes
<1>1. I \in SUBSET Items /\ Q \in SUBSET Items BY <1>0, BundleFields
<1>2. /\ bundle' = RemoveItems(bundle, item, I) /\ users' = RemoveQIs(users, item, Q)
      /\ fileQueue' = [f \in Files |-> IF \E i \in I : i[1] = f THEN 0 ELSE fileQueue[f]]
      /\ onDisk' \in {onDisk, onDisk \ bundle.finishedFiles}
      /\ searched' = IF paused THEN searched ELSE 0
      /\ UNCHANGED remover \/ remover' = NoReturn
  BY DEF removeBundle, removeSearchPrio
<1> DEFINE D == Done(item, I)
           N == Undone(item, I)
<1>3. /\ D = {i \in I : isDownloaded(item[i].status)}
      /\ N = {i \in I : ~isDownloaded(item[i].status)}
  BY DEF Done, Undone
<1>4. \A i \in bundle.finishedFiles : isDownloaded(item[i].status) BY DEF Types, Placed
<1>5. /\ bundle.queueItems \ N = {i \in bundle.queueItems : isDownloaded(item[i].status)}
      /\ bundle.finishedFiles \ D = {}
  BY <1>3, <1>4
<1>6. users' \in [Users -> UserRecords]
  <2> HIDE DEF Q
  <2> QED BY <1>0, <1>1, <1>2, RemoveQIsType
<1>7. /\ fileQueue' \in [Files -> 0..Gens]
      /\ \A f \in Files : fileQueue'[f] = IF \E i \in I : i[1] = f THEN 0 ELSE fileQueue[f]
  <2> HIDE DEF I
  <2> QED BY <1>0, <1>2
<1>8. /\ bundle' \in BundleRecords
      /\ bundle'.queueItems = bundle.queueItems \ N
      /\ bundle'.finishedFiles = bundle.finishedFiles \ D
  <2> HIDE DEF I
  <2> QED BY <1>0, <1>1, <1>2, RemoveItemsAre
<1>9. onDisk' \subseteq Items BY <1>0, <1>2
<1> HIDE DEF D, N
<1>10. /\ bundle'.queueItems = {i \in bundle.queueItems : isDownloaded(item[i].status)}
       /\ bundle'.finishedFiles = {}
  BY <1>5, <1>8
<1> QED BY <1>2, <1>6, <1>7, <1>8, <1>9, <1>10

\* The types hold without the bundle.
LEMMA BundleGoneTypes ==
  ASSUME Types, removeBundle
  PROVE  Types'
<1>1. /\ bundle' \in BundleRecords
      /\ bundle'.queueItems \subseteq bundle.queueItems
      /\ bundle'.finishedFiles = {}
      /\ fileQueue' \in [Files -> 0..Gens]
      /\ \A f \in Files : fileQueue'[f] \in {0, fileQueue[f]}
      /\ users' \in [Users -> UserRecords]
      /\ onDisk' \subseteq Items
      /\ searched' = IF paused THEN searched ELSE 0
      /\ UNCHANGED remover \/ remover' = NoReturn
  BY BundleGoneIs
<1>2. UNCHANGED <<made, item, status, paused, dl, tasks, task, setter>> BY DEF removeBundle
<1>3. ListTypes' BY <1>1, <1>2 DEF Types, ListTypes
<1>4. Placed'
  <2>1. \A f \in Files : made[f] \in 0..Gens /\ made[f] >= 0 BY Sizes DEF Types, ListTypes
  <2>2. \A f \in Files : fileQueue'[f] <= made'[f]
    BY <1>1, <1>2, <2>1 DEF Types, Placed
  <2> QED BY <1>1, <1>2, <2>2 DEF Types, Placed
<1>5. Returned' BY <1>1, <1>2 DEF Types, Returned, ReturnsOf
<1>6. StateTypes' BY <1>1, <1>2 DEF Types, StateTypes
<1>7. OtherThreads'
  BY <1>1, <1>2 DEF Types, OtherThreads, NoReturn, RemoverRecords, ItemOrNone
<1>8. Tasked' /\ Running' BY <1>2 DEF Types, Tasked, Running
<1> QED BY <1>3, <1>4, <1>5, <1>6, <1>7, <1>8 DEF Types

\* The files that are gone from the disk leave the bundle when it is readded.
LEMMA ReaddIs ==
  ASSUME NEW b \in BundleRecords, NEW it \in [Items -> ItemRecords],
         \A i \in b.finishedFiles : isDownloaded(it[i].status), readdBundle(b, it)
  PROVE  /\ bundle' \in BundleRecords
         /\ bundle'.queueItems = b.queueItems
         /\ bundle'.finishedFiles = b.finishedFiles \cap onDisk
         /\ bundle' = RemoveItems(b, it, b.finishedFiles \ onDisk)
         /\ status' = "QUEUED" /\ searched' = IF paused THEN searched ELSE searched + 1
<1> DEFINE S == b.finishedFiles \ onDisk
<1>1. /\ bundle' = RemoveItems(b, it, S)
      /\ status' = "QUEUED" /\ searched' = IF paused THEN searched ELSE searched + 1
  BY DEF readdBundle, addSearchPrio
<1>2. S \in SUBSET Items BY BundleFields
<1>3. Done(it, S) = S /\ Undone(it, S) = {} BY DEF Done, Undone
<1>4. b.finishedFiles \ S = b.finishedFiles \cap onDisk OBVIOUS
<1> HIDE DEF S
<1>5. /\ bundle' \in BundleRecords
      /\ bundle'.queueItems = b.queueItems \ Undone(it, S)
      /\ bundle'.finishedFiles = b.finishedFiles \ Done(it, S)
  BY <1>1, <1>2, RemoveItemsAre
<1> QED BY <1>1, <1>3, <1>4, <1>5 DEF S

\* The item a path has, and the one that is made next.
OldItem(f) == <<f, fileQueue[f]>>
NewItem(f) == <<f, made[f] + 1>>

\* The bundle without the file that is gone, and the other files that leave it.
Kept(f) == IF fileQueue[f] = 0 THEN bundle ELSE BundleDrop(bundle, item, OldItem(f))
GoneWith(f) ==
  IF bundle.queueItems = {} THEN (bundle.finishedFiles \ {OldItem(f)}) \ onDisk ELSE {}
Added(f, it) == BundleAdd(Kept(f), it, NewItem(f))

\* Nothing is taken out.
LEMMA RemoveNone ==
  ASSUME NEW b \in BundleRecords, NEW it \in [Items -> ItemRecords], NEW S \in SUBSET Items
  PROVE  S = {} => RemoveItems(b, it, S) = b
<1>2. PICK g : /\ RemoveItems(b, it, S) = g[S]
               /\ \A s \in SUBSET S :
                    g[s] = IF s = {} THEN b
                           ELSE BundleDrop(g[s \ {First(s)}], it, First(s))
  BY RemoveItemsFold
<1> QED BY <1>2

\* What a file is added to.
LEMMA FreshIs ==
  ASSUME Types, NEW f \in Files, made[f] < Gens
  PROVE  /\ NewItem(f) \in Items /\ NewItem(f)[1] = f /\ NewItem(f)[2] = made[f] + 1
         /\ NewItem(f)[2] \in 0..Gens /\ NewItem(f)[2] # 0
         /\ NewItem(f) \notin bundle.queueItems /\ NewItem(f) \notin bundle.finishedFiles
         /\ NewItem(f) \notin Current
         /\ fileQueue[f] # NewItem(f)[2]
<1> DEFINE i == NewItem(f)
<1>1. made \in [Files -> 0..Gens] /\ fileQueue \in [Files -> 0..Gens] BY DEF Types, ListTypes
<1>2. made[f] \in 0..Gens /\ made[f] \in Nat BY <1>1, Sizes
<1>3. /\ made[f] + 1 \in 1..Gens /\ made[f] + 1 \in 0..Gens
      /\ made[f] + 1 # 0 /\ ~(made[f] + 1 <= made[f])
  BY <1>2, Sizes
<1>4. i \in Items /\ i[1] = f /\ i[2] = made[f] + 1 BY <1>3 DEF Items, NewItem
<1>5. fileQueue[f] # made[f] + 1 BY <1>2, <1>3 DEF Types, Placed
<1>6. i \notin bundle.queueItems /\ i \notin bundle.finishedFiles
  BY <1>3, <1>4 DEF Types, Placed
<1>7. i \notin Current BY <1>1, <1>4, <1>5, CurrentIs
<1> QED BY <1>3, <1>4, <1>5, <1>6, <1>7

\* A file is queued again: what is left, and where.
LEMMA AddFileIs ==
  ASSUME Types, NEW f \in Files, NEW u \in Users, addBundleFile(f, u)
  PROVE  /\ Kept(f) \in BundleRecords /\ Added(f, item') \in BundleRecords
         /\ GoneWith(f) \subseteq bundle.finishedFiles \ {OldItem(f)}
         /\ Kept(f).queueItems = bundle.queueItems
         /\ Kept(f).finishedFiles = bundle.finishedFiles \ {OldItem(f)}
         /\ fileQueue[f] # 0 => /\ OldItem(f) \in Items /\ OldItem(f) \in Current
                                /\ item[OldItem(f)].status = "COMPLETED"
         /\ fileQueue[f] = 0 => OldItem(f) \notin Items
         /\ bundle' = IF GoneWith(f) = {} THEN Added(f, item')
                      ELSE RemoveItems(Added(f, item'), item', GoneWith(f))
         /\ bundle' \in BundleRecords
         /\ bundle'.queueItems = bundle.queueItems \cup {NewItem(f)}
         /\ bundle'.finishedFiles = (bundle.finishedFiles \ {OldItem(f)}) \ GoneWith(f)
         /\ item' \in [Items -> ItemRecords]
         /\ item'[NewItem(f)].status = "QUEUED" /\ item'[NewItem(f)].bytes = 0
         /\ item'[NewItem(f)].sources = {u} /\ item'[NewItem(f)].prio = "normal"
         /\ \A j \in Items \ {NewItem(f)} : item'[j] = item[j]
         /\ fileQueue' \in [Files -> 0..Gens]
         /\ fileQueue'[f] = NewItem(f)[2]
         /\ \A g \in Files \ {f} :
              fileQueue'[g] = IF <<g, fileQueue[g]>> \in GoneWith(f) THEN 0 ELSE fileQueue[g]
         /\ made' \in [Files -> 0..Gens] /\ made'[f] = NewItem(f)[2]
         /\ \A g \in Files \ {f} : made'[g] = made[g]
         /\ users' = AddQI(users, item', NewItem(f), {u})
         /\ overtaken \subseteq overtaken'
         /\ Overtakes(GoneWith(f) \cup {OldItem(f)}) \subseteq overtaken'
         /\ StatusPending => "status" \in overtaken'
         /\ \/ /\ bundle.queueItems = {} /\ status' = "QUEUED"
               /\ searched' = IF paused THEN searched ELSE searched + 1
            \/ bundle.queueItems # {} /\ UNCHANGED <<status, searched>>
<1> DEFINE i == NewItem(f)
           old == OldItem(f)
           kept == Kept(f)
           R == GoneWith(f)
           b == Added(f, item')
           it == [item EXCEPT ![i] = Queued({u})]
           readd == Cardinality(b.queueItems) = 1
           gone == b.finishedFiles \ onDisk
<1>0. /\ item \in [Items -> ItemRecords] /\ bundle \in BundleRecords
      /\ users \in [Users -> UserRecords] /\ fileQueue \in [Files -> 0..Gens]
      /\ made \in [Files -> 0..Gens]
  BY DEF Types, ListTypes
<1>1. made[f] < Gens /\ (fileQueue[f] # 0 => item[old].status = "COMPLETED")
  BY DEF addBundleFile, OldItem
<1>2. /\ i \in Items /\ i[1] = f /\ i[2] = made[f] + 1
      /\ i[2] \in 0..Gens /\ i[2] # 0
      /\ i \notin bundle.queueItems /\ i \notin bundle.finishedFiles
  BY <1>1, FreshIs
<1>31. item' = it BY DEF addBundleFile, NewItem
<1>3. /\ made' = [made EXCEPT ![f] = made[f] + 1]
      /\ fileQueue' = [g \in Files |-> IF g = f THEN i[2]
                         ELSE IF readd /\ <<g, fileQueue[g]>> \in gone THEN 0 ELSE fileQueue[g]]
      /\ users' = AddQI(users, item', i, {u})
      /\ IF readd THEN readdBundle(b, item') ELSE bundle' = b /\ UNCHANGED <<status, searched>>
      /\ overtaken' = overtaken \cup Overtakes((IF readd THEN gone ELSE {}) \cup {old})
                                \cup (IF StatusPending THEN {"status"} ELSE {})
  BY <1>31 DEF addBundleFile, OldItem, NewItem, Kept, Added
<1>4. /\ item' \in [Items -> ItemRecords]
      /\ item'[i].status = "QUEUED" /\ item'[i].bytes = 0 /\ item'[i].sources = {u}
      /\ item'[i].prio = "normal"
      /\ \A j \in Items \ {i} : item'[j] = item[j]
  <2>1. {u} \in SUBSET Users OBVIOUS
  <2>2. /\ Queued({u}) \in ItemRecords /\ Queued({u}).status = "QUEUED" /\ Queued({u}).bytes = 0
        /\ Queued({u}).sources = {u} /\ Queued({u}).prio = "normal"
    BY <2>1, QueuedIs
  <2>3. item' = [item EXCEPT ![i] = Queued({u})] BY <1>31
  <2>4. /\ item' \in [Items -> ItemRecords] /\ item'[i] = Queued({u})
        /\ \A j \in Items \ {i} : item'[j] = item[j]
    BY <1>0, <1>2, <2>2, <2>3
  <2> QED BY <2>2, <2>4
<1>6. fileQueue[f] # 0 => old \in Items /\ old \in Current /\ item[old].status = "COMPLETED"
  BY <1>0, <1>1, CurrentIs DEF OldItem
<1>7. fileQueue[f] = 0 => old \notin Items BY <1>0, CurrentIs DEF OldItem
<1>8. kept \in BundleRecords /\ kept.queueItems = bundle.queueItems
      /\ kept.finishedFiles = bundle.finishedFiles \ {old}
  <2>1. bundle.finishedFiles \subseteq Items BY <1>0, BundleFields
  <2>2. CASE fileQueue[f] = 0 BY <1>0, <1>7, <2>1, <2>2 DEF Kept
  <2>3. CASE fileQueue[f] # 0
    <3>1. kept = BundleDrop(bundle, item, old) /\ isDownloaded(item[old].status)
      BY <1>6, <2>3 DEF isDownloaded, Kept
    <3>2. old \in Items BY <1>6, <2>3
    <3>3. ASSUME NEW o \in Items, isDownloaded(item[o].status),
                 NEW k, k = BundleDrop(bundle, item, o)
          PROVE  /\ k \in BundleRecords /\ k.queueItems = bundle.queueItems
                 /\ k.finishedFiles = bundle.finishedFiles \ {o}
      BY <1>0, <3>3, DropIs
    <3> QED BY <3>1, <3>2, <3>3
  <2> QED BY <2>2, <2>3
<1>11. b \in BundleRecords /\ b.queueItems = bundle.queueItems \cup {i}
       /\ b.finishedFiles = bundle.finishedFiles \ {old}
  <2>1. ASSUME NEW k \in BundleRecords, NEW o \in Items, NEW r, r = BundleAdd(k, item', o)
        PROVE  /\ r \in BundleRecords /\ r.queueItems = k.queueItems \cup {o}
               /\ r.finishedFiles = k.finishedFiles
    BY <1>4, <2>1, AddIs
  <2>2. b = BundleAdd(kept, item', i) BY DEF Added
  <2> HIDE DEF b, kept, i
  <2> QED BY <1>2, <1>8, <2>1, <2>2
<1>12. R \subseteq bundle.finishedFiles \ {old} BY DEF GoneWith
<1>13. readd <=> bundle.queueItems = {}
  <2>1. bundle.queueItems \subseteq Items /\ bundle.queueItems \cup {i} \subseteq Items
    BY <1>0, <1>2, BundleFields
  <2>2. IsFiniteSet(bundle.queueItems) /\ Cardinality(bundle.queueItems) \in Nat
    BY <2>1, ItemsFinite
  <2>3. Cardinality(bundle.queueItems \cup {i}) = Cardinality(bundle.queueItems) + 1
    BY <1>2, <2>2, FS_AddElement
  <2>4. Cardinality(bundle.queueItems) = 0 <=> bundle.queueItems = {} BY <2>2, FS_EmptySet
  <2> QED BY <1>11, <2>2, <2>3, <2>4
<1>22. R = IF readd THEN gone ELSE {} BY <1>11, <1>13 DEF GoneWith
<1>14. \A j \in b.finishedFiles : isDownloaded(item'[j].status)
  BY <1>2, <1>4, <1>11, BundleFields DEF Types, Placed
<1>15. /\ bundle' = IF R = {} THEN b ELSE RemoveItems(b, item', R)
       /\ bundle' \in BundleRecords
       /\ bundle'.queueItems = b.queueItems
       /\ bundle'.finishedFiles = b.finishedFiles \ R
       /\ \/ /\ bundle.queueItems = {} /\ status' = "QUEUED"
             /\ searched' = IF paused THEN searched ELSE searched + 1
          \/ bundle.queueItems # {} /\ UNCHANGED <<status, searched>>
  <2>1. CASE readd
    <3>1. readdBundle(b, item') BY <1>3, <2>1
    <3>2. /\ bundle' \in BundleRecords
          /\ bundle'.queueItems = b.queueItems
          /\ bundle'.finishedFiles = b.finishedFiles \cap onDisk
          /\ bundle' = RemoveItems(b, item', b.finishedFiles \ onDisk)
          /\ status' = "QUEUED" /\ searched' = IF paused THEN searched ELSE searched + 1
      BY <1>4, <1>11, <1>14, <3>1, ReaddIs
    <3>3. R = b.finishedFiles \ onDisk BY <1>22, <2>1
    <3>4. b.finishedFiles \cap onDisk = b.finishedFiles \ R BY <3>3
    <3> HIDE DEF gone, readd
    <3>5. bundle' = RemoveItems(b, item', R) BY <3>2, <3>3
    <3>6. R = {} => bundle' = b
      <4>1. R \in SUBSET Items BY <1>0, <1>12, BundleFields
      <4> QED BY <1>4, <1>11, <3>5, <4>1, RemoveNone
    <3> QED BY <1>13, <2>1, <3>2, <3>4, <3>5, <3>6
  <2>2. CASE ~readd
    <3>1. R = {} BY <1>22, <2>2
    <3>2. bundle' = b /\ UNCHANGED <<status, searched>> BY <1>3, <2>2
    <3> HIDE DEF gone, readd
    <3> QED BY <1>11, <1>13, <2>2, <3>1, <3>2
  <2> QED BY <2>1, <2>2
<1>16. fileQueue' = [g \in Files |-> IF g = f THEN i[2]
                         ELSE IF <<g, fileQueue[g]>> \in R THEN 0 ELSE fileQueue[g]]
  BY <1>3, <1>22
<1>17. overtaken \subseteq overtaken' /\ Overtakes(R \cup {old}) \subseteq overtaken'
       /\ (StatusPending => "status" \in overtaken')
  <2>1. overtaken' = overtaken \cup Overtakes(R \cup {old})
                               \cup (IF StatusPending THEN {"status"} ELSE {})
    BY <1>3, <1>22
  <2> QED BY <2>1
<1> HIDE DEF gone, readd
<1>18. /\ fileQueue' \in [Files -> 0..Gens]
       /\ fileQueue'[f] = i[2]
       /\ \A g \in Files \ {f} :
            fileQueue'[g] = IF <<g, fileQueue[g]>> \in R THEN 0 ELSE fileQueue[g]
  <2>1. 0 \in 0..Gens BY Sizes
  <2> QED BY <1>0, <1>2, <1>16, <2>1
<1>19. /\ made' \in [Files -> 0..Gens] /\ made'[f] = i[2]
       /\ \A g \in Files \ {f} : made'[g] = made[g]
  <2>1. made' = [made EXCEPT ![f] = i[2]] BY <1>2, <1>3
  <2> QED BY <1>0, <1>2, <2>1
<1>20. users' = AddQI(users, item', i, {u}) BY <1>3
<1>21. /\ bundle'.queueItems = bundle.queueItems \cup {i}
       /\ bundle'.finishedFiles = (bundle.finishedFiles \ {old}) \ R
  BY <1>11, <1>15
<1> QED BY <1>4, <1>6, <1>7, <1>8, <1>11, <1>12, <1>15, <1>17, <1>18, <1>19, <1>20, <1>21

\* The types hold after it.
LEMMA AddFileTypes ==
  ASSUME Types, NEW f \in Files, NEW u \in Users, addBundleFile(f, u)
  PROVE  Types'
<1> DEFINE i == NewItem(f)
           old == OldItem(f)
           R == GoneWith(f)
<1>1. /\ bundle' \in BundleRecords
      /\ bundle'.queueItems = bundle.queueItems \cup {i}
      /\ bundle'.finishedFiles = (bundle.finishedFiles \ {old}) \ R
      /\ item' \in [Items -> ItemRecords]
      /\ item'[i].status = "QUEUED"
      /\ \A j \in Items \ {i} : item'[j] = item[j]
      /\ fileQueue' \in [Files -> 0..Gens]
      /\ fileQueue'[f] = i[2]
      /\ \A g \in Files \ {f} :
           fileQueue'[g] = IF <<g, fileQueue[g]>> \in R THEN 0 ELSE fileQueue[g]
      /\ made' \in [Files -> 0..Gens] /\ made'[f] = i[2]
      /\ \A g \in Files \ {f} : made'[g] = made[g]
      /\ users' = AddQI(users, item', i, {u})
      /\ \/ status' = "QUEUED" /\ searched' = IF paused THEN searched ELSE searched + 1
         \/ UNCHANGED <<status, searched>>
  BY AddFileIs
<1>2. UNCHANGED <<paused, onDisk, dl, tasks, task, remover, setter>> /\ made[f] < Gens
  BY DEF addBundleFile, threads
<1>3. /\ i \in Items /\ i[1] = f /\ i[2] = made[f] + 1
      /\ i[2] \in 0..Gens /\ i[2] # 0
      /\ i \notin bundle.queueItems /\ i \notin bundle.finishedFiles
  BY <1>2, FreshIs
<1> HIDE DEF i, old, R
<1>4. users' \in [Users -> UserRecords] BY <1>1, <1>3, UserTypes DEF Types, ListTypes
<1>5. ListTypes' BY <1>1, <1>2, <1>4 DEF Types, ListTypes
<1>6. \A g \in Files : made[g] \in Nat /\ fileQueue[g] \in Nat
                       /\ made'[g] \in Nat /\ made[g] <= made'[g]
  BY <1>1, <1>3, Sizes DEF Types, ListTypes
<1>7. Placed'
  <2>1. ASSUME NEW g \in Files PROVE fileQueue'[g] <= made'[g]
    <3>1. CASE g = f BY <1>1, <1>6, <3>1
    <3>2. CASE g # f
      <4>1. fileQueue[g] <= made[g] BY DEF Types, Placed
      <4>2. fileQueue'[g] \in {0, fileQueue[g]} /\ made'[g] = made[g] BY <1>1, <3>2
      <4> QED BY <1>6, <4>1, <4>2
    <3> QED BY <3>1, <3>2
  <2>2. ASSUME NEW j \in bundle'.queueItems \cup bundle'.finishedFiles
        PROVE  j[2] <= made'[j[1]]
    <3>1. CASE j = i BY <1>1, <1>3, <1>6, <3>1
    <3>2. CASE j # i
      <4>1. j \in bundle.queueItems \cup bundle.finishedFiles BY <1>1, <3>2
      <4>2. j \in Items BY <4>1, BundleFields DEF Types, ListTypes
      <4>3. j[2] <= made[j[1]] BY <4>1 DEF Types, Placed
      <4>4. j[1] \in Files /\ j[2] \in Nat BY <4>2, ItemIs, Sizes
      <4> QED BY <1>6, <4>3, <4>4
    <3> QED BY <3>1, <3>2
  <2>3. bundle'.queueItems \cap bundle'.finishedFiles = {} BY <1>1, <1>3 DEF Types, Placed
  <2>4. \A j \in bundle'.finishedFiles : isDownloaded(item'[j].status)
    BY <1>1, <1>3, BundleFields DEF Types, Placed, ListTypes
  <2> QED BY <2>1, <2>2, <2>3, <2>4 DEF Placed
<1>8. Returned'
  <2> SUFFICES ASSUME NEW g \in Files PROVE ReturnsOf(g)'
    BY <1>2 DEF Returned, Types
  <2>1. ReturnsOf(g) BY DEF Types, Returned
  <2>2. dl[g].pc # "idle" => dl[g].item # i
    <3> SUFFICES ASSUME dl[g].pc # "idle", dl[g].item = i PROVE FALSE OBVIOUS
    <3>1. i[1] = g /\ i[2] <= made[g] BY <2>1 DEF ReturnsOf
    <3> QED BY <1>3, <1>6, <3>1
  <2>3. dl[g].pc # "idle" =>
          dl[g].item \in Items /\ dl[g].item[1] = g /\ dl[g].item[2] <= made[g]
          /\ dl[g].item[2] \in Nat
    BY <2>1, ItemIs, Sizes DEF ReturnsOf
  <2>4. dl[g].pc # "idle" => dl[g].item[2] <= made'[g] BY <1>6, <2>3
  <2>5. dl[g].pc # "idle" => item'[dl[g].item] = item[dl[g].item] BY <1>1, <2>2, <2>3
  <2> QED BY <1>1, <1>2, <2>1, <2>3, <2>4, <2>5 DEF ReturnsOf
<1>10. StateTypes' BY <1>1, <1>2 DEF Types, StateTypes, Statuses
<1>11. OtherThreads' /\ Tasked' /\ Running'
  BY <1>2 DEF Types, OtherThreads, Tasked, Running
<1> QED BY <1>5, <1>7, <1>8, <1>10, <1>11 DEF Types

\* A damaged file is queued again.
GoneOnRecheck(i) == (bundle.finishedFiles \ {i}) \ onDisk
Reset(i) == [bundle EXCEPT !.finished = bundle.finished - item[i].bytes]
Less(i) == WithBytes(item, i, 0)
Taken(i) == BundleDrop(Reset(i), Less(i), i)
Again(i, it) == BundleAdd(Taken(i), it, i)

\* What is left when the damaged file is queued again.
LEMMA RecheckIs ==
  ASSUME Types, NEW i \in Items, handleFailedRecheckItems(i)
  PROVE  /\ i \in Current /\ i \in bundle.finishedFiles /\ listed
         /\ Less(i) \in [Items -> ItemRecords] /\ Less(i)[i].bytes = 0
         /\ Less(i)[i].status = item[i].status
         /\ \A j \in Items \ {i} : Less(i)[j] = item[j]
         /\ Reset(i) \in BundleRecords /\ Taken(i) \in BundleRecords
         /\ Again(i, item') \in BundleRecords
         /\ GoneOnRecheck(i) \subseteq bundle.finishedFiles \ {i}
         /\ bundle' = RemoveItems(Again(i, item'), item', GoneOnRecheck(i))
         /\ bundle' \in BundleRecords
         /\ bundle'.queueItems = bundle.queueItems \cup {i}
         /\ bundle'.finishedFiles = (bundle.finishedFiles \ {i}) \ GoneOnRecheck(i)
         /\ item' \in [Items -> ItemRecords]
         /\ item'[i].status = "QUEUED" /\ item'[i].bytes = 0
         /\ item'[i].sources = item[i].sources /\ item'[i].prio = item[i].prio
         /\ \A j \in Items \ {i} : item'[j] = item[j]
         /\ fileQueue' \in [Files -> 0..Gens]
         /\ \A g \in Files :
              fileQueue'[g] = IF <<g, fileQueue[g]>> \in GoneOnRecheck(i) THEN 0 ELSE fileQueue[g]
         /\ users' = AddQI(users, item', i, item[i].sources)
         /\ onDisk' \subseteq Items
         /\ overtaken \subseteq overtaken'
         /\ Overtakes(GoneOnRecheck(i) \cup {i}) \subseteq overtaken'
         /\ StatusPending => "status" \in overtaken'
         /\ status' = "QUEUED" /\ searched' = IF paused THEN searched ELSE searched + 1
<1> DEFINE less == Less(i)
           mid == Taken(i)
           b == Again(i, item')
           R == GoneOnRecheck(i)
<1>0. /\ item \in [Items -> ItemRecords] /\ bundle \in BundleRecords
      /\ users \in [Users -> UserRecords] /\ fileQueue \in [Files -> 0..Gens]
      /\ onDisk \subseteq Items
  BY DEF Types, ListTypes
<1>1. i \in Current /\ i \in bundle.finishedFiles /\ listed BY DEF handleFailedRecheckItems
<1>2. isDownloaded(item[i].status) BY <1>1 DEF Types, Placed
<1>3. /\ less \in [Items -> ItemRecords] /\ less[i].bytes = 0 /\ less[i].status = item[i].status
      /\ less[i].sources = item[i].sources /\ less[i].prio = item[i].prio
      /\ \A j \in Items \ {i} : less[j] = item[j]
  <2>1. 0 \in 0..Size BY Sizes
  <2>2. less = WithBytes(item, i, 0) BY DEF Less
  <2> HIDE DEF less
  <2> QED BY <1>0, <2>1, <2>2, BytesIs
<1>31. less = WithBytes(item, i, 0) BY DEF Less
<1>4. /\ item' \in [Items -> ItemRecords]
      /\ item'[i].status = "QUEUED" /\ item'[i].bytes = 0
      /\ item'[i].sources = item[i].sources /\ item'[i].prio = item[i].prio
      /\ \A j \in Items \ {i} : item'[j] = item[j]
  <2>1. item' = WithStatus(less, i, "QUEUED")
    BY <1>31 DEF handleFailedRecheckItems, WithStatus, WithBytes
  <2>2. "QUEUED" \in ItemStatuses BY DEF ItemStatuses
  <2>3. /\ item' \in [Items -> ItemRecords]
        /\ item'[i].status = "QUEUED" /\ item'[i].bytes = less[i].bytes
        /\ item'[i].sources = less[i].sources /\ item'[i].prio = less[i].prio
        /\ \A j \in Items \ {i} : item'[j] = less[j]
    BY <1>3, <2>1, <2>2, StatusIs
  <2> QED BY <1>3, <2>3
<1>5. /\ Reset(i) \in BundleRecords /\ Reset(i).queueItems = bundle.queueItems
      /\ Reset(i).finishedFiles = bundle.finishedFiles
  <2>1. item[i].bytes \in Int BY <1>0, ItemFields
  <2>2. bundle.finished - item[i].bytes \in Int BY <1>0, <2>1, BundleFields
  <2> QED BY <1>0, <2>2 DEF Reset, BundleRecords
<1>6. /\ mid \in BundleRecords /\ mid.queueItems = bundle.queueItems
      /\ mid.finishedFiles = bundle.finishedFiles \ {i}
  <2>1. isDownloaded(less[i].status) BY <1>2, <1>3
  <2>2. mid = BundleDrop(Reset(i), less, i) BY DEF Taken
  <2> HIDE DEF mid, less
  <2>3. ASSUME NEW k \in BundleRecords, NEW r, r = BundleDrop(k, less, i)
        PROVE  /\ r \in BundleRecords /\ r.queueItems = k.queueItems
               /\ r.finishedFiles = k.finishedFiles \ {i}
    BY <1>3, <2>1, <2>3, DropIs
  <2> QED BY <1>5, <2>2, <2>3
<1>7. /\ b \in BundleRecords /\ b.queueItems = bundle.queueItems \cup {i}
      /\ b.finishedFiles = bundle.finishedFiles \ {i}
  <2>1. ASSUME NEW k \in BundleRecords, NEW r, r = BundleAdd(k, item', i)
        PROVE  /\ r \in BundleRecords /\ r.queueItems = k.queueItems \cup {i}
               /\ r.finishedFiles = k.finishedFiles
    BY <1>4, <2>1, AddIs
  <2>2. b = BundleAdd(mid, item', i) BY DEF Again
  <2> HIDE DEF b, mid
  <2> QED BY <1>6, <2>1, <2>2
<1>8. \A j \in b.finishedFiles : isDownloaded(item'[j].status)
  BY <1>0, <1>4, <1>7, BundleFields DEF Types, Placed
<1>9. readdBundle(b, item')
  <2>1. item' = [WithBytes(item, i, 0) EXCEPT ![i].status = "QUEUED"]
    BY DEF handleFailedRecheckItems, WithBytes
  <2>2. b = BundleAdd(BundleDrop(Reset(i), less, i), item', i) BY DEF Again, Taken
  <2> QED BY <1>31, <2>1, <2>2 DEF handleFailedRecheckItems, WithBytes, Reset
<1>10. R = b.finishedFiles \ onDisk BY <1>7 DEF GoneOnRecheck
<1>11. /\ bundle' \in BundleRecords
       /\ bundle'.queueItems = b.queueItems
       /\ bundle'.finishedFiles = b.finishedFiles \cap onDisk
       /\ bundle' = RemoveItems(b, item', b.finishedFiles \ onDisk)
       /\ status' = "QUEUED" /\ searched' = IF paused THEN searched ELSE searched + 1
  BY <1>4, <1>7, <1>8, <1>9, ReaddIs
<1>12. b.finishedFiles \cap onDisk = b.finishedFiles \ R BY <1>10
<1>13. /\ fileQueue' = [g \in Files |-> IF <<g, fileQueue[g]>> \in R THEN 0 ELSE fileQueue[g]]
       /\ overtaken' = overtaken \cup Overtakes(R \cup {i})
                                 \cup (IF StatusPending THEN {"status"} ELSE {})
  <2> DEFINE it == [WithBytes(item, i, 0) EXCEPT ![i].status = "QUEUED"]
             c == BundleAdd(BundleDrop(Reset(i), less, i), it, i)
             gone == c.finishedFiles \ onDisk
  <2>1. item' = it BY DEF handleFailedRecheckItems, WithBytes
  <2>2. b = c BY <2>1 DEF Again, Taken
  <2>3. gone = R BY <1>10, <2>2
  <2>4. /\ fileQueue' = [g \in Files |-> IF <<g, fileQueue[g]>> \in gone THEN 0 ELSE fileQueue[g]]
        /\ overtaken' = overtaken \cup Overtakes(gone \cup {i})
                                  \cup (IF StatusPending THEN {"status"} ELSE {})
    BY <1>31 DEF handleFailedRecheckItems, WithBytes, Reset
  <2> HIDE DEF gone
  <2> QED BY <2>3, <2>4
<1>14. /\ fileQueue' \in [Files -> 0..Gens]
       /\ \A g \in Files :
            fileQueue'[g] = IF <<g, fileQueue[g]>> \in R THEN 0 ELSE fileQueue[g]
  <2>1. 0 \in 0..Gens BY Sizes
  <2> QED BY <1>0, <1>13, <2>1
<1>15. users' = AddQI(users, item', i, item[i].sources)
  <2>1. item' = [[item EXCEPT ![i].bytes = 0] EXCEPT ![i].status = "QUEUED"]
    BY DEF handleFailedRecheckItems
  <2> QED BY <2>1 DEF handleFailedRecheckItems
<1>16. onDisk' \subseteq Items BY <1>0 DEF handleFailedRecheckItems
<1>17. R \subseteq bundle.finishedFiles \ {i} BY DEF GoneOnRecheck
<1> QED BY <1>1, <1>3, <1>4, <1>5, <1>6, <1>7, <1>10, <1>11, <1>12, <1>13, <1>14, <1>15, <1>16,
           <1>17

\* The types hold after it.
LEMMA RecheckTypes ==
  ASSUME Types, NEW i \in Items, handleFailedRecheckItems(i)
  PROVE  Types'
<1> DEFINE R == GoneOnRecheck(i)
<1>1. /\ i \in Current /\ i \in bundle.finishedFiles
      /\ bundle' \in BundleRecords
      /\ bundle'.queueItems = bundle.queueItems \cup {i}
      /\ bundle'.finishedFiles = (bundle.finishedFiles \ {i}) \ R
      /\ item' \in [Items -> ItemRecords]
      /\ item'[i].status = "QUEUED"
      /\ \A j \in Items \ {i} : item'[j] = item[j]
      /\ fileQueue' \in [Files -> 0..Gens]
      /\ \A g \in Files :
           fileQueue'[g] = IF <<g, fileQueue[g]>> \in R THEN 0 ELSE fileQueue[g]
      /\ users' = AddQI(users, item', i, item[i].sources)
      /\ onDisk' \subseteq Items
      /\ status' = "QUEUED" /\ searched' = IF paused THEN searched ELSE searched + 1
  BY RecheckIs
<1> HIDE DEF R
<1>2. UNCHANGED <<made, paused, dl, tasks, task, remover, setter>>
  BY DEF handleFailedRecheckItems, threads
<1>4. users' \in [Users -> UserRecords] BY <1>1, UserTypes DEF Types, ListTypes
<1>5. ListTypes' BY <1>1, <1>2, <1>4 DEF Types, ListTypes
<1>6. \A g \in Files : made[g] \in Nat /\ fileQueue[g] \in Nat
  BY Sizes DEF Types, ListTypes
<1>7. Placed'
  <2>1. ASSUME NEW g \in Files PROVE fileQueue'[g] <= made'[g]
    <3>1. fileQueue[g] <= made[g] BY DEF Types, Placed
    <3>2. fileQueue'[g] \in {0, fileQueue[g]} BY <1>1
    <3> QED BY <1>2, <1>6, <3>1, <3>2
  <2>2. \A j \in bundle'.queueItems \cup bundle'.finishedFiles : j[2] <= made'[j[1]]
    BY <1>1, <1>2 DEF Types, Placed
  <2>3. bundle'.queueItems \cap bundle'.finishedFiles = {} BY <1>1 DEF Types, Placed
  <2>4. \A j \in bundle'.finishedFiles : isDownloaded(item'[j].status)
    BY <1>1, BundleFields DEF Types, Placed, ListTypes
  <2> QED BY <2>1, <2>2, <2>3, <2>4 DEF Placed
<1>10. Returned'
  <2> SUFFICES ASSUME NEW g \in Files PROVE ReturnsOf(g)'
    BY <1>2 DEF Returned, Types
  <2>1. ReturnsOf(g) BY DEF Types, Returned
  <2> QED BY <1>1, <1>2, <2>1 DEF ReturnsOf
<1>11. StateTypes' BY <1>1, <1>2 DEF Types, StateTypes, Statuses
<1>12. OtherThreads' /\ Tasked' /\ Running'
  BY <1>2 DEF Types, OtherThreads, Tasked, Running
<1> QED BY <1>5, <1>7, <1>10, <1>11, <1>12 DEF Types

\* The files of a new bundle.
FirstItems == {<<f, 1>> : f \in Initial}

\* There are as many as files, one or more.
LEMMA FirstItemsAre ==
  /\ FirstItems \subseteq Items
  /\ \A i \in FirstItems : i[1] \in Initial /\ i[2] = 1
  /\ \A f \in Initial : <<f, 1>> \in FirstItems
  /\ IsFiniteSet(FirstItems) /\ IsFiniteSet(Initial)
  /\ Cardinality(FirstItems) = Cardinality(Initial) /\ Cardinality(Initial) \in Nat
  /\ Cardinality(Initial) >= 1
<1>1. Initial \subseteq Files /\ IsFiniteSet(Files) /\ Initial # {} BY BundleAssumption
<1>2. 1 \in 1..Gens BY Sizes
<1>3. /\ FirstItems \subseteq Items
      /\ \A i \in FirstItems : i[1] \in Initial /\ i[2] = 1
      /\ \A f \in Initial : <<f, 1>> \in FirstItems
  BY <1>1, <1>2 DEF FirstItems, Items
<1>4. IsFiniteSet(Initial) BY <1>1, FS_Subset
<1>5. Cardinality(Initial) \in Nat /\ Cardinality(Initial) # 0
  BY <1>1, <1>4, FS_CardinalityType, FS_EmptySet
<1>6. IsFiniteSet({1}) /\ Cardinality({1}) = 1 BY FS_Singleton
<1>7. FirstItems = Initial \X {1} BY DEF FirstItems
<1>8. /\ Cardinality(Initial \X {1}) = Cardinality(Initial) * Cardinality({1})
      /\ IsFiniteSet(Initial \X {1})
  BY <1>4, <1>6, FS_Product
<1> QED BY <1>3, <1>4, <1>5, <1>6, <1>7, <1>8

\* What a new bundle has.
LEMMA InitIs ==
  ASSUME Init
  PROVE  /\ bundle \in BundleRecords
         /\ bundle.queueItems = FirstItems /\ bundle.finishedFiles = {}
         /\ bundle.size = Cardinality(Initial) * Size /\ bundle.finished = 0
         /\ bundle.queueSize = Cardinality(Initial) * Size
         /\ bundle.pathSize = Cardinality(Initial) * Size
         /\ item \in [Items -> ItemRecords]
         /\ \A i \in Items :
              /\ item[i].status = IF i \in FirstItems THEN "QUEUED" ELSE "NEW"
              /\ item[i].bytes = 0 /\ item[i].prio = "normal"
              /\ item[i].sources = IF i \in FirstItems THEN FirstUsers ELSE {}
         /\ users \in [Users -> UserRecords]
         /\ \A u \in Users :
              /\ users[u].queue = IF u \in FirstUsers THEN {<<"normal", i>> : i \in FirstItems}
                                  ELSE {}
              /\ users[u].files = IF u \in FirstUsers THEN Cardinality(Initial) ELSE 0
         /\ fileQueue \in [Files -> 0..Gens] /\ made = fileQueue
         /\ \A f \in Files : fileQueue[f] = IF f \in Initial THEN 1 ELSE 0
         /\ Current = FirstItems
<1> DEFINE n == Cardinality(Initial)
<1>0. n \in Nat /\ n * Size \in Int /\ FirstItems \subseteq Items
  <2>1. n \in Nat /\ Size \in Nat BY FirstItemsAre, Sizes
  <2> QED BY <2>1, FirstItemsAre
<1>1. /\ bundle = [queueItems |-> FirstItems, finishedFiles |-> {}, size |-> n * Size,
                   finished |-> 0, queueSize |-> n * Size, pathQueued |-> n, pathFinished |-> 0,
                   pathSize |-> n * Size]
      /\ item = [i \in Items |-> IF i \in FirstItems THEN Queued(FirstUsers) ELSE New]
      /\ users = [u \in Users |-> IF u \in FirstUsers
                                  THEN [queue |-> {<<"normal", i>> : i \in FirstItems}, files |-> n]
                                  ELSE [queue |-> {}, files |-> 0]]
      /\ fileQueue = [f \in Files |-> IF f \in Initial THEN 1 ELSE 0]
      /\ made = fileQueue
  BY DEF Init, FirstItems
<1>2. /\ bundle \in BundleRecords
      /\ bundle.queueItems = FirstItems /\ bundle.finishedFiles = {}
      /\ bundle.size = n * Size /\ bundle.finished = 0
      /\ bundle.queueSize = n * Size /\ bundle.pathSize = n * Size
  <2> HIDE DEF n
  <2>1. PICK k : k = n * Size OBVIOUS
  <2>2. k \in Int BY <1>0, <2>1
  <2>3. bundle = [queueItems |-> FirstItems, finishedFiles |-> {}, size |-> k,
                  finished |-> 0, queueSize |-> k, pathQueued |-> n, pathFinished |-> 0,
                  pathSize |-> k]
    BY <1>1, <2>1
  <2>4. bundle \in BundleRecords BY <1>0, <2>2, <2>3 DEF BundleRecords
  <2> QED BY <2>1, <2>3, <2>4
<1>3. item \in [Items -> ItemRecords]
      /\ \A i \in Items :
           /\ item[i].status = IF i \in FirstItems THEN "QUEUED" ELSE "NEW"
           /\ item[i].bytes = 0 /\ item[i].prio = "normal"
           /\ item[i].sources = IF i \in FirstItems THEN FirstUsers ELSE {}
  <2>1. FirstUsers \in SUBSET Users BY BundleAssumption
  <2>2. /\ Queued(FirstUsers) \in ItemRecords /\ Queued(FirstUsers).status = "QUEUED"
        /\ Queued(FirstUsers).bytes = 0
        /\ Queued(FirstUsers).sources = FirstUsers /\ Queued(FirstUsers).prio = "normal"
        /\ New \in ItemRecords
    BY <2>1, QueuedIs
  <2>3. New.status = "NEW" /\ New.bytes = 0 /\ New.prio = "normal" /\ New.sources = {} BY DEF New
  <2> QED BY <1>1, <2>2, <2>3
<1>4. users \in [Users -> UserRecords]
      /\ \A u \in Users :
           /\ users[u].queue = IF u \in FirstUsers THEN {<<"normal", i>> : i \in FirstItems} ELSE {}
           /\ users[u].files = IF u \in FirstUsers THEN n ELSE 0
  <2> DEFINE a == [queue |-> {<<"normal", i>> : i \in FirstItems}, files |-> n]
             c == [queue |-> {}, files |-> 0]
  <2>1. a.queue = {<<"normal", i>> : i \in FirstItems} /\ a.files = n /\ c.queue = {} /\ c.files = 0
    OBVIOUS
  <2>2. {<<"normal", i>> : i \in FirstItems} \subseteq Prios \X Items BY <1>0 DEF Prios
  <2>3. a \in UserRecords /\ c \in UserRecords BY <1>0, <2>2 DEF UserRecords
  <2>4. users = [u \in Users |-> IF u \in FirstUsers THEN a ELSE c] BY <1>1
  <2> HIDE DEF a, c
  <2> QED BY <2>1, <2>3, <2>4
<1>5. /\ fileQueue \in [Files -> 0..Gens] /\ made = fileQueue
      /\ \A f \in Files : fileQueue[f] = IF f \in Initial THEN 1 ELSE 0
  <2>1. 0 \in 0..Gens /\ 1 \in 0..Gens BY Sizes
  <2> QED BY <1>1, <2>1
<1>6. Current = FirstItems
  <2>1. Initial \subseteq Files BY BundleAssumption
  <2>2. \A i \in Items : i \in Current <=> i \in FirstItems
    <3> TAKE i \in Items
    <3>1. i \in Current <=> fileQueue[i[1]] = i[2] BY <1>5, CurrentIs
    <3>2. i[1] \in Files /\ i[2] \in 1..Gens /\ i = <<i[1], i[2]>> BY ItemIs
    <3>3. i[2] # 0 BY <3>2, Sizes
    <3>4. i \in FirstItems <=> i[1] \in Initial /\ i[2] = 1 BY <3>2, FirstItemsAre
    <3> QED BY <1>5, <3>1, <3>2, <3>3, <3>4
  <2>3. Current \subseteq Items BY <1>5, CurrentIs
  <2> QED BY <1>0, <2>2, <2>3
<1> QED BY <1>2, <1>3, <1>4, <1>5, <1>6

\* The types hold at first,
LEMMA TypesInit == Init => Types
<1> SUFFICES ASSUME Init PROVE Types OBVIOUS
<1>1. ListTypes
  <2>1. onDisk = {} BY DEF Init
  <2> QED BY <2>1, InitIs DEF ListTypes
<1>2. StateTypes BY DEF Init, StateTypes, Statuses
<1>3. Placed
  <2>1. \A f \in Files : fileQueue[f] \in Nat /\ made[f] = fileQueue[f] BY InitIs, Sizes
  <2>2. \A i \in FirstItems : i[2] <= made[i[1]]
    <3> TAKE i \in FirstItems
    <3>1. i[1] \in Initial /\ i[2] = 1 /\ i[1] \in Files BY FirstItemsAre, BundleAssumption
    <3> QED BY <2>1, <3>1, InitIs
  <2>3. bundle.queueItems = FirstItems /\ bundle.finishedFiles = {} BY InitIs
  <2> QED BY <2>1, <2>2, <2>3 DEF Placed
<1>4. Returned
  <2>1. dl = [f \in Files |-> NoReturn] BY DEF Init
  <2> QED BY <2>1, ReturnKinds DEF Returned, ReturnsOf
<1>5. Tasked
  <2>1. tasks = << >> BY DEF Init
  <2> QED BY <2>1 DEF Tasked
<1>6. Running
  <2>1. task = [phase |-> "none", item |-> NoItem] BY DEF Init, NoTask
  <2> QED BY <2>1 DEF Running, RunRecords, ItemOrNone
<1>7. OtherThreads
  <2>1. remover = [pc |-> "idle", item |-> NoItem] /\ setter = NoItem BY DEF Init, NoReturn
  <2> QED BY <2>1 DEF OtherThreads, RemoverRecords, ItemOrNone
<1> QED BY <1>1, <1>2, <1>3, <1>4, <1>5, <1>6, <1>7 DEF Types

\* every step keeps them,
LEMMA TypesStep == Types /\ [Next]_vars => Types'
<1> SUFFICES ASSUME Types, [Next]_vars PROVE Types' OBVIOUS
<1>1. ASSUME NEW f \in Files, putDownload(f) PROVE Types' BY <1>1, PutTypes
<1>2. ASSUME NEW f \in Files, Returning(f) PROVE Types'
  BY <1>2, CompletedTypes, MovesTypes, FinishesTypes, RenameTypes DEF Returning
<1>3. ASSUME onDownloadError \/ SetsError \/ checkDiskSpace \/ checkResumeBundles PROVE Types'
  BY <1>3, ErrorTypes
<1>4. ASSUME TaskThread PROVE Types'
  BY <1>4, FileHookTypes, HookDoneTypes, RevalidateTypes, TaskThreadTypes, PauseTypes DEF TaskThread
<1>5. ASSUME Refreshing \/ DelayedCheck PROVE Types' BY <1>5, OtherTypes DEF Refreshing
<1>6. ASSUME NEW p \in BOOLEAN, setBundlePriority(p) \/ shareBundle(p) PROVE Types'
  BY <1>6, SetPriorityTypes, ShareTypes
<1>7. ASSUME NEW i \in Items, \/ setQIPriority(i) \/ handleFailedRecheckItems(i)
                              \/ LoseFile(i) \/ removeQI(i)
      PROVE  Types'
  BY <1>7, OtherTypes, RecheckTypes, LoseTypes, RemoveTypes
<1>8. ASSUME NEW i \in Items, NEW u \in Users, removeFileSource(i, u) \/ addValidatedSource(i, u)
      PROVE  Types'
  BY <1>8, SourceTypes
<1>9. ASSUME NEW f \in Files, NEW u \in Users, addBundleFile(f, u) PROVE Types'
  BY <1>9, AddFileTypes
<1>10. ASSUME SetsQIPriority \/ RemovesItem \/ removeBundle PROVE Types'
  BY <1>10, PrioTypes, RemovesTypes, BundleGoneTypes
<1>11. ASSUME UNCHANGED vars PROVE Types'
  <2>1. UNCHANGED <<lists, threads>> BY <1>11 DEF vars
  <2>2. StateTypes' BY <1>11 DEF vars, state, Types, StateTypes
  <2> QED BY <2>1, <2>2, StatusTypes
<1> QED BY <1>1, <1>2, <1>3, <1>4, <1>5, <1>6, <1>7, <1>8, <1>9, <1>10, <1>11 DEF Next

\* and they imply the type invariant.
LEMMA TypesOK == Types => TypeOK
<1> SUFFICES ASSUME Types PROVE TypeOK OBVIOUS
<1>1. fileQueue \in [Files -> 0..Gens] /\ made \in [Files -> 0..Gens] BY DEF Types, ListTypes
<1>2. bundle.queueItems \subseteq Items /\ bundle.finishedFiles \subseteq Items
  BY BundleFields DEF Types, ListTypes
<1>3. bundle.queueItems \cap bundle.finishedFiles = {} BY DEF Types, Placed
<1>4. \A i \in Items : item[i].bytes \in 0..Size /\ item[i].sources \subseteq Users
  BY ItemFields DEF Types, ListTypes
<1>5. status \in Statuses /\ searched \in Nat BY DEF Types, StateTypes
<1> QED BY <1>1, <1>2, <1>3, <1>4, <1>5 DEF TypeOK

\* The bundle's lists hold items of its files, a file is never both queued and
\* finished, and no file has more than its bytes.
THEOREM TypeCorrect == Spec => []TypeOK
BY TypesInit, TypesStep, TypesOK, PTL DEF Spec

-----------------------------------------------------------------------------
(* Nobody is disturbed: what the threads have found still holds, until an  *)
(* operation overtakes them.                                               *)

Both == bundle.queueItems \cup bundle.finishedFiles

\* The bundle's lists hold the items of the paths; only the item of a removal
\* that has taken it off its path and not yet out of the bundle is an exception.
Listed ==
  /\ Current \subseteq Both
  /\ \A i \in Both : i \in Current \/ (remover.pc = "removed" /\ i = remover.item)
  /\ remover.pc = "removed" => remover.item \in Both /\ remover.item \notin Current

\* A queued file is QUEUED unless a connection is about to move it, and what a
\* connection returns is where the connection believes it is.
ReturnAt(f) ==
  LET i == dl[f].item IN
  /\ dl[f].pc = "idle" => i = NoItem
  /\ dl[f].pc = "found" =>
       i \in bundle.queueItems /\ i \in Current /\ item[i].status = "QUEUED"
  /\ dl[f].pc = "whole" =>
       i \in bundle.queueItems /\ i \in Current /\ item[i].status = "DOWNLOADED"
  /\ dl[f].pc \in {"emptied", "moved"} =>
       i \in bundle.finishedFiles /\ i \in Current /\ item[i].status = "DOWNLOADED"
QueuedAt(i) == item[i].status = "QUEUED" \/ (dl[i[1]].pc = "whole" /\ dl[i[1]].item = i)
Returns ==
  /\ \A i \in bundle.queueItems : QueuedAt(i)
  /\ \A f \in Files : ReturnAt(f)

\* A file that waits for its hooks is finished and waits once.
HookAt(i) ==
  /\ i \in bundle.finishedFiles /\ i \in Current /\ item[i].status = "DOWNLOADED"
  /\ \A f \in Files : dl[f].item # i
Hooks ==
  /\ \A n \in DOMAIN tasks : \A i : tasks[n].type = "hooks" /\ tasks[n].item = i => HookAt(i)
  /\ \A m, n \in DOMAIN tasks :
       tasks[m].type = "hooks" /\ tasks[n].type = "hooks" /\ tasks[m].item = tasks[n].item
       => m = n
HookRuns ==
  task.phase = "fileHook" =>
    /\ task.item \in bundle.finishedFiles /\ task.item \in Current
    /\ item[task.item].status = "VALIDATION_RUNNING"

Calm == Listed /\ Returns /\ Hooks /\ HookRuns
Steady == "item" \notin overtaken => Calm

-----------------------------------------------------------------------------
\* The hooks that wait after a step waited before it.
Carried(k) ==
  \A n \in DOMAIN tasks' : tasks'[n].type = "hooks" =>
    n \in Nat /\ n + k \in DOMAIN tasks /\ tasks'[n] = tasks[n + k] /\ n + k # 0

\* The list of tasks stays,
LEMMA CarriedSame == ASSUME Tasked, UNCHANGED tasks PROVE Carried(0)
BY DEF Tasked, Carried

\* loses its head,
LEMMA CarriedTail == ASSUME Tasked, NEW type, Starts(type) PROVE Carried(1)
<1>1. tasks \in Seq(TaskRecords) /\ tasks # << >> /\ tasks' = Tail(tasks)
  BY DEF Tasked, Starts
<1>2. \A n \in DOMAIN tasks' : /\ n + 1 \in DOMAIN tasks /\ tasks'[n] = tasks[n + 1]
                               /\ n \in Nat /\ n + 1 # 1
  BY <1>1, TakeTask
<1> QED BY <1>2 DEF Carried

\* or gets a task that is no file's hooks.
LEMMA CarriedAppend ==
  ASSUME Tasked, NEW type \in {"pause", "check", "share", "shareAnyway"},
         tasks' = Append(tasks, Task(type, NoItem))
  PROVE  Carried(0)
<1>1. tasks \in Seq(TaskRecords) BY DEF Tasked
<1>2. Task(type, NoItem) \in TaskRecords /\ Task(type, NoItem).type = type
  BY DEF Task, TaskRecords, ItemOrNone
<1>3. \A n \in DOMAIN tasks' :
        (n \in DOMAIN tasks /\ tasks'[n] = tasks[n]) \/ tasks'[n] = Task(type, NoItem)
  BY <1>1, <1>2, AppendTask
<1>4. \A n \in DOMAIN tasks : n \in Nat /\ n + 0 = n /\ n # 0 BY <1>1
<1> QED BY <1>2, <1>3, <1>4 DEF Carried

\* The items of paths.
LEMMA CurrentNext ==
  ASSUME Types, fileQueue' \in [Files -> 0..Gens]
  PROVE  /\ Current \subseteq Items /\ Current' \subseteq Items
         /\ \A i \in Items : i \in Current <=> fileQueue[i[1]] = i[2]
         /\ \A i \in Items : i \in Current' <=> fileQueue'[i[1]] = i[2]
<1>1. fileQueue \in [Files -> 0..Gens] BY DEF Types, ListTypes
<1>2. Current \subseteq Items /\ \A i \in Items : i \in Current <=> fileQueue[i[1]] = i[2]
  BY <1>1, CurrentIs
<1>3. \A f \in Files : fileQueue'[f] \in 0..Gens /\ fileQueue'[f] \in Nat BY Sizes
<1>4. \A i : i \in Current' <=> \E f \in Files : fileQueue'[f] # 0 /\ i = <<f, fileQueue'[f]>>
  BY DEF Current
<1>5. \A f \in Files : fileQueue'[f] # 0 => <<f, fileQueue'[f]>> \in Items
  BY <1>3, Sizes DEF Items
<1>6. \A i \in Items : i \in Current' <=> fileQueue'[i[1]] = i[2]
  BY <1>3, <1>4, ItemIs, Sizes
<1> QED BY <1>2, <1>4, <1>5, <1>6

\* Nothing is at work on the items that are overtaken.
LEMMA OvertakesNone ==
  ASSUME NEW I, "item" \notin Overtakes(I)
  PROVE  /\ \A f \in Files : dl[f].item \notin I
         /\ remover.item \notin I /\ task.item \notin I
         /\ \A n \in DOMAIN tasks : tasks[n].item \notin I
BY DEF Overtakes

\* The lists, the paths and the connections stay, and so do the files that wait
\* or are being worked on.
LEMMA QuietSteady ==
  ASSUME Types, Steady, overtaken \subseteq overtaken', UNCHANGED <<fileQueue, dl, remover>>,
         bundle'.queueItems = bundle.queueItems, bundle'.finishedFiles = bundle.finishedFiles,
         \A i \in Items : item[i].status \in {"QUEUED", "DOWNLOADED", "VALIDATION_RUNNING"} =>
           item'[i].status = item[i].status,
         NEW k \in {0, 1}, Carried(k), task'.phase = "fileHook" => UNCHANGED task
  PROVE  Steady'
<1> SUFFICES ASSUME "item" \notin overtaken' PROVE Calm' BY DEF Steady
<1>1. Listed /\ Returns /\ Hooks /\ HookRuns BY DEF Steady, Calm
<1>2. UNCHANGED Current BY DEF Current
<1>3. UNCHANGED Both /\ bundle.queueItems \subseteq Items /\ bundle.finishedFiles \subseteq Items
  BY BundleFields DEF Both, Types, ListTypes
<1>4. Listed' BY <1>1, <1>2, <1>3 DEF Listed
<1>5. Returns'
  <2>1. ASSUME NEW i \in bundle.queueItems PROVE QueuedAt(i)'
    BY <1>1, <1>3 DEF Returns, QueuedAt
  <2>2. ASSUME NEW f \in Files PROVE ReturnAt(f)'
    <3>1. ReturnAt(f) BY <1>1 DEF Returns
    <3> QED BY <1>2, <1>3, <3>1 DEF ReturnAt
  <2> QED BY <2>1, <2>2 DEF Returns
<1>6. Hooks'
  <2>1. ASSUME NEW n \in DOMAIN tasks', NEW i, tasks'[n].type = "hooks", tasks'[n].item = i
        PROVE  HookAt(i)'
    <3>1. n + k \in DOMAIN tasks /\ tasks'[n] = tasks[n + k] BY <2>1 DEF Carried
    <3>2. HookAt(i) BY <1>1, <2>1, <3>1 DEF Hooks
    <3> QED BY <1>2, <1>3, <3>2 DEF HookAt
  <2>2. ASSUME NEW m \in DOMAIN tasks', NEW n \in DOMAIN tasks', tasks'[m].type = "hooks",
               tasks'[n].type = "hooks", tasks'[m].item = tasks'[n].item
        PROVE  m = n
    <3>1. /\ m \in Nat /\ n \in Nat /\ m + k \in DOMAIN tasks /\ n + k \in DOMAIN tasks
          /\ tasks'[m] = tasks[m + k] /\ tasks'[n] = tasks[n + k]
      BY <2>2 DEF Carried
    <3>2. m + k = n + k BY <1>1, <2>2, <3>1 DEF Hooks
    <3> QED BY <3>1, <3>2
  <2> QED BY <2>1, <2>2 DEF Hooks
<1>7. HookRuns' BY <1>1, <1>2, <1>3 DEF HookRuns
<1> QED BY <1>4, <1>5, <1>6, <1>7 DEF Calm

\* Only FileHook begins a file's hooks.
LEMMA TaskMoves ==
  /\ ends => task'.phase = "none"
  /\ Types => \A p \in {"check", "failed", "completed", "revalidate", "bundleHook", "sharing"} :
                goes(p) => task'.phase = p /\ task'.item = task.item
<1>1. NoTask.phase = "none" BY DEF NoTask
<1>2. Types => task \in RunRecords BY DEF Types, Running
<1> QED BY <1>1, <1>2 DEF ends, goes, RunRecords

\* One connection goes on with its item: nothing else is disturbed.
LEMMA OthersCalm ==
  ASSUME Types, Calm, NEW f \in Files, NEW i \in Items, i[1] = f,
         UNCHANGED <<fileQueue, remover, task>>, UNCHANGED Both,
         \A g \in Files \ {f} : dl'[g] = dl[g], dl'[f].item \in {i, NoItem},
         \A j \in Items \ {i} : item'[j] = item[j],
         bundle'.queueItems \ {i} = bundle.queueItems \ {i},
         bundle'.finishedFiles \ {i} = bundle.finishedFiles \ {i},
         dl[f].pc = "whole" => dl[f].item = i,
         task.phase = "fileHook" => task.item # i,
         ReturnAt(f)', i \in bundle'.queueItems => QueuedAt(i)'
  PROVE  /\ Listed' /\ Returns' /\ HookRuns'
         /\ \A j : j # i /\ HookAt(j) => HookAt(j)'
<1>1. Listed /\ Returns /\ Hooks /\ HookRuns BY DEF Calm
<1>2. UNCHANGED Current BY DEF Current
<1>3. /\ bundle.queueItems \subseteq Items /\ bundle.finishedFiles \subseteq Items
      /\ NoItem \notin Items
  BY BundleFields, ItemIs DEF Types, ListTypes
<1>4. Listed' BY <1>1, <1>2 DEF Listed
<1>5. \A g \in Files \ {f} : dl[g].pc # "idle" => dl[g].item # i
  BY DEF Types, Returned, ReturnsOf
<1>6. \A g \in Files : dl[g].pc \in {"idle", "found", "whole", "emptied", "moved"}
  BY DEF Types, Returned, ReturnRecords
<1>7. ASSUME NEW j \in bundle'.queueItems PROVE QueuedAt(j)'
  <2>1. CASE j = i BY <2>1
  <2>2. CASE j # i
    <3>1. j \in bundle.queueItems /\ QueuedAt(j) /\ j \in Items BY <1>1, <1>3, <2>2 DEF Returns
    <3>2. CASE item[j].status = "QUEUED" BY <2>2, <3>1, <3>2 DEF QueuedAt
    <3>3. CASE dl[j[1]].pc = "whole" /\ dl[j[1]].item = j
      <4>1. j[1] # f /\ j[1] \in Files BY <2>2, <3>1, <3>3, ItemIs
      <4> QED BY <3>3, <4>1 DEF QueuedAt
    <3> QED BY <3>1, <3>2, <3>3 DEF QueuedAt
  <2> QED BY <2>1, <2>2
<1>8. ASSUME NEW g \in Files PROVE ReturnAt(g)'
  <2>1. CASE g = f BY <2>1
  <2>2. CASE g # f
    <3>1. dl'[g] = dl[g] /\ ReturnAt(g) BY <1>1, <2>2 DEF Returns
    <3>2. dl[g].pc # "idle" => dl[g].item # i /\ dl[g].item \in Items
      BY <1>5, <2>2 DEF Types, Returned, ReturnsOf
    <3> QED BY <1>2, <1>6, <3>1, <3>2 DEF ReturnAt
  <2> QED BY <2>1, <2>2
<1>9. Returns' BY <1>7, <1>8 DEF Returns
<1>10. HookRuns' BY <1>1, <1>2, <1>3 DEF HookRuns
<1>11. ASSUME NEW j, j # i, HookAt(j) PROVE HookAt(j)'
  <2>1. j \in bundle.finishedFiles /\ j \in Items BY <1>3, <1>11 DEF HookAt
  <2>2. \A g \in Files : dl'[g].item # j BY <1>3, <1>11, <2>1 DEF HookAt
  <2> QED BY <1>2, <1>11, <2>1, <2>2 DEF HookAt
<1> QED BY <1>4, <1>9, <1>10, <1>11

\* ... and if the tasks stay as well, all is calm.
LEMMA ReturnCalm ==
  ASSUME Types, Calm, NEW f \in Files, NEW i \in Items, i[1] = f,
         UNCHANGED <<fileQueue, remover, task, tasks>>, UNCHANGED Both,
         \A g \in Files \ {f} : dl'[g] = dl[g], dl'[f].item \in {i, NoItem},
         \A j \in Items \ {i} : item'[j] = item[j],
         bundle'.queueItems \ {i} = bundle.queueItems \ {i},
         bundle'.finishedFiles \ {i} = bundle.finishedFiles \ {i},
         dl[f].pc = "whole" => dl[f].item = i,
         task.phase = "fileHook" => task.item # i, ~HookAt(i),
         ReturnAt(f)', i \in bundle'.queueItems => QueuedAt(i)'
  PROVE  Calm'
<1>1. Listed' /\ Returns' /\ HookRuns' BY OthersCalm
<1>2. \A j : HookAt(j) => HookAt(j)' BY OthersCalm
<1>3. Hooks BY DEF Calm
<1>4. Hooks' BY <1>2, <1>3 DEF Hooks
<1> QED BY <1>1, <1>4 DEF Calm

\* A segment's path is looked up.
LEMMA PutSteady ==
  ASSUME Types, Steady, NEW f \in Files, putDownload(f)
  PROVE  Steady'
<1>0. UNCHANGED <<lists, tasks, task, remover, overtaken>> BY DEF putDownload
<1> SUFFICES ASSUME "item" \notin overtaken PROVE Calm' BY <1>0 DEF Steady
<1>1. Calm BY DEF Steady
<1>2. UNCHANGED <<fileQueue, bundle, item>> BY <1>0 DEF lists
<1>21. UNCHANGED Both BY <1>2 DEF Both
<1>22. PICK i : i = <<f, fileQueue[f]>> OBVIOUS
<1> DEFINE r == [pc |-> "found", item |-> i]
<1>3. /\ dl' = [dl EXCEPT ![f] = r] /\ fileQueue[f] # 0
      /\ item[i].status = "QUEUED" /\ dl[f].pc = "idle"
  BY <1>22 DEF putDownload
<1>4. i \in Items /\ i[1] = f /\ i \in Current
  BY <1>22, <1>3, CurrentIs DEF Types, ListTypes
<1>5. i \in bundle.queueItems
  <2>1. i \in Both BY <1>1, <1>4 DEF Calm, Listed
  <2>2. i \notin bundle.finishedFiles BY <1>3 DEF Types, Placed, isDownloaded
  <2> QED BY <2>1, <2>2 DEF Both
<1>6. r \in ReturnRecords /\ r.pc = "found" /\ r.item = i BY <1>4, ReturnKinds
<1> HIDE DEF r
<1>7. dl'[f] = r /\ \A g \in Files \ {f} : dl'[g] = dl[g] BY <1>3 DEF Types, Returned
<1>8. ReturnAt(f)'
  <2>1. i \in Current' BY <1>2, <1>4 DEF Current
  <2> QED BY <1>2, <1>3, <1>5, <1>6, <1>7, <2>1 DEF ReturnAt
<1>9. QueuedAt(i)' BY <1>2, <1>3 DEF QueuedAt
<1>10. ~HookAt(i) BY <1>3 DEF HookAt
<1>11. task.phase = "fileHook" => task.item # i BY <1>1, <1>3 DEF Calm, HookRuns
<1> QED BY <1>0, <1>1, <1>2, <1>21, <1>3, <1>4, <1>6, <1>7, <1>8, <1>9, <1>10, <1>11, ReturnCalm

\* A segment is added to its file.
LEMMA CompletedSteady ==
  ASSUME Types, Steady, NEW f \in Files, onFileDownloadCompleted(f)
  PROVE  Steady'
<1>0. UNCHANGED <<fileQueue, tasks, task, remover, overtaken>> BY DEF onFileDownloadCompleted
<1> SUFFICES ASSUME "item" \notin overtaken PROVE Calm' BY <1>0 DEF Steady
<1>1. Calm BY DEF Steady
<1>2. PICK i : i = dl[f].item OBVIOUS
<1>3. /\ dl[f].pc = "found" /\ i \in Items /\ i[1] = f
      /\ \A j \in Items \ {i} : item'[j] = item[j]
      /\ bundle'.queueItems = bundle.queueItems
      /\ bundle'.finishedFiles = bundle.finishedFiles
      /\ \A g \in Files \ {f} : dl'[g] = dl[g]
  BY <1>2, CompletedIs
<1>4. \/ /\ item'[i].status = "DOWNLOADED"
         /\ dl'[f].pc = "whole" /\ dl'[f].item = i
      \/ /\ item'[i].status = item[i].status
         /\ dl'[f].pc = "idle" /\ dl'[f].item = NoItem
  BY <1>2, CompletedIs
<1>5. i \in bundle.queueItems /\ i \in Current /\ item[i].status = "QUEUED"
  BY <1>1, <1>2, <1>3 DEF Calm, Returns, ReturnAt
<1>6. UNCHANGED Both /\ i \in Current' BY <1>0, <1>3, <1>5 DEF Both, Current
<1>7. ReturnAt(f)' BY <1>3, <1>4, <1>5, <1>6 DEF ReturnAt
<1>8. QueuedAt(i)' BY <1>3, <1>4, <1>5 DEF QueuedAt
<1>9. ~HookAt(i) BY <1>5 DEF HookAt
<1>10. task.phase = "fileHook" => task.item # i BY <1>1, <1>5 DEF Calm, HookRuns
<1>11. dl'[f].item \in {i, NoItem} BY <1>4
<1> QED BY <1>0, <1>1, <1>3, <1>6, <1>7, <1>8, <1>9, <1>10, <1>11, ReturnCalm

\* A file that is done moves to the finished ones.
LEMMA MovesSteady ==
  ASSUME Types, Steady, NEW f \in Files, MovesItem(f)
  PROVE  Steady'
<1>0. UNCHANGED <<fileQueue, item, tasks, task, remover, overtaken>> BY DEF MovesItem
<1> SUFFICES ASSUME "item" \notin overtaken PROVE Calm' BY <1>0 DEF Steady
<1>1. Calm BY DEF Steady
<1>2. PICK i : i = dl[f].item OBVIOUS
<1>3. /\ dl[f].pc = "whole" /\ i \in Items /\ i[1] = f
      /\ bundle'.queueItems = bundle.queueItems \ {i}
      /\ bundle'.finishedFiles = bundle.finishedFiles \cup {i}
      /\ \A g \in Files \ {f} : dl'[g] = dl[g]
      /\ dl'[f].pc \in {"emptied", "moved"} /\ dl'[f].item = i
  BY <1>2, MovesIs
<1>5. i \in bundle.queueItems /\ i \in Current /\ item[i].status = "DOWNLOADED"
  BY <1>1, <1>2, <1>3 DEF Calm, Returns, ReturnAt
<1>6. UNCHANGED Both /\ i \in Current' BY <1>0, <1>3, <1>5 DEF Both, Current
<1>7. ReturnAt(f)' BY <1>0, <1>3, <1>5, <1>6 DEF ReturnAt
<1>8. i \notin bundle'.queueItems BY <1>3
<1>9. ~HookAt(i) BY <1>2 DEF HookAt
<1>10. task.phase = "fileHook" => task.item # i BY <1>1, <1>5 DEF Calm, HookRuns
<1>11. dl'[f].item \in {i, NoItem} BY <1>3
<1> QED BY <1>0, <1>1, <1>2, <1>3, <1>6, <1>7, <1>8, <1>9, <1>10, <1>11, ReturnCalm

\* The bundle is finished.
LEMMA FinishesSteady ==
  ASSUME Types, Steady, NEW f \in Files, FinishesBundle(f)
  PROVE  Steady'
<1>0. UNCHANGED <<lists, tasks, task, remover, overtaken>> /\ dl[f].pc = "emptied"
      /\ dl' = [dl EXCEPT ![f].pc = "moved"]
  BY DEF FinishesBundle, Finishes
<1> SUFFICES ASSUME "item" \notin overtaken PROVE Calm' BY <1>0 DEF Steady
<1>1. Calm BY DEF Steady
<1>2. PICK i : i = dl[f].item OBVIOUS
<1>3. i \in Items /\ i[1] = f BY <1>0, <1>2 DEF Types, Returned, ReturnsOf
<1>4. UNCHANGED <<fileQueue, bundle, item>> BY <1>0 DEF lists
<1>5. i \in bundle.finishedFiles /\ i \in Current /\ item[i].status = "DOWNLOADED"
  BY <1>0, <1>1, <1>2 DEF Calm, Returns, ReturnAt
<1>6. UNCHANGED Both /\ i \in Current' BY <1>4, <1>5 DEF Both, Current
<1>7. /\ dl'[f].pc = "moved" /\ dl'[f].item = i
      /\ \A g \in Files \ {f} : dl'[g] = dl[g]
  <2>1. dl[f] \in ReturnRecords /\ dl \in [Files -> ReturnRecords] BY DEF Types, Returned
  <2>2. dl'[f] = [dl[f] EXCEPT !.pc = "moved"] BY <1>0, <2>1
  <2>3. dl'[f].pc = "moved" /\ dl'[f].item = dl[f].item BY <2>1, <2>2 DEF ReturnRecords
  <2> QED BY <1>0, <1>2, <2>1, <2>3
<1>8. ReturnAt(f)' BY <1>4, <1>5, <1>6, <1>7 DEF ReturnAt
<1>9. ~HookAt(i) BY <1>2 DEF HookAt
<1>10. task.phase = "fileHook" => task.item # i BY <1>1, <1>5 DEF Calm, HookRuns
<1>11. i \notin bundle'.queueItems BY <1>4, <1>5 DEF Types, Placed
<1>12. dl'[f].item \in {i, NoItem} BY <1>7
<1> QED BY <1>0, <1>1, <1>2, <1>3, <1>4, <1>6, <1>7, <1>8, <1>9, <1>10, <1>11, <1>12, ReturnCalm

\* The renamed file waits for its hooks, for the first time.
LEMMA RenameSteady ==
  ASSUME Types, Steady, NEW f \in Files, renameDownloadedFile(f)
  PROVE  Steady'
<1>0. UNCHANGED <<fileQueue, item, bundle, task, remover, overtaken>> /\ dl[f].pc = "moved"
      /\ dl' = [dl EXCEPT ![f] = NoReturn]
  BY DEF renameDownloadedFile
<1> SUFFICES ASSUME "item" \notin overtaken PROVE Calm' BY <1>0 DEF Steady
<1>1. Calm BY DEF Steady
<1>2. PICK i : i = dl[f].item OBVIOUS
<1>3. i \in Items /\ i[1] = f BY <1>0, <1>2 DEF Types, Returned, ReturnsOf
<1>5. i \in bundle.finishedFiles /\ i \in Current /\ item[i].status = "DOWNLOADED"
  BY <1>0, <1>1, <1>2 DEF Calm, Returns, ReturnAt
<1>6. UNCHANGED Both /\ i \in Current' BY <1>0, <1>5 DEF Both, Current
<1>7. /\ dl'[f].pc = "idle" /\ dl'[f].item = NoItem
      /\ \A g \in Files \ {f} : dl'[g] = dl[g]
  BY <1>0 DEF Types, Returned, NoReturn
<1>8. ReturnAt(f)' BY <1>7 DEF ReturnAt
<1>9. ~HookAt(i) BY <1>2 DEF HookAt
<1>10. task.phase = "fileHook" => task.item # i BY <1>1, <1>5 DEF Calm, HookRuns
<1>11. i \notin bundle'.queueItems BY <1>0, <1>5 DEF Types, Placed
<1>12. dl'[f].item \in {i, NoItem} BY <1>7
<1>13. /\ Listed' /\ Returns' /\ HookRuns'
       /\ \A j : j # i /\ HookAt(j) => HookAt(j)'
  BY <1>0, <1>1, <1>2, <1>3, <1>6, <1>7, <1>8, <1>10, <1>11, <1>12, OthersCalm
<1>14. HookAt(i)'
  <2>1. \A g \in Files \ {f} : dl[g].item # i
    <3> TAKE g \in Files \ {f}
    <3>1. CASE dl[g].pc # "idle" BY <1>3, <3>1 DEF Types, Returned, ReturnsOf
    <3>2. CASE dl[g].pc = "idle"
      <4>1. dl[g].item = NoItem BY <1>1, <3>2 DEF Calm, Returns, ReturnAt
      <4> QED BY <1>3, <4>1, ItemIs
    <3> QED BY <3>1, <3>2
  <2>2. \A g \in Files : dl'[g].item # i BY <1>3, <1>7, <2>1, ItemIs
  <2> QED BY <1>0, <1>5, <1>6, <2>2 DEF HookAt
<1>15. Hooks'
  <2>1. tasks \in Seq(TaskRecords) BY DEF Types, Tasked
  <2>2. Task("hooks", i) \in TaskRecords /\ Task("hooks", i).item = i
    BY <1>3 DEF Task, TaskRecords, ItemOrNone
  <2>3. tasks' = Append(tasks, Task("hooks", i)) BY <1>2 DEF renameDownloadedFile
  <2>4. /\ \A n \in DOMAIN tasks : n \in DOMAIN tasks' /\ tasks'[n] = tasks[n]
        /\ \A n \in DOMAIN tasks' :
             n \in DOMAIN tasks \/ (n = Len(tasks) + 1 /\ tasks'[n] = Task("hooks", i))
    BY <2>1, <2>2, <2>3, AppendTask
  <2>5. Hooks BY <1>1 DEF Calm
  <2>6. \A n \in DOMAIN tasks : tasks[n].type = "hooks" => tasks[n].item # i
    BY <1>9, <2>5 DEF Hooks
  <2>7. \A n \in DOMAIN tasks' : \A j : tasks'[n].type = "hooks" /\ tasks'[n].item = j => HookAt(j)'
    <3> SUFFICES ASSUME NEW n \in DOMAIN tasks', NEW j, tasks'[n].type = "hooks", tasks'[n].item = j
                 PROVE  HookAt(j)'
      OBVIOUS
    <3>1. CASE n \in DOMAIN tasks
      <4>1. tasks'[n] = tasks[n] BY <2>4, <3>1
      <4>2. HookAt(j) /\ j # i BY <2>5, <2>6, <3>1, <4>1 DEF Hooks
      <4> QED BY <1>13, <4>2
    <3>2. CASE tasks'[n] = Task("hooks", i)
      <4>1. j = i BY <2>2, <3>2
      <4> QED BY <1>14, <4>1
    <3> QED BY <2>4, <3>1, <3>2
  <2>8. \A m, n \in DOMAIN tasks' :
          tasks'[m].type = "hooks" /\ tasks'[n].type = "hooks" /\ tasks'[m].item = tasks'[n].item
          => m = n
    BY <2>2, <2>4, <2>5, <2>6 DEF Hooks
  <2> QED BY <2>7, <2>8 DEF Hooks
<1> QED BY <1>13, <1>15 DEF Calm

\* A file's hooks start or end: nothing else is disturbed.
LEMMA HookCalm ==
  ASSUME Types, Calm, NEW i \in bundle.finishedFiles,
         UNCHANGED <<fileQueue, bundle, dl, remover>>,
         \A j \in Items \ {i} : item'[j] = item[j],
         \A f \in Files : dl[f].item # i,
         NEW k \in {0, 1}, Carried(k),
         \A n \in DOMAIN tasks' : tasks'[n].type = "hooks" => tasks'[n].item # i,
         HookRuns'
  PROVE  Calm'
<1>1. Listed /\ Returns /\ Hooks BY DEF Calm
<1>2. UNCHANGED Current BY DEF Current
<1>3. /\ UNCHANGED Both /\ bundle.queueItems \subseteq Items /\ bundle.finishedFiles \subseteq Items
      /\ i \notin bundle.queueItems /\ NoItem \notin Items
  BY BundleFields, ItemIs DEF Both, Types, ListTypes, Placed
<1>4. Listed' BY <1>1, <1>2, <1>3 DEF Listed
<1>5. Returns'
  <2>1. ASSUME NEW j \in bundle.queueItems PROVE QueuedAt(j)'
    <3>1. QueuedAt(j) /\ item'[j] = item[j] BY <1>1, <1>3 DEF Returns
    <3> QED BY <3>1 DEF QueuedAt
  <2>2. ASSUME NEW f \in Files PROVE ReturnAt(f)'
    <3>1. ReturnAt(f) BY <1>1 DEF Returns
    <3>2. dl[f].pc # "idle" => item'[dl[f].item] = item[dl[f].item]
      BY DEF Types, Returned, ReturnsOf
    <3> QED BY <1>2, <3>1, <3>2 DEF ReturnAt
  <2> QED BY <2>1, <2>2 DEF Returns
<1>6. Hooks'
  <2>1. ASSUME NEW n \in DOMAIN tasks', NEW j, tasks'[n].type = "hooks", tasks'[n].item = j
        PROVE  HookAt(j)'
    <3>1. n + k \in DOMAIN tasks /\ tasks'[n] = tasks[n + k] BY <2>1 DEF Carried
    <3>2. HookAt(j) /\ j # i BY <1>1, <2>1, <3>1 DEF Hooks
    <3>3. item'[j] = item[j] BY <1>3, <3>2 DEF HookAt
    <3> QED BY <1>2, <3>2, <3>3 DEF HookAt
  <2>2. ASSUME NEW m \in DOMAIN tasks', NEW n \in DOMAIN tasks', tasks'[m].type = "hooks",
               tasks'[n].type = "hooks", tasks'[m].item = tasks'[n].item
        PROVE  m = n
    <3>1. /\ m \in Nat /\ n \in Nat /\ m + k \in DOMAIN tasks /\ n + k \in DOMAIN tasks
          /\ tasks'[m] = tasks[m + k] /\ tasks'[n] = tasks[n + k]
      BY <2>2 DEF Carried
    <3>2. m + k = n + k BY <1>1, <2>2, <3>1 DEF Hooks
    <3> QED BY <3>1, <3>2
  <2> QED BY <2>1, <2>2 DEF Hooks
<1> QED BY <1>4, <1>5, <1>6 DEF Calm

\* A file's hooks begin.
LEMMA FileHookSteady ==
  ASSUME Types, Steady, FileHook
  PROVE  Steady'
<1>0. UNCHANGED <<fileQueue, bundle, dl, remover, overtaken>> BY DEF FileHook
<1> SUFFICES ASSUME "item" \notin overtaken PROVE Calm' BY <1>0 DEF Steady
<1>1. Calm BY DEF Steady
<1>2. PICK i : i = Head(tasks).item OBVIOUS
<1>3. /\ Starts("hooks") /\ tasks # << >> /\ tasks' = Tail(tasks)
      /\ Head(tasks) = tasks[1] /\ tasks[1].type = "hooks" /\ 1 \in DOMAIN tasks
      /\ item'[i].status = "VALIDATION_RUNNING"
      /\ \A j \in Items \ {i} : item'[j] = item[j]
      /\ task'.phase = "fileHook" /\ task'.item = i
  BY <1>2, FileHookIs
<1>4. Carried(1) BY <1>3, CarriedTail DEF Types
<1>5. HookAt(i) BY <1>1, <1>2, <1>3 DEF Calm, Hooks
<1>6. i \in bundle.finishedFiles /\ i \in Current /\ \A f \in Files : dl[f].item # i
  BY <1>5 DEF HookAt
<1>7. \A n \in DOMAIN tasks' : tasks'[n].type = "hooks" => tasks'[n].item # i
  <2> SUFFICES ASSUME NEW n \in DOMAIN tasks', tasks'[n].type = "hooks", tasks'[n].item = i
               PROVE  FALSE
    OBVIOUS
  <2>1. n + 1 \in DOMAIN tasks /\ tasks'[n] = tasks[n + 1] /\ n \in Nat /\ n + 1 # 0
    BY <1>4 DEF Carried
  <2>2. n + 1 = 1 BY <1>1, <1>2, <1>3, <2>1 DEF Calm, Hooks
  <2>3. n = 0 /\ n \in DOMAIN tasks' BY <2>1, <2>2
  <2>4. tasks' \in Seq(TaskRecords) BY <1>3 DEF Types, Tasked
  <2> QED BY <2>3, <2>4
<1>8. HookRuns' BY <1>0, <1>3, <1>6 DEF HookRuns, Current
<1> QED BY <1>0, <1>1, <1>3, <1>4, <1>6, <1>7, <1>8, HookCalm

\* A file's hooks end.
LEMMA HookDoneSteady ==
  ASSUME Types, Steady, FileHookDone
  PROVE  Steady'
<1>0. UNCHANGED <<fileQueue, bundle, dl, remover, overtaken>> BY DEF FileHookDone
<1> SUFFICES ASSUME "item" \notin overtaken PROVE Calm' BY <1>0 DEF Steady
<1>1. Calm BY DEF Steady
<1>2. PICK i : i = task.item OBVIOUS
<1>3. /\ task.phase = "fileHook" /\ UNCHANGED tasks /\ i \in Items
      /\ \A j \in Items \ {i} : item'[j] = item[j]
      /\ ends \/ goes("check")
  BY <1>2, HookDoneIs
<1>4. Carried(0) BY <1>3, CarriedSame DEF Types
<1>5. i \in bundle.finishedFiles /\ item[i].status = "VALIDATION_RUNNING"
  BY <1>1, <1>2, <1>3 DEF Calm, HookRuns
<1>6. \A f \in Files : dl[f].item # i
  <2> TAKE f \in Files
  <2>1. ReturnAt(f) BY <1>1 DEF Calm, Returns
  <2>2. dl[f].pc \in {"idle", "found", "whole", "emptied", "moved"}
    BY DEF Types, Returned, ReturnRecords
  <2> QED BY <1>3, <1>5, <2>1, <2>2, ItemIs DEF ReturnAt
<1>7. \A n \in DOMAIN tasks' : tasks'[n].type = "hooks" => tasks'[n].item # i
  BY <1>1, <1>3, <1>5 DEF Calm, Hooks, HookAt
<1>8. HookRuns'
  <2>1. task'.phase # "fileHook" BY <1>3, TaskMoves
  <2> QED BY <2>1 DEF HookRuns
<1> QED BY <1>0, <1>1, <1>3, <1>4, <1>5, <1>6, <1>7, <1>8, HookCalm

\* Tasks are added or taken, and the one that runs is no file's hooks.
Tasks ==
  /\ \/ UNCHANGED tasks
     \/ \E type \in {"pause", "check", "share", "shareAnyway"} :
          Starts(type) \/ tasks' = Append(tasks, Task(type, NoItem))
  /\ task'.phase = "fileHook" => UNCHANGED task

\* The rest of the state stays when tasks do no more than that,
LEMMA TasksSteady ==
  ASSUME Types, Steady, overtaken \subseteq overtaken', Tasks,
         UNCHANGED <<fileQueue, dl, remover>>,
         bundle'.queueItems = bundle.queueItems, bundle'.finishedFiles = bundle.finishedFiles,
         \A i \in Items : item[i].status \in {"QUEUED", "DOWNLOADED", "VALIDATION_RUNNING"} =>
           item'[i].status = item[i].status
  PROVE  Steady'
<1>1. \E k \in {0, 1} : Carried(k)
  BY CarriedSame, CarriedTail, CarriedAppend DEF Types, Tasks
<1>2. PICK k \in {0, 1} : Carried(k) BY <1>1
<1>3. task'.phase = "fileHook" => UNCHANGED task BY DEF Tasks
<1> QED BY <1>2, <1>3, QuietSteady

\* and when they do nothing.
LEMMA IdleSteady ==
  ASSUME Types, Steady, overtaken \subseteq overtaken', Tasks, UNCHANGED <<lists, dl, remover>>
  PROVE  Steady'
<1>1. UNCHANGED <<fileQueue, bundle, item>> BY DEF lists
<1> QED BY <1>1, TasksSteady

\* Files that failed are accepted.
LEMMA RevalidateSteady ==
  ASSUME Types, Steady, Revalidate
  PROVE  Steady'
<1>0. UNCHANGED <<fileQueue, bundle, dl, remover, overtaken>> BY DEF Revalidate
<1>1. PICK still \in SUBSET Failed(bundle, item) :
        /\ UNCHANGED tasks
        /\ \A i \in Items :
             item'[i].status = IF i \in Failed(bundle, item) \ still THEN "COMPLETED"
                               ELSE item[i].status
        /\ goes("bundleHook") \/ ends
  BY RevalidatedIs
<1>2. \A i \in Items : item[i].status \in {"QUEUED", "DOWNLOADED", "VALIDATION_RUNNING"} =>
           item'[i].status = item[i].status
  BY <1>1 DEF Failed
<1>3. Tasks BY <1>1, TaskMoves DEF Tasks
<1> QED BY <1>0, <1>2, <1>3, TasksSteady

\* The steps of the task thread that leave the lists alone.
LEMMA ThreadSteady ==
  ASSUME Types, Steady, \/ CheckFinished \/ SetsFailed \/ CheckCompleted
                        \/ StartShare \/ BundleHook \/ ShareBundle
  PROVE  Steady'
<1>1. UNCHANGED <<lists, dl, remover, overtaken>>
  BY DEF CheckFinished, SetsFailed, CheckCompleted, Completes, StartShare, BundleHook,
         ShareBundle
<1>2. \/ UNCHANGED tasks \/ Starts("check") \/ Starts("share") \/ Starts("shareAnyway")
      \/ tasks' = Append(tasks, Task("share", NoItem))
    BY DEF CheckFinished, SetsFailed, CheckCompleted, Completes, StartShare, BundleHook,
           ShareBundle, Runs
<1>3. \/ ends \/ goes("failed") \/ goes("completed") \/ goes("revalidate")
      \/ goes("bundleHook") \/ goes("sharing")
  BY DEF CheckFinished, SetsFailed, CheckCompleted, Completes, StartShare, BundleHook,
         ShareBundle
<1>4. task'.phase # "fileHook" BY <1>3, TaskMoves
<1>5. Tasks BY <1>2, <1>4 DEF Tasks
<1> QED BY <1>1, <1>5, IdleSteady

\* A change of the priority.
LEMMA PriorityMarks ==
  ASSUME \E p \in BOOLEAN : SetPriority(p)
  PROVE  overtaken \subseteq overtaken'
<1>0. PICK p \in BOOLEAN : SetPriority(p) OBVIOUS
<1> QED BY <1>0 DEF SetPriority

\* The bundle is paused.
LEMMA PauseSteady ==
  ASSUME Types, Steady, PauseTask
  PROVE  Steady'
<1>1. UNCHANGED <<lists, dl, task, remover>> /\ Starts("pause") BY DEF PauseTask
<1>2. UNCHANGED overtaken \/ SetPriority(TRUE) BY Zenon DEF PauseTask
<1>3. UNCHANGED overtaken \/ \E p \in BOOLEAN : SetPriority(p) BY <1>2, Zenon
<1>4. overtaken \subseteq overtaken' BY <1>3, PriorityMarks
<1>5. Tasks BY <1>1 DEF Tasks
<1> QED BY <1>1, <1>4, <1>5, IdleSteady

\* A disk error, and room on the disk again.
LEMMA ErrorSteady ==
  ASSUME Types, Steady, onDownloadError \/ SetsError \/ checkDiskSpace \/ checkResumeBundles
  PROVE  Steady'
<1>1. UNCHANGED <<lists, dl, task, remover>>
  BY DEF onDownloadError, SetsError, checkDiskSpace, checkResumeBundles, threads
<1>2. UNCHANGED tasks \/ tasks' = Append(tasks, Task("pause", NoItem))
  BY DEF onDownloadError, SetsError, checkDiskSpace, checkResumeBundles, threads
<1>3. overtaken \subseteq overtaken'
  <2>1. CASE onDownloadError \/ SetsError \/ checkDiskSpace
    BY <2>1 DEF onDownloadError, SetsError, checkDiskSpace
  <2>2. CASE checkResumeBundles
    <3>1. UNCHANGED overtaken \/ SetPriority(FALSE) BY <2>2, Zenon DEF checkResumeBundles
    <3>2. UNCHANGED overtaken \/ \E p \in BOOLEAN : SetPriority(p) BY <3>1, Zenon
    <3> QED BY <3>2, PriorityMarks
  <2> QED BY <2>1, <2>2
<1>4. Tasks BY <1>1, <1>2 DEF Tasks
<1> QED BY <1>1, <1>3, <1>4, IdleSteady

\* A priority for the bundle, or it is to be shared.
LEMMA UserSteady ==
  ASSUME Types, Steady, NEW p \in BOOLEAN, setBundlePriority(p) \/ shareBundle(p)
  PROVE  Steady'
<1>1. UNCHANGED <<lists, dl, task, remover>> BY DEF setBundlePriority, shareBundle, threads
<1>2. overtaken \subseteq overtaken' BY PriorityMarks DEF setBundlePriority, shareBundle
<1>3. Tasks
  <2> DEFINE type == IF p THEN "shareAnyway" ELSE "share"
  <2>1. type \in {"share", "shareAnyway"} OBVIOUS
  <2>2. UNCHANGED tasks \/ tasks' = Append(tasks, Task(type, NoItem))
    BY DEF setBundlePriority, shareBundle, threads
  <2> HIDE DEF type
  <2> QED BY <1>1, <2>1, <2>2 DEF Tasks
<1> QED BY <1>1, <1>2, <1>3, IdleSteady

\* The refresh, the delayed check and the look at a file.
LEMMA OtherSteady ==
  ASSUME Types, Steady, \/ RefreshCompleted \/ SetsShared \/ DelayedCheck
                        \/ \E i \in Items : setQIPriority(i)
                        \/ UNCHANGED vars
  PROVE  Steady'
<1>1. UNCHANGED <<lists, dl, task, remover, overtaken>>
  BY DEF RefreshCompleted, SetsShared, DelayedCheck, setQIPriority, vars, threads
<1>2. UNCHANGED tasks \/ tasks' = Append(tasks, Task("check", NoItem))
  BY DEF RefreshCompleted, SetsShared, DelayedCheck, setQIPriority, vars, threads
<1>3. Tasks BY <1>1, <1>2 DEF Tasks
<1> QED BY <1>1, <1>3, IdleSteady

\* Priorities and sources of files, and a file that is deleted.
LEMMA FileSteady ==
  ASSUME Types, Steady, \/ SetsQIPriority \/ \E i \in Items : LoseFile(i)
                        \/ \E i \in Items, u \in Users :
                             removeFileSource(i, u) \/ addValidatedSource(i, u)
  PROVE  Steady'
<1>1. UNCHANGED <<fileQueue, bundle, dl, tasks, task, remover>> /\ overtaken \subseteq overtaken'
  BY DEF SetsQIPriority, LoseFile, removeFileSource, addValidatedSource, threads
<1>2. \A j \in Items : item'[j].status = item[j].status
  <2>1. CASE SetsQIPriority
    <3>1. PICK i : i = setter OBVIOUS
    <3>2. item'[i].status = item[i].status /\ \A j \in Items \ {i} : item'[j] = item[j]
      BY <2>1, <3>1, PrioSetIs
    <3> QED BY <3>2
  <2>2. CASE \E i \in Items : LoseFile(i) BY <2>2 DEF LoseFile
  <2>3. CASE \E i \in Items, u \in Users : removeFileSource(i, u) \/ addValidatedSource(i, u)
    <3>1. PICK i \in Items, u \in Users : removeFileSource(i, u) \/ addValidatedSource(i, u)
      BY <2>3
    <3>2. item'[i].status = item[i].status /\ \A j \in Items \ {i} : item'[j] = item[j]
      BY <3>1, SourceIs
    <3> QED BY <3>2
  <2> QED BY <2>1, <2>2, <2>3
<1>3. Tasks BY <1>1 DEF Tasks
<1> QED BY <1>1, <1>2, <1>3, TasksSteady

\* Items that nobody works on leave, come or change.
LEMMA RestCalm ==
  ASSUME Types, Calm, UNCHANGED <<dl, tasks, task>>, NEW I,
         \A f \in Files : dl[f].item \notin I,
         task.phase = "fileHook" => task.item \notin I,
         \A n \in DOMAIN tasks : tasks[n].type = "hooks" => tasks[n].item \notin I,
         \A j \in Items \ I : /\ item'[j] = item[j]
                              /\ j \in bundle'.queueItems <=> j \in bundle.queueItems
                              /\ j \in bundle'.finishedFiles <=> j \in bundle.finishedFiles
                              /\ j \in Current' <=> j \in Current,
         bundle'.queueItems \subseteq Items,
         \A j \in I : j \in bundle'.queueItems => item'[j].status = "QUEUED"
  PROVE  Returns' /\ Hooks' /\ HookRuns'
<1>1. Returns /\ Hooks /\ HookRuns BY DEF Calm
<1>2. bundle.queueItems \subseteq Items /\ bundle.finishedFiles \subseteq Items
  BY BundleFields DEF Types, ListTypes
<1>3. ASSUME NEW j \in bundle'.queueItems PROVE QueuedAt(j)'
  <2>1. CASE j \in I BY <2>1 DEF QueuedAt
  <2>2. CASE j \notin I
    <3>1. item'[j] = item[j] /\ j \in bundle.queueItems BY <2>2
    <3>2. QueuedAt(j) BY <1>1, <3>1 DEF Returns
    <3> QED BY <3>1, <3>2 DEF QueuedAt
  <2> QED BY <2>1, <2>2
<1>4. ASSUME NEW f \in Files PROVE ReturnAt(f)'
  <2>1. ReturnAt(f) BY <1>1 DEF Returns
  <2>2. CASE dl[f].pc = "idle" BY <2>1, <2>2 DEF ReturnAt
  <2>3. CASE dl[f].pc # "idle"
    <3>1. dl[f].item \in Items \ I BY <2>3 DEF Types, Returned, ReturnsOf
    <3> QED BY <2>1, <2>3, <3>1 DEF ReturnAt
  <2> QED BY <2>2, <2>3
<1>5. Returns' BY <1>3, <1>4 DEF Returns
<1>6. ASSUME NEW j, j \notin I, HookAt(j) PROVE HookAt(j)'
  <2>1. j \in Items \ I BY <1>2, <1>6 DEF HookAt
  <2> QED BY <1>6, <2>1 DEF HookAt
<1>7. Hooks' BY <1>1, <1>6 DEF Hooks
<1>8. HookRuns'
  <2> SUFFICES ASSUME task.phase = "fileHook"
               PROVE  /\ task.item \in bundle'.finishedFiles /\ task.item \in Current'
                      /\ item'[task.item].status = "VALIDATION_RUNNING"
    BY DEF HookRuns
  <2>1. task.item \in Items \ I BY <1>1, <1>2 DEF HookRuns
  <2> QED BY <1>1, <2>1 DEF HookRuns
<1> QED BY <1>5, <1>7, <1>8

\* The file that is removed is off its path.
LEMMA RemoveCurrent ==
  ASSUME Types, NEW i \in Items, removeQI(i)
  PROVE  Current' = Current \ {i}
<1>2. /\ i \in Current
      /\ fileQueue' \in [Files -> 0..Gens]
      /\ fileQueue'[i[1]] = 0 /\ \A f \in Files \ {i[1]} : fileQueue'[f] = fileQueue[f]
  BY RemoveIs
<1>3. /\ Current \subseteq Items /\ Current' \subseteq Items
      /\ \A j \in Items : j \in Current <=> fileQueue[j[1]] = j[2]
      /\ \A j \in Items : j \in Current' <=> fileQueue'[j[1]] = j[2]
  BY <1>2, CurrentNext
<1>4. Current' = Current \ {i}
  <2>1. ASSUME NEW j \in Items PROVE j \in Current' <=> j \in Current /\ j # i
    <3>1. /\ j[1] \in Files /\ j[2] # 0 /\ j = <<j[1], j[2]>> /\ i = <<i[1], i[2]>>
          /\ fileQueue[i[1]] = i[2]
      BY <1>2, <1>3, ItemIs, Sizes
    <3>2. CASE j[1] = i[1] BY <1>2, <1>3, <3>1, <3>2
    <3>3. CASE j[1] # i[1] BY <1>2, <1>3, <3>1, <3>3
    <3> QED BY <3>2, <3>3
  <2> QED BY <1>3, <2>1
<1> QED BY <1>4

\* A file is taken off its path,
LEMMA RemoveSteady ==
  ASSUME Types, Steady, NEW i \in Items, removeQI(i)
  PROVE  Steady'
<1>0. UNCHANGED <<item, bundle, dl, tasks, task>> /\ overtaken' = overtaken \cup Overtakes({i})
  BY DEF removeQI
<1> SUFFICES ASSUME "item" \notin overtaken' PROVE Calm' BY DEF Steady
<1>1. Calm /\ "item" \notin Overtakes({i}) BY <1>0 DEF Steady
<1>2. /\ i \in Current /\ remover.pc = "idle"
      /\ fileQueue' \in [Files -> 0..Gens]
      /\ fileQueue'[i[1]] = 0 /\ \A f \in Files \ {i[1]} : fileQueue'[f] = fileQueue[f]
      /\ remover'.pc = "removed" /\ remover'.item = i
  BY RemoveIs
<1>4. Current' = Current \ {i} BY RemoveCurrent
<1>5. Listed' BY <1>0, <1>1, <1>2, <1>4 DEF Calm, Listed, Both
<1>6. /\ \A f \in Files : dl[f].item # i
      /\ task.item # i
      /\ \A n \in DOMAIN tasks : tasks[n].item # i
  BY <1>1, OvertakesNone
<1>7. i \in bundle'.queueItems => item'[i].status = "QUEUED"
  <2>1. i[1] \in Files BY ItemIs
  <2> QED BY <1>0, <1>1, <1>6, <2>1 DEF Calm, Returns, QueuedAt
<1>8. bundle'.queueItems \subseteq Items BY <1>0, BundleFields DEF Types, ListTypes
<1>9. Returns' /\ Hooks' /\ HookRuns'
  <2>1. PICK I : I = {i} OBVIOUS
  <2>2. \A f \in Files : dl[f].item \notin I BY <1>6, <2>1
  <2>3. task.item \notin I BY <1>6, <2>1
  <2>4. \A n \in DOMAIN tasks : tasks[n].item \notin I BY <1>6, <2>1
  <2>5. \A j \in I : j \in bundle'.queueItems => item'[j].status = "QUEUED" BY <1>7, <2>1
  <2>6. \A j \in Items \ I : j \in Current' <=> j \in Current BY <1>4, <2>1
  <2> QED BY <1>0, <1>1, <1>8, <2>2, <2>3, <2>4, <2>5, <2>6, RestCalm
<1> QED BY <1>5, <1>9 DEF Calm

\* and out of its bundle.
LEMMA RemovesSteady ==
  ASSUME Types, Steady, RemovesItem
  PROVE  Steady'
<1>0. UNCHANGED <<fileQueue, item, dl, tasks, task>> /\ overtaken \subseteq overtaken'
  BY DEF RemovesItem
<1> SUFFICES ASSUME "item" \notin overtaken' PROVE Calm' BY DEF Steady
<1>1. Calm BY <1>0 DEF Steady
<1>2. PICK i : i = remover.item OBVIOUS
<1>3. /\ remover.pc = "removed" /\ i \in Items
      /\ isDownloaded(item[i].status) =>
           /\ bundle'.queueItems = bundle.queueItems
           /\ bundle'.finishedFiles = bundle.finishedFiles \ {i}
      /\ ~isDownloaded(item[i].status) =>
           /\ bundle'.queueItems = bundle.queueItems \ {i}
           /\ bundle'.finishedFiles = bundle.finishedFiles
      /\ remover'.pc \in {"idle", "empty"}
  BY <1>2, RemovesIs
<1>4. i \in Both /\ i \notin Current BY <1>1, <1>2, <1>3 DEF Calm, Listed
<1>5. UNCHANGED Current BY <1>0 DEF Current
<1>6. \A f \in Files : dl[f].item # i
  <2> TAKE f \in Files
  <2>1. ReturnAt(f) BY <1>1 DEF Calm, Returns
  <2>2. dl[f].pc \in {"idle", "found", "whole", "emptied", "moved"}
    BY DEF Types, Returned, ReturnRecords
  <2> QED BY <1>3, <1>4, <2>1, <2>2, ItemIs DEF ReturnAt
<1>7. \A n \in DOMAIN tasks : tasks[n].type = "hooks" => tasks[n].item # i
  BY <1>1, <1>4 DEF Calm, Hooks, HookAt
<1>8. task.phase = "fileHook" => task.item # i BY <1>1, <1>4 DEF Calm, HookRuns
<1>9. /\ i \in bundle.queueItems => ~isDownloaded(item[i].status)
      /\ i \in bundle.finishedFiles => isDownloaded(item[i].status)
  <2>1. i[1] \in Files BY <1>3, ItemIs
  <2>2. i \in bundle.queueItems => item[i].status = "QUEUED"
    BY <1>1, <1>6, <2>1 DEF Calm, Returns, QueuedAt
  <2> QED BY <2>2 DEF isDownloaded, Types, Placed
<1>10. /\ bundle'.queueItems = bundle.queueItems \ {i}
       /\ bundle'.finishedFiles = bundle.finishedFiles \ {i}
  BY <1>3, <1>4, <1>9 DEF Both
<1>11. Listed' BY <1>1, <1>2, <1>3, <1>4, <1>5, <1>10 DEF Calm, Listed, Both
<1>12. bundle'.queueItems \subseteq Items BY <1>10, BundleFields DEF Types, ListTypes
<1>13. Returns' /\ Hooks' /\ HookRuns'
  <2>1. PICK I : I = {i} OBVIOUS
  <2>2. \A f \in Files : dl[f].item \notin I BY <1>6, <2>1
  <2>3. task.phase = "fileHook" => task.item \notin I BY <1>8, <2>1
  <2>4. \A n \in DOMAIN tasks : tasks[n].type = "hooks" => tasks[n].item \notin I
    BY <1>7, <2>1
  <2>5. \A j \in I : j \notin bundle'.queueItems BY <1>10, <2>1
  <2>6. \A j \in Items \ I : /\ j \in Current' <=> j \in Current
                             /\ j \in bundle'.queueItems <=> j \in bundle.queueItems
                             /\ j \in bundle'.finishedFiles <=> j \in bundle.finishedFiles
    BY <1>5, <1>10, <2>1
  <2> QED BY <1>0, <1>1, <1>12, <2>2, <2>3, <2>4, <2>5, <2>6, RestCalm
<1> QED BY <1>11, <1>13 DEF Calm

\* A path gets a new item, others lose theirs.
LEMMA AddFileCurrent ==
  ASSUME Types, NEW f \in Files, NEW u \in Users, addBundleFile(f, u),
         NEW i, NEW old, NEW R, i = NewItem(f), old = OldItem(f), R = GoneWith(f)
  PROVE  /\ Current' \subseteq Items
         /\ \A j \in Items : j \in Current' <=> j = i \/ (j \in Current /\ j # old /\ j \notin R)
<1>1. made[f] < Gens BY DEF addBundleFile
<1>2. /\ fileQueue' \in [Files -> 0..Gens]
      /\ fileQueue'[f] = i[2]
      /\ \A g \in Files \ {f} :
           fileQueue'[g] = IF <<g, fileQueue[g]>> \in R THEN 0 ELSE fileQueue[g]
  BY AddFileIs
<1>3. i \in Items /\ i[1] = f /\ i[2] # 0 BY <1>1, FreshIs
<1>4. old = <<f, fileQueue[f]>> BY DEF OldItem
<1>7. /\ Current \subseteq Items /\ Current' \subseteq Items
      /\ \A j \in Items : j \in Current <=> fileQueue[j[1]] = j[2]
      /\ \A j \in Items : j \in Current' <=> fileQueue'[j[1]] = j[2]
  BY <1>2, CurrentNext
<1>8. ASSUME NEW j \in Items
      PROVE  j \in Current' <=> j = i \/ (j \in Current /\ j # old /\ j \notin R)
  <2>1. j[1] \in Files /\ j[2] # 0 /\ j = <<j[1], j[2]>> BY ItemIs, Sizes
  <2>2. CASE j[1] = f
    <3>1. i = <<f, i[2]>> BY <1>3, ItemIs
    <3>2. j \in Current' <=> j = i BY <1>2, <1>7, <2>1, <2>2, <3>1
    <3>3. j \in Current => j = old BY <1>4, <1>7, <2>1, <2>2
    <3> QED BY <3>2, <3>3
  <2>3. CASE j[1] # f
    <3>1. j # i /\ j # old BY <1>3, <1>4, <2>1, <2>3
    <3>2. j \in Current => <<j[1], fileQueue[j[1]]>> = j BY <1>7, <2>1
    <3>3. fileQueue'[j[1]] = IF <<j[1], fileQueue[j[1]]>> \in R THEN 0 ELSE fileQueue[j[1]]
      BY <1>2, <2>1, <2>3
    <3>4. j \in Current' => j \in Current /\ <<j[1], fileQueue[j[1]]>> \notin R
      BY <1>7, <2>1, <3>3
    <3>5. j \in Current /\ j \notin R => j \in Current' BY <1>7, <3>2, <3>3
    <3> QED BY <3>1, <3>2, <3>4, <3>5
  <2> QED BY <2>2, <2>3
<1> QED BY <1>7, <1>8

\* A file is queued again.
LEMMA AddFileSteady ==
  ASSUME Types, Steady, NEW f \in Files, NEW u \in Users, addBundleFile(f, u)
  PROVE  Steady'
<1>0. UNCHANGED <<dl, tasks, task, remover>> /\ made[f] < Gens
  BY DEF addBundleFile, threads
<1>01. PICK i, old, R : i = NewItem(f) /\ old = OldItem(f) /\ R = GoneWith(f) OBVIOUS
<1>2. /\ R \subseteq bundle.finishedFiles \ {old}
      /\ fileQueue[f] # 0 => old \in Items /\ old \in Current /\ item[old].status = "COMPLETED"
      /\ fileQueue[f] = 0 => old \notin Items
      /\ bundle' \in BundleRecords
      /\ bundle'.queueItems = bundle.queueItems \cup {i}
      /\ bundle'.finishedFiles = (bundle.finishedFiles \ {old}) \ R
      /\ item'[i].status = "QUEUED"
      /\ \A j \in Items \ {i} : item'[j] = item[j]
      /\ fileQueue' \in [Files -> 0..Gens]
      /\ fileQueue'[f] = i[2]
      /\ \A g \in Files \ {f} :
           fileQueue'[g] = IF <<g, fileQueue[g]>> \in R THEN 0 ELSE fileQueue[g]
      /\ overtaken \subseteq overtaken' /\ Overtakes(R \cup {old}) \subseteq overtaken'
  BY <1>01, AddFileIs
<1>3. /\ i \in Items /\ i[1] = f /\ i[2] # 0
      /\ i \notin bundle.queueItems /\ i \notin bundle.finishedFiles /\ i \notin Current
  BY <1>0, <1>01, FreshIs
<1>4. old = <<f, fileQueue[f]>> BY <1>01 DEF OldItem
<1> SUFFICES ASSUME "item" \notin overtaken' PROVE Calm' BY DEF Steady
<1>5. Calm /\ "item" \notin Overtakes(R \cup {old}) BY <1>2 DEF Steady
<1>6. /\ \A g \in Files : dl[g].item \notin R \cup {old}
      /\ remover.item \notin R \cup {old} /\ task.item \notin R \cup {old}
      /\ \A n \in DOMAIN tasks : tasks[n].item \notin R \cup {old}
  BY <1>5, OvertakesNone
<1>7. Current' \subseteq Items
      /\ \A j \in Items : j \in Current' <=> j = i \/ (j \in Current /\ j # old /\ j \notin R)
  BY <1>01, AddFileCurrent
<1>9. old \notin bundle.queueItems
  <2> SUFFICES ASSUME old \in bundle.queueItems PROVE FALSE OBVIOUS
  <2>1. old \in Items BY BundleFields DEF Types, ListTypes
  <2>2. old[1] \in Files /\ item[old].status = "COMPLETED" BY <1>2, <2>1, ItemIs
  <2> QED BY <1>5, <1>6, <2>2 DEF Calm, Returns, QueuedAt
<1>10. R \cap bundle.queueItems = {} BY <1>2 DEF Types, Placed
<1>11. /\ bundle.queueItems \subseteq Items /\ bundle.finishedFiles \subseteq Items
       /\ bundle'.queueItems \subseteq Items
  BY <1>2, BundleFields DEF Types, ListTypes
<1>12. Listed'
  <2>1. Listed BY <1>5 DEF Calm
  <2>2. \A j \in Items : j \in Both' <=> j = i \/ (j \in Both /\ j # old /\ j \notin R)
    BY <1>2, <1>3, <1>9, <1>10 DEF Both
  <2>3. Both' \subseteq Items BY <1>2, <1>11, <1>3 DEF Both
  <2>4. remover.pc = "removed" => remover.item \in Both /\ remover.item \notin Current
                                  /\ remover.item # i /\ remover.item \in Items
    BY <1>3, <1>11, <2>1 DEF Listed, Both
  <2>5. Current' \subseteq Both' BY <1>7, <2>1, <2>2 DEF Listed
  <2>6. \A j \in Both' : j \in Current' \/ (remover.pc = "removed" /\ j = remover.item)
    BY <1>7, <2>1, <2>2, <2>3 DEF Listed
  <2>7. remover.pc = "removed" => remover.item \in Both' /\ remover.item \notin Current'
    BY <1>6, <1>7, <2>2, <2>4
  <2> QED BY <1>0, <2>5, <2>6, <2>7 DEF Listed
<1>13. /\ \A g \in Files : dl[g].item # i
       /\ task.phase = "fileHook" => task.item # i
       /\ \A n \in DOMAIN tasks : tasks[n].type = "hooks" => tasks[n].item # i
  <2>1. ASSUME NEW g \in Files PROVE dl[g].item # i
    <3>1. ReturnAt(g) BY <1>5 DEF Calm, Returns
    <3>2. dl[g].pc \in {"idle", "found", "whole", "emptied", "moved"}
      BY DEF Types, Returned, ReturnRecords
    <3> QED BY <1>3, <3>1, <3>2, ItemIs DEF ReturnAt
  <2> QED BY <1>3, <1>5, <2>1 DEF Calm, HookRuns, Hooks, HookAt
<1>14. Returns' /\ Hooks' /\ HookRuns'
  <2>1. PICK I : I = R \cup {old} \cup {i} OBVIOUS
  <2>2. \A g \in Files : dl[g].item \notin I BY <1>6, <1>13, <2>1
  <2>3. task.phase = "fileHook" => task.item \notin I BY <1>6, <1>13, <2>1
  <2>4. \A n \in DOMAIN tasks : tasks[n].type = "hooks" => tasks[n].item \notin I
    BY <1>6, <1>13, <2>1
  <2>5. \A j \in I : j \in bundle'.queueItems => item'[j].status = "QUEUED"
    BY <1>2, <1>9, <1>10, <2>1
  <2>6. \A j \in Items \ I : /\ item'[j] = item[j]
                             /\ j \in Current' <=> j \in Current
                             /\ j \in bundle'.queueItems <=> j \in bundle.queueItems
                             /\ j \in bundle'.finishedFiles <=> j \in bundle.finishedFiles
    BY <1>2, <1>7, <2>1
  <2> QED BY <1>0, <1>5, <1>11, <2>2, <2>3, <2>4, <2>5, <2>6, RestCalm
<1> QED BY <1>12, <1>14 DEF Calm

\* Paths whose files are gone from the disk lose their items.
LEMMA RecheckCurrent ==
  ASSUME Types, NEW i \in Items, handleFailedRecheckItems(i), NEW R, R = GoneOnRecheck(i)
  PROVE  /\ Current \subseteq Items /\ Current' \subseteq Items
         /\ \A j \in Items : j \in Current' <=> j \in Current /\ j \notin R
<1>2. /\ fileQueue' \in [Files -> 0..Gens]
      /\ \A g \in Files :
           fileQueue'[g] = IF <<g, fileQueue[g]>> \in R THEN 0 ELSE fileQueue[g]
  BY RecheckIs
<1>7. /\ Current \subseteq Items /\ Current' \subseteq Items
      /\ \A j \in Items : j \in Current <=> fileQueue[j[1]] = j[2]
      /\ \A j \in Items : j \in Current' <=> fileQueue'[j[1]] = j[2]
  BY <1>2, CurrentNext
<1>8. ASSUME NEW j \in Items
      PROVE  j \in Current' <=> j \in Current /\ j \notin R
  <2>1. j[1] \in Files /\ j[2] # 0 /\ j = <<j[1], j[2]>> BY ItemIs, Sizes
  <2>2. j \in Current => <<j[1], fileQueue[j[1]]>> = j BY <1>7, <2>1
  <2>3. fileQueue'[j[1]] = IF <<j[1], fileQueue[j[1]]>> \in R THEN 0 ELSE fileQueue[j[1]]
    BY <1>2, <2>1
  <2>4. j \in Current' => j \in Current /\ <<j[1], fileQueue[j[1]]>> \notin R
    BY <1>7, <2>1, <2>3
  <2>5. j \in Current /\ j \notin R => j \in Current' BY <1>7, <2>2, <2>3
  <2> QED BY <2>2, <2>4, <2>5
<1> QED BY <1>7, <1>8

\* A damaged file is queued again.
LEMMA RecheckSteady ==
  ASSUME Types, Steady, NEW i \in Items, handleFailedRecheckItems(i)
  PROVE  Steady'
<1>0. UNCHANGED <<dl, tasks, task, remover>> BY DEF handleFailedRecheckItems, threads
<1>01. PICK R : R = GoneOnRecheck(i) OBVIOUS
<1>2. /\ i \in Current /\ i \in bundle.finishedFiles
      /\ R \subseteq bundle.finishedFiles \ {i}
      /\ bundle' \in BundleRecords
      /\ bundle'.queueItems = bundle.queueItems \cup {i}
      /\ bundle'.finishedFiles = (bundle.finishedFiles \ {i}) \ R
      /\ item'[i].status = "QUEUED"
      /\ \A j \in Items \ {i} : item'[j] = item[j]
      /\ fileQueue' \in [Files -> 0..Gens]
      /\ \A g \in Files :
           fileQueue'[g] = IF <<g, fileQueue[g]>> \in R THEN 0 ELSE fileQueue[g]
      /\ overtaken \subseteq overtaken' /\ Overtakes(R \cup {i}) \subseteq overtaken'
  BY <1>01, RecheckIs
<1> SUFFICES ASSUME "item" \notin overtaken' PROVE Calm' BY DEF Steady
<1>5. Calm /\ "item" \notin Overtakes(R \cup {i}) BY <1>2 DEF Steady
<1>6. /\ \A g \in Files : dl[g].item \notin R \cup {i}
      /\ remover.item \notin R \cup {i} /\ task.item \notin R \cup {i}
      /\ \A n \in DOMAIN tasks : tasks[n].item \notin R \cup {i}
  BY <1>5, OvertakesNone
<1>7. Current' \subseteq Items /\ Current \subseteq Items
      /\ \A j \in Items : j \in Current' <=> j \in Current /\ j \notin R
  BY <1>01, RecheckCurrent
<1>10. R \cap bundle.queueItems = {} BY <1>2 DEF Types, Placed
<1>11. /\ bundle.queueItems \subseteq Items /\ bundle.finishedFiles \subseteq Items
       /\ bundle'.queueItems \subseteq Items
  BY <1>2, BundleFields DEF Types, ListTypes
<1>12. Listed'
  <2>1. Listed BY <1>5 DEF Calm
  <2>2. Both' = Both \ R BY <1>2, <1>10 DEF Both
  <2>3. Both \subseteq Items BY <1>11 DEF Both
  <2> QED BY <1>0, <1>6, <1>7, <2>1, <2>2, <2>3 DEF Listed
<1>14. Returns' /\ Hooks' /\ HookRuns'
  <2>1. PICK I : I = R \cup {i} OBVIOUS
  <2>2. \A g \in Files : dl[g].item \notin I BY <1>6, <2>1
  <2>3. task.item \notin I BY <1>6, <2>1
  <2>4. \A n \in DOMAIN tasks : tasks[n].item \notin I BY <1>6, <2>1
  <2>5. \A j \in I : j \in bundle'.queueItems => item'[j].status = "QUEUED"
    BY <1>2, <1>10, <2>1
  <2>6. \A j \in Items \ I : /\ item'[j] = item[j]
                             /\ j \in Current' <=> j \in Current
                             /\ j \in bundle'.queueItems <=> j \in bundle.queueItems
                             /\ j \in bundle'.finishedFiles <=> j \in bundle.finishedFiles
    BY <1>2, <1>7, <2>1
  <2> QED BY <1>0, <1>5, <1>11, <2>2, <2>3, <2>4, <2>5, <2>6, RestCalm
<1> QED BY <1>12, <1>14 DEF Calm

\* No path keeps its item when the bundle is removed.
LEMMA BundleGoneCurrent ==
  ASSUME Types, Calm, removeBundle
  PROVE  Current' = {}
<1>1. /\ fileQueue' \in [Files -> 0..Gens]
      /\ \A f \in Files :
           fileQueue'[f] = IF \E i \in Both : i[1] = f THEN 0 ELSE fileQueue[f]
  BY BundleGoneIs DEF Both
<1>6. Current' = {}
  <2>1. /\ Current \subseteq Items /\ Current' \subseteq Items
        /\ \A j \in Items : j \in Current <=> fileQueue[j[1]] = j[2]
        /\ \A j \in Items : j \in Current' <=> fileQueue'[j[1]] = j[2]
    BY <1>1, CurrentNext
  <2>2. ASSUME NEW j \in Items, j \in Current' PROVE FALSE
    <3>1. j[1] \in Files /\ j[2] # 0 BY ItemIs, Sizes
    <3>2. fileQueue'[j[1]] = j[2] BY <2>1, <2>2
    <3>3. ~\E i \in Both : i[1] = j[1] BY <1>1, <3>1, <3>2
    <3>4. j \in Current BY <1>1, <2>1, <3>1, <3>2
    <3>5. j \in Both BY <3>4 DEF Calm, Listed
    <3> QED BY <3>3, <3>5
  <2> QED BY <2>1, <2>2
<1> QED BY <1>6

\* The bundle is removed.
LEMMA BundleGoneSteady ==
  ASSUME Types, Steady, removeBundle
  PROVE  Steady'
<1>0. UNCHANGED <<item, dl, tasks, task>> /\ overtaken' = overtaken \cup Overtakes(Both)
  BY DEF removeBundle, Both
<1>1. /\ bundle'.queueItems = {i \in bundle.queueItems : isDownloaded(item[i].status)}
      /\ bundle'.finishedFiles = {}
      /\ fileQueue' \in [Files -> 0..Gens]
      /\ \A f \in Files :
           fileQueue'[f] = IF \E i \in Both : i[1] = f THEN 0 ELSE fileQueue[f]
      /\ UNCHANGED remover \/ remover' = NoReturn
  BY BundleGoneIs DEF Both
<1> SUFFICES ASSUME "item" \notin overtaken' PROVE Calm' BY DEF Steady
<1>2. Calm /\ "item" \notin Overtakes(Both) BY <1>0 DEF Steady
<1>3. /\ \A g \in Files : dl[g].item \notin Both
      /\ remover.item \notin Both /\ task.item \notin Both
      /\ \A n \in DOMAIN tasks : tasks[n].item \notin Both
  BY <1>2, OvertakesNone
<1>4. bundle.queueItems \subseteq Items /\ bundle.finishedFiles \subseteq Items
  BY BundleFields DEF Types, ListTypes
<1>5. bundle'.queueItems = {}
  <2>1. ASSUME NEW i \in bundle.queueItems PROVE item[i].status = "QUEUED"
    <3>1. i \in Both /\ i[1] \in Files BY <1>4, ItemIs DEF Both
    <3> QED BY <1>2, <1>3, <3>1 DEF Calm, Returns, QueuedAt
  <2> QED BY <1>1, <2>1 DEF isDownloaded
<1>6. Current' = {} BY <1>2, BundleGoneCurrent
<1>7. remover'.pc # "removed"
  BY <1>1, <1>2, <1>3 DEF Calm, Listed, NoReturn
<1>8. Listed' BY <1>1, <1>5, <1>6, <1>7 DEF Listed, Both
<1>9. Current \subseteq Both /\ \A j \in Both : j \in Current BY <1>2, <1>3 DEF Calm, Listed
<1>10. Returns' /\ Hooks' /\ HookRuns'
  <2>1. PICK I : I = Both OBVIOUS
  <2>2. \A g \in Files : dl[g].item \notin I BY <1>3, <2>1
  <2>3. task.item \notin I BY <1>3, <2>1
  <2>4. \A n \in DOMAIN tasks : tasks[n].item \notin I BY <1>3, <2>1
  <2>5. bundle'.queueItems \subseteq Items /\ \A j \in I : j \notin bundle'.queueItems BY <1>5
  <2>6. \A j \in Items \ I : /\ item'[j] = item[j]
                             /\ j \in Current' <=> j \in Current
                             /\ j \in bundle'.queueItems <=> j \in bundle.queueItems
                             /\ j \in bundle'.finishedFiles <=> j \in bundle.finishedFiles
    <3>1. \A j : j \notin I => j \notin bundle.queueItems /\ j \notin bundle.finishedFiles
                               /\ j \notin Current
      BY <1>9, <2>1 DEF Both
    <3> QED BY <1>0, <1>1, <1>5, <1>6, <3>1
  <2> QED BY <1>0, <1>2, <2>2, <2>3, <2>4, <2>5, <2>6, RestCalm
<1> QED BY <1>8, <1>10 DEF Calm

\* At first all is calm,
LEMMA SteadyInit == Init => Steady
<1> SUFFICES ASSUME Init PROVE Calm BY DEF Steady
<1>1. bundle.queueItems = FirstItems /\ bundle.finishedFiles = {} /\ Current = FirstItems
  BY InitIs
<1>2. Listed
  <2>1. remover = NoReturn BY DEF Init
  <2> QED BY <1>1, <2>1 DEF Listed, Both, NoReturn
<1>3. Returns
  <2>1. \A f \in Files : dl[f].pc = "idle" /\ dl[f].item = NoItem BY DEF Init, NoReturn
  <2>2. \A i \in FirstItems : item[i].status = "QUEUED" BY InitIs, FirstItemsAre
  <2> QED BY <1>1, <2>1, <2>2 DEF Returns, ReturnAt, QueuedAt
<1>4. Hooks BY DEF Init, Hooks
<1>5. HookRuns BY DEF Init, HookRuns, NoTask
<1> QED BY <1>2, <1>3, <1>4, <1>5 DEF Calm

\* and every step keeps it until an operation overtakes another.
LEMMA SteadyStep == Types /\ Steady /\ [Next]_vars => Steady'
<1> SUFFICES ASSUME Types, Steady, [Next]_vars PROVE Steady' OBVIOUS
<1>1. ASSUME NEW f \in Files, putDownload(f) PROVE Steady' BY <1>1, PutSteady
<1>2. ASSUME NEW f \in Files, Returning(f) PROVE Steady'
  BY <1>2, CompletedSteady, MovesSteady, FinishesSteady, RenameSteady DEF Returning
<1>3. ASSUME onDownloadError \/ SetsError \/ checkDiskSpace \/ checkResumeBundles PROVE Steady'
  BY <1>3, ErrorSteady
<1>4. ASSUME TaskThread PROVE Steady'
  BY <1>4, FileHookSteady, HookDoneSteady, RevalidateSteady, ThreadSteady, PauseSteady
  DEF TaskThread
<1>5. ASSUME Refreshing \/ DelayedCheck PROVE Steady' BY <1>5, OtherSteady DEF Refreshing
<1>6. ASSUME NEW p \in BOOLEAN, setBundlePriority(p) \/ shareBundle(p) PROVE Steady'
  BY <1>6, UserSteady
<1>7. ASSUME NEW i \in Items, \/ setQIPriority(i) \/ handleFailedRecheckItems(i)
                              \/ LoseFile(i) \/ removeQI(i)
      PROVE  Steady'
  BY <1>7, OtherSteady, RecheckSteady, FileSteady, RemoveSteady
<1>8. ASSUME NEW i \in Items, NEW u \in Users, removeFileSource(i, u) \/ addValidatedSource(i, u)
      PROVE  Steady'
  BY <1>8, FileSteady
<1>9. ASSUME NEW f \in Files, NEW u \in Users, addBundleFile(f, u) PROVE Steady'
  BY <1>9, AddFileSteady
<1>10. ASSUME SetsQIPriority \/ RemovesItem \/ removeBundle PROVE Steady'
  BY <1>10, FileSteady, RemovesSteady, BundleGoneSteady
<1>11. ASSUME UNCHANGED vars PROVE Steady' BY <1>11, OtherSteady
<1> QED BY <1>1, <1>2, <1>3, <1>4, <1>5, <1>6, <1>7, <1>8, <1>9, <1>10, <1>11 DEF Next

-----------------------------------------------------------------------------
(* The status is right.                                                    *)

\* What still waits to set the status from what it has found.
Emptying == \E f \in Files : dl[f].pc = "emptied"
Shares == \E n \in DOMAIN tasks : tasks[n].type = "share"
SharesAnyway == \E n \in DOMAIN tasks : tasks[n].type = "shareAnyway"
Waiting ==
  \/ Emptying \/ Shares \/ SharesAnyway \/ refresh = "found"
  \/ task.phase \in {"failed", "revalidate", "bundleHook", "sharing"}
Down == isDownloaded(status) \/ Waiting

\* Who relies on the hooks of all files, and who on that they have been run.
Sound ==
  isCompleted(status) \/ task.phase \in {"bundleHook", "sharing"} \/ refresh = "found"
Checking == task.phase = "revalidate" \/ Shares
AllDone == \A i \in bundle.finishedFiles : item[i].status = "COMPLETED"
AllChecked == \A i \in bundle.finishedFiles : item[i].status \in {"COMPLETED", "VALIDATION_ERROR"}
Validated == (Sound => AllDone) /\ (Checking => AllChecked) /\ ~SharesAnyway

\* No queued files when the bundle is down, no search when there are none.
Free == {"item", "status", "last"} \cap overtaken = {}
Unsearched == "search" \notin overtaken /\ bundle.queueItems = {} => searched = 0
Settled ==
  /\ paused => searched = 0
  /\ Free => /\ Down => bundle.queueItems = {}
             /\ Unsearched
             /\ "share" \notin overtaken => Validated

-----------------------------------------------------------------------------
\* A task is taken,
LEMMA SharesTail ==
  ASSUME Tasked, NEW type, Starts(type)
  PROVE  /\ Shares' => Shares
         /\ SharesAnyway' => SharesAnyway
         /\ type = "share" => Shares
         /\ type = "shareAnyway" => SharesAnyway
         /\ task.phase = "none"
<1>1. /\ tasks \in Seq(TaskRecords) /\ tasks # << >> /\ tasks' = Tail(tasks)
      /\ Head(tasks).type = type /\ task = NoTask
  BY DEF Tasked, Starts
<1>2. /\ 1 \in DOMAIN tasks /\ Head(tasks) = tasks[1]
      /\ \A n \in DOMAIN tasks' : n + 1 \in DOMAIN tasks /\ tasks'[n] = tasks[n + 1]
  BY <1>1, TakeTask
<1> QED BY <1>1, <1>2 DEF Shares, SharesAnyway, NoTask

\* added,
LEMMA SharesAppend ==
  ASSUME Tasked, NEW type \in {"hooks", "pause", "check", "share", "shareAnyway"},
         NEW j \in ItemOrNone, tasks' = Append(tasks, Task(type, j))
  PROVE  /\ Shares' => Shares \/ type = "share"
         /\ SharesAnyway' => SharesAnyway \/ type = "shareAnyway"
<1>1. tasks \in Seq(TaskRecords) BY DEF Tasked
<1>2. Task(type, j) \in TaskRecords /\ Task(type, j).type = type
  BY DEF Task, TaskRecords
<1>3. \A n \in DOMAIN tasks' :
        (n \in DOMAIN tasks /\ tasks'[n] = tasks[n]) \/ tasks'[n] = Task(type, j)
  BY <1>1, <1>2, AppendTask
<1> QED BY <1>2, <1>3 DEF Shares, SharesAnyway

\* or none is.
LEMMA SharesSame ==
  UNCHANGED tasks => (Shares' => Shares) /\ (SharesAnyway' => SharesAnyway)
BY DEF Shares, SharesAnyway

\* A step that keeps what was relied on.
LEMMA KeepsValidated ==
  ASSUME AllDone => AllDone', AllChecked => AllChecked', Sound' => Sound,
         Checking' => Checking, SharesAnyway' => SharesAnyway
  PROVE  Validated => Validated'
BY DEF Validated

\* A step that keeps the bundle down or up.
LEMMA KeepsSettled ==
  ASSUME Settled, overtaken \subseteq overtaken', paused' => searched' = 0,
         Free' => /\ Down' => Down
                  /\ bundle'.queueItems \subseteq bundle.queueItems
                  /\ Unsearched'
                  /\ "share" \notin overtaken' => (Validated => Validated')
  PROVE  Settled'
<1>1. Free' => Free BY DEF Free
<1>2. ASSUME Free' PROVE Down' => bundle'.queueItems = {} BY <1>1, <1>2 DEF Settled
<1>3. ASSUME Free', "share" \notin overtaken' PROVE Validated' BY <1>1, <1>3 DEF Settled
<1> QED BY <1>2, <1>3 DEF Settled

\* Nobody new relies on anything.
LEMMA NobodyNew ==
  ASSUME Emptying' => Emptying, Shares' => Shares, SharesAnyway' => SharesAnyway,
         refresh' = "found" => refresh = "found",
         task'.phase \in {"failed", "revalidate", "bundleHook", "sharing"} =>
           task'.phase = task.phase,
         isDownloaded(status') => isDownloaded(status),
         isCompleted(status') => isCompleted(status)
  PROVE  (Down' => Down) /\ (Sound' => Sound) /\ (Checking' => Checking)
BY DEF Down, Waiting, Sound, Checking

\* Nothing happens to the lists, the search and the status.
LEMMA SameSettled ==
  ASSUME Settled, overtaken \subseteq overtaken', UNCHANGED <<paused, searched, status>>,
         bundle'.queueItems = bundle.queueItems, bundle'.finishedFiles = bundle.finishedFiles,
         \A i \in bundle.finishedFiles : item'[i].status = item[i].status,
         Emptying' => Emptying, Shares' => Shares, SharesAnyway' => SharesAnyway,
         refresh' = "found" => refresh = "found",
         task'.phase \in {"failed", "revalidate", "bundleHook", "sharing"} =>
           task'.phase = task.phase
  PROVE  Settled'
<1>1. isDownloaded(status') <=> isDownloaded(status) OBVIOUS
<1>2. isCompleted(status') <=> isCompleted(status) OBVIOUS
<1>3. (Down' => Down) /\ (Sound' => Sound) /\ (Checking' => Checking) BY <1>1, <1>2, NobodyNew
<1>4. (AllDone => AllDone') /\ (AllChecked => AllChecked') BY DEF AllDone, AllChecked
<1>5. Validated => Validated' BY <1>3, <1>4, KeepsValidated
<1>6. Free' => Unsearched' BY DEF Free, Unsearched, Settled
<1>7. paused' => searched' = 0 BY DEF Settled
<1> QED BY <1>3, <1>5, <1>6, <1>7, KeepsSettled

-----------------------------------------------------------------------------
\* A segment's path is looked up.
LEMMA PutSettled ==
  ASSUME Types, Settled, NEW f \in Files, putDownload(f)
  PROVE  Settled'
<1>1. /\ UNCHANGED <<lists, tasks, task, refresh, overtaken>> /\ UNCHANGED state
      /\ dl' = [dl EXCEPT ![f] = [pc |-> "found", item |-> <<f, fileQueue[f]>>]]
  BY DEF putDownload
<1>2. UNCHANGED <<bundle, item, paused, searched, status>> BY <1>1 DEF lists, state
<1>3. Emptying' => Emptying BY <1>1 DEF Emptying, Types, Returned
<1> QED BY <1>1, <1>2, <1>3, SharesSame, SameSettled

\* A segment is added to its file, which nobody relies on.
LEMMA CompletedSettled ==
  ASSUME Types, Settled, NEW f \in Files, onFileDownloadCompleted(f)
  PROVE  Settled'
<1>1. UNCHANGED <<state, tasks, task, refresh, overtaken>> BY DEF onFileDownloadCompleted
<1>2. PICK i : i = dl[f].item OBVIOUS
<1>3. /\ i \notin bundle.finishedFiles
      /\ \A j \in Items \ {i} : item'[j] = item[j]
      /\ bundle'.queueItems = bundle.queueItems
      /\ bundle'.finishedFiles = bundle.finishedFiles
      /\ dl'[f].pc \in {"idle", "whole"} /\ \A g \in Files \ {f} : dl'[g] = dl[g]
  BY <1>2, CompletedIs
<1>4. bundle.finishedFiles \subseteq Items BY BundleFields DEF Types, ListTypes
<1>5. Emptying' => Emptying BY <1>3 DEF Emptying
<1>6. UNCHANGED <<paused, searched, status>> BY <1>1 DEF state
<1> QED BY <1>1, <1>3, <1>4, <1>5, <1>6, SharesSame, SameSettled

\* The last file moves: nobody has relied on anything before.
LEMMA MovesSettled ==
  ASSUME Types, Steady, Settled, NEW f \in Files, MovesItem(f)
  PROVE  Settled'
<1>1. UNCHANGED <<item, status, paused, tasks, task, refresh, overtaken>> BY DEF MovesItem
<1>2. PICK i : i = dl[f].item OBVIOUS
<1>3. /\ dl[f].pc = "whole"
      /\ bundle'.queueItems = bundle.queueItems \ {i}
      /\ searched' = IF bundle'.queueItems = {} /\ ~paused THEN 0 ELSE searched
      /\ \A g \in Files \ {f} : dl'[g] = dl[g]
      /\ dl'[f].pc = IF bundle'.queueItems = {} THEN "emptied" ELSE "moved"
  BY <1>2, MovesIs
<1>4. paused => searched = 0 BY DEF Settled
<1>5. paused' => searched' = 0 BY <1>1, <1>3, <1>4
<1>6. ASSUME Free'
      PROVE  (Down' => bundle'.queueItems = {}) /\ Unsearched'
             /\ ("share" \notin overtaken' => Validated')
  <2>1. Free /\ Calm BY <1>1, <1>6 DEF Free, Steady
  <2>2. i \in bundle.queueItems BY <1>2, <1>3, <2>1 DEF Calm, Returns, ReturnAt
  <2>3. ~Down BY <2>1, <2>2 DEF Settled
  <2>4. ~Emptying /\ ~Shares /\ ~SharesAnyway /\ refresh # "found" /\ ~isDownloaded(status)
        /\ task.phase \notin {"failed", "revalidate", "bundleHook", "sharing"}
    BY <2>3 DEF Down, Waiting
  <2>5. ~Shares' /\ ~SharesAnyway' BY <1>1, <2>4, SharesSame
  <2>6. bundle'.queueItems # {} => ~Emptying' BY <1>3, <2>4 DEF Emptying
  <2>7. Down' => bundle'.queueItems = {} BY <1>1, <2>4, <2>5, <2>6 DEF Down, Waiting
  <2>8. Unsearched' BY <1>1, <1>3, <1>4 DEF Unsearched
  <2>9. Validated'
    <3>1. ~isCompleted(status') BY <1>1, <2>4 DEF isDownloaded, isCompleted
    <3> QED BY <1>1, <2>4, <2>5, <3>1 DEF Validated, Sound, Checking
  <2> QED BY <2>7, <2>8, <2>9
<1> QED BY <1>5, <1>6 DEF Settled

\* The bundle is finished by the connection that emptied it.
LEMMA FinishesSettled ==
  ASSUME Types, Settled, NEW f \in Files, FinishesBundle(f)
  PROVE  Settled'
<1>1. /\ UNCHANGED <<lists, paused, searched, tasks, task, refresh, overtaken>>
      /\ dl[f].pc = "emptied" /\ status' = "DOWNLOADED"
      /\ dl' = [dl EXCEPT ![f].pc = "moved"]
  BY DEF FinishesBundle, Finishes
<1>2. UNCHANGED <<bundle, item>> BY <1>1 DEF lists
<1>3. Down BY <1>1 DEF Down, Waiting, Emptying
<1>4. (Sound' => Sound) /\ (Checking' => Checking) /\ (SharesAnyway' => SharesAnyway)
  BY <1>1, SharesSame DEF Sound, Checking, isCompleted
<1>5. (AllDone => AllDone') /\ (AllChecked => AllChecked') BY <1>2 DEF AllDone, AllChecked
<1>6. Validated => Validated' BY <1>4, <1>5, KeepsValidated
<1>7. Free' => Unsearched' BY <1>1, <1>2 DEF Free, Unsearched, Settled
<1>8. paused' => searched' = 0 BY <1>1 DEF Settled
<1> QED BY <1>1, <1>2, <1>3, <1>6, <1>7, <1>8, KeepsSettled

\* The file is renamed and waits for its hooks.
LEMMA RenameSettled ==
  ASSUME Types, Settled, NEW f \in Files, renameDownloadedFile(f)
  PROVE  Settled'
<1>1. UNCHANGED <<item, bundle, paused, searched, status, task, refresh, overtaken>>
      /\ tasks' = Append(tasks, Task("hooks", dl[f].item))
      /\ dl[f].pc = "moved" /\ dl' = [dl EXCEPT ![f] = NoReturn]
  BY DEF renameDownloadedFile, state
<1>2. dl[f].item \in ItemOrNone BY <1>1 DEF Types, Returned, ReturnsOf, ItemOrNone
<1>3. (Shares' => Shares) /\ (SharesAnyway' => SharesAnyway)
  BY <1>1, <1>2, SharesAppend DEF Types
<1>4. Emptying' => Emptying BY <1>1 DEF Emptying, Types, Returned, NoReturn
<1> QED BY <1>1, <1>3, <1>4, SameSettled

\* The status falls back, and only the priority may start a search.
LEMMA SearchSettled ==
  ASSUME Types, Settled, UNCHANGED <<lists, dl, refresh>>, overtaken \subseteq overtaken',
         UNCHANGED tasks \/ tasks' = Append(tasks, Task("pause", NoItem)) \/ Starts("pause"),
         UNCHANGED task,
         isDownloaded(status') => isDownloaded(status),
         isCompleted(status') => isCompleted(status),
         \/ UNCHANGED <<paused, searched>>
         \/ \E p \in BOOLEAN : SetPriority(p)
  PROVE  Settled'
<1>1. UNCHANGED <<bundle, item>> BY DEF lists
<1>2. (Shares' => Shares) /\ (SharesAnyway' => SharesAnyway)
  <2>1. NoItem \in ItemOrNone BY DEF ItemOrNone
  <2> QED BY <2>1, SharesSame, SharesAppend, SharesTail DEF Types
<1>3. Emptying' => Emptying BY DEF Emptying
<1>4. (Down' => Down) /\ (Sound' => Sound) /\ (Checking' => Checking)
  BY <1>2, <1>3, NobodyNew
<1>5. (AllDone => AllDone') /\ (AllChecked => AllChecked') BY <1>1 DEF AllDone, AllChecked
<1>6. Validated => Validated' BY <1>2, <1>4, <1>5, KeepsValidated
<1>7. (paused' => searched' = 0) /\ (Free' => Unsearched')
  <2>1. CASE UNCHANGED <<paused, searched>>
    BY <1>1, <2>1 DEF Free, Unsearched, Settled
  <2>2. CASE \E p \in BOOLEAN : SetPriority(p)
    <3>1. PICK p \in BOOLEAN : SetPriority(p) BY <2>2
    <3>2. CASE UNCHANGED <<paused, searched, overtaken>>
      BY <1>1, <3>2 DEF Free, Unsearched, Settled
    <3>3. CASE /\ paused' = p /\ searched' = IF p THEN 0 ELSE searched + 1
               /\ overtaken' = overtaken \cup (IF bundle.queueItems = {} THEN {"search"} ELSE {})
      <4>1. paused' => searched' = 0 BY <3>3
      <4>2. Unsearched' BY <1>1, <3>3 DEF Unsearched
      <4> QED BY <4>1, <4>2
    <3> QED BY <3>1, <3>2, <3>3 DEF SetPriority
  <2> QED BY <2>1, <2>2
<1> QED BY <1>1, <1>4, <1>6, <1>7, KeepsSettled

\* A disk error, and room on the disk again.
LEMMA ErrorSettled ==
  ASSUME Types, Settled, \/ onDownloadError \/ SetsError \/ checkDiskSpace \/ checkResumeBundles
                         \/ PauseTask \/ \E p \in BOOLEAN : setBundlePriority(p)
  PROVE  Settled'
<1>1. UNCHANGED <<lists, dl, task, refresh>>
  BY DEF onDownloadError, SetsError, checkDiskSpace, checkResumeBundles, PauseTask,
         setBundlePriority, threads
<1>2. UNCHANGED tasks \/ tasks' = Append(tasks, Task("pause", NoItem)) \/ Starts("pause")
  BY DEF onDownloadError, SetsError, checkDiskSpace, checkResumeBundles, PauseTask,
         setBundlePriority, threads
<1>3. status' \in {status, "DOWNLOAD_ERROR", "QUEUED"}
  BY DEF onDownloadError, SetsError, checkDiskSpace, checkResumeBundles, PauseTask,
         setBundlePriority, state
<1>4. /\ isDownloaded(status') => isDownloaded(status)
      /\ isCompleted(status') => isCompleted(status)
  BY <1>3 DEF isDownloaded, isCompleted
<1>5. \/ UNCHANGED <<paused, searched>> /\ overtaken \subseteq overtaken'
      \/ \E p \in BOOLEAN : SetPriority(p)
  <2>1. CASE onDownloadError \/ SetsError \/ checkDiskSpace
    BY <2>1 DEF onDownloadError, SetsError, checkDiskSpace, state
  <2>2. CASE checkResumeBundles
    <3>1. UNCHANGED <<paused, searched, overtaken>> \/ SetPriority(FALSE)
      BY <2>2, Zenon DEF checkResumeBundles
    <3> QED BY <3>1, Zenon
  <2>3. CASE PauseTask
    <3>1. UNCHANGED <<paused, searched, overtaken>> \/ SetPriority(TRUE)
      BY <2>3, Zenon DEF PauseTask
    <3> QED BY <3>1, Zenon
  <2>4. CASE \E p \in BOOLEAN : setBundlePriority(p) BY <2>4 DEF setBundlePriority
  <2> QED BY <2>1, <2>2, <2>3, <2>4
<1>6. overtaken \subseteq overtaken' BY <1>5, PriorityMarks
<1> QED BY <1>1, <1>2, <1>4, <1>5, <1>6, SearchSettled

\* Before its hooks are through, nobody relies on a file.
LEMMA HookSettled ==
  ASSUME Types, Steady, Settled, FileHook \/ FileHookDone
  PROVE  Settled'
<1>1. UNCHANGED <<bundle, state, dl, refresh, overtaken>> BY DEF FileHook, FileHookDone
<1>2. UNCHANGED <<paused, searched, status>> BY <1>1 DEF state
<1>3. (Shares' => Shares) /\ (SharesAnyway' => SharesAnyway)
  BY SharesSame, SharesTail DEF FileHook, FileHookDone, Runs, Types
<1>4. task'.phase \in {"none", "fileHook", "check"}
  <2>1. CASE FileHook BY <2>1 DEF FileHook
  <2>2. CASE FileHookDone
    <3>1. ends \/ goes("check") BY <2>2 DEF FileHookDone
    <3> QED BY <3>1, TaskMoves DEF Types
  <2> QED BY <2>1, <2>2
<1>5. Emptying' => Emptying BY <1>1 DEF Emptying
<1>6. (Down' => Down) /\ (Sound' => Sound) /\ (Checking' => Checking)
  BY <1>1, <1>2, <1>3, <1>4, <1>5, NobodyNew
<1>7. Free' => (AllDone => AllDone') /\ (AllChecked => AllChecked')
  <2> SUFFICES ASSUME Free' PROVE ~AllDone /\ ~AllChecked OBVIOUS
  <2>1. Calm BY <1>1 DEF Free, Steady
  <2>2. CASE FileHook
    <3>1. PICK i : i = Head(tasks).item OBVIOUS
    <3>2. Head(tasks) = tasks[1] /\ tasks[1].type = "hooks" /\ 1 \in DOMAIN tasks
      BY <2>2, <3>1, FileHookIs
    <3>3. HookAt(i) BY <2>1, <3>1, <3>2 DEF Calm, Hooks
    <3> QED BY <3>3 DEF HookAt, AllDone, AllChecked
  <2>3. CASE FileHookDone
    <3>1. task.phase = "fileHook" BY <2>3 DEF FileHookDone, Runs
    <3> QED BY <2>1, <3>1 DEF Calm, HookRuns, AllDone, AllChecked
  <2> QED BY <2>2, <2>3
<1>8. Free' => (Validated => Validated') BY <1>3, <1>6, <1>7, KeepsValidated
<1>9. Free' => Unsearched' BY <1>1, <1>2 DEF Free, Unsearched, Settled
<1>10. paused' => searched' = 0 BY <1>2 DEF Settled
<1> QED BY <1>1, <1>6, <1>8, <1>9, <1>10, KeepsSettled

\* The checks of the task thread, which leave the lists alone.
LEMMA ThreadSettled ==
  ASSUME Types, Settled, \/ CheckFinished \/ SetsFailed \/ CheckCompleted
                         \/ StartShare \/ BundleHook \/ ShareBundle
  PROVE  Settled'
<1>1. UNCHANGED <<lists, paused, searched, dl, overtaken>>
  BY DEF CheckFinished, SetsFailed, CheckCompleted, Completes, StartShare, BundleHook,
         ShareBundle, state
<1>2. UNCHANGED <<bundle, item>> BY <1>1 DEF lists
<1>3. Emptying' => Emptying BY <1>1 DEF Emptying
<1>4. UNCHANGED <<AllDone, AllChecked>> BY <1>2 DEF AllDone, AllChecked
<1>5. Free' => Unsearched' BY <1>1, <1>2 DEF Free, Unsearched, Settled
<1>6. paused' => searched' = 0 BY <1>1 DEF Settled
<1>7. ASSUME Free' PROVE (Down => bundle.queueItems = {}) BY <1>1, <1>7 DEF Free, Settled
<1>8. ASSUME Free', "share" \notin overtaken' PROVE Validated BY <1>1, <1>8 DEF Free, Settled
<1> SUFFICES ASSUME Free'
             PROVE  /\ Down' => bundle.queueItems = {}
                    /\ "share" \notin overtaken' => Validated'
  BY <1>2, <1>5, <1>6 DEF Settled
<1>9. Down => bundle.queueItems = {} BY <1>7
<1>10. CASE CheckFinished
  <2>1. UNCHANGED <<status, refresh>> BY <1>10 DEF CheckFinished, state
  <2>2. (Shares' => Shares) /\ (SharesAnyway' => SharesAnyway)
    BY <1>10, SharesSame, SharesTail DEF CheckFinished, Runs, Types
  <2>3. \/ task'.phase = "none"
        \/ isDownloaded(status) /\ task'.phase \in {"failed", "completed"}
    <3>1. ends \/ (isDownloaded(status) /\ (goes("failed") \/ goes("completed")))
      BY <1>10 DEF CheckFinished
    <3> QED BY <3>1, TaskMoves DEF Types
  <2>4. Down' => Down BY <1>3, <2>1, <2>2, <2>3 DEF Down, Waiting
  <2>5. (Sound' => Sound) /\ (Checking' => Checking)
    BY <2>1, <2>2, <2>3 DEF Sound, Checking
  <2> QED BY <1>4, <1>8, <1>9, <2>2, <2>4, <2>5, KeepsValidated
<1>11. CASE SetsFailed
  <2>1. /\ UNCHANGED <<refresh, tasks>> /\ status' = "VALIDATION_ERROR"
        /\ task.phase = "failed" /\ ends
    BY <1>11 DEF SetsFailed, Runs
  <2>2. (Shares' => Shares) /\ (SharesAnyway' => SharesAnyway) BY <2>1, SharesSame
  <2>3. task'.phase = "none" BY <2>1, TaskMoves
  <2>4. Down BY <2>1 DEF Down, Waiting
  <2>5. (Sound' => Sound) /\ (Checking' => Checking)
    BY <2>1, <2>2, <2>3 DEF Sound, Checking, isCompleted
  <2> QED BY <1>4, <1>8, <1>9, <2>2, <2>4, <2>5, KeepsValidated
<1>12. CASE CheckCompleted
  <2>1. UNCHANGED <<refresh, status>> /\ ends
        /\ \/ UNCHANGED tasks
           \/ filesCompleted(bundle, item) /\ tasks' = Append(tasks, Task("share", NoItem))
    BY <1>12 DEF CheckCompleted, Completes, state
  <2>2. task'.phase = "none" BY <2>1, TaskMoves
  <2>3. CASE UNCHANGED tasks
    <3>1. (Shares' => Shares) /\ (SharesAnyway' => SharesAnyway) BY <2>3, SharesSame
    <3>2. Down' => Down BY <1>3, <2>1, <2>2, <3>1 DEF Down, Waiting
    <3>3. (Sound' => Sound) /\ (Checking' => Checking)
      BY <2>1, <2>2, <3>1 DEF Sound, Checking
    <3> QED BY <1>4, <1>8, <1>9, <3>1, <3>2, <3>3, KeepsValidated
  <2>4. CASE filesCompleted(bundle, item) /\ tasks' = Append(tasks, Task("share", NoItem))
    <3>1. bundle.queueItems = {} /\ AllDone BY <2>4 DEF filesCompleted, AllDone
    <3>2. AllDone' /\ AllChecked' BY <1>4, <3>1 DEF AllDone, AllChecked
    <3>3. SharesAnyway' => SharesAnyway
      <4>1. NoItem \in ItemOrNone BY DEF ItemOrNone
      <4> QED BY <2>4, <4>1, SharesAppend DEF Types
    <3>4. "share" \notin overtaken' => ~SharesAnyway BY <1>8 DEF Validated
    <3> QED BY <3>1, <3>2, <3>3, <3>4 DEF Validated
  <2> QED BY <2>1, <2>3, <2>4
<1>13. CASE StartShare
  <2>1. UNCHANGED refresh /\ Starts("share") /\ status' = "VALIDATION_RUNNING"
        /\ goes(IF Failed(bundle, item) # {} THEN "revalidate" ELSE "bundleHook")
    BY <1>13 DEF StartShare
  <2>2. (Shares' => Shares) /\ (SharesAnyway' => SharesAnyway) /\ Shares
    BY <2>1, SharesTail DEF Types
  <2>3. Down BY <2>2 DEF Down, Waiting
  <2>4. task'.phase = IF Failed(bundle, item) # {} THEN "revalidate" ELSE "bundleHook"
    BY <2>1, TaskMoves DEF Types
  <2>5. ASSUME "share" \notin overtaken' PROVE Validated'
    <3>1. Validated /\ AllChecked /\ ~SharesAnyway BY <1>8, <2>2, <2>5 DEF Validated, Checking
    <3>2. Failed(bundle, item) = {} => AllDone BY <3>1 DEF Failed, AllDone, AllChecked
    <3>3. refresh = "found" => AllDone BY <3>1 DEF Validated, Sound
    <3>4. Sound' => task'.phase = "bundleHook" \/ refresh = "found"
      BY <2>1, <2>4 DEF Sound, isCompleted
    <3>5. Sound' => AllDone BY <2>4, <3>2, <3>3, <3>4
    <3> QED BY <1>4, <2>2, <3>1, <3>5 DEF Validated
  <2> QED BY <1>9, <2>3, <2>5
<1>14. CASE BundleHook
  <2>1. UNCHANGED <<refresh, tasks>> /\ task.phase = "bundleHook"
        /\ \/ ends /\ status' = "VALIDATION_ERROR"
           \/ goes("sharing") /\ status' = "COMPLETED"
    BY <1>14 DEF BundleHook, Runs
  <2>2. (Shares' => Shares) /\ (SharesAnyway' => SharesAnyway) BY <2>1, SharesSame
  <2>3. task'.phase \in {"none", "sharing"} BY <2>1, TaskMoves DEF Types
  <2>4. Down /\ Sound BY <2>1 DEF Down, Waiting, Sound
  <2>5. Checking' => Checking BY <2>1, <2>2, <2>3 DEF Checking
  <2> QED BY <1>4, <1>8, <1>9, <2>2, <2>4, <2>5, KeepsValidated
<1>15. CASE ShareBundle
  <2>1. /\ (task.phase = "sharing" /\ UNCHANGED tasks) \/ Starts("shareAnyway")
        /\ status' = "COMPLETED" /\ ends
        /\ refresh' = "found" => refresh = "found"
    BY <1>15 DEF ShareBundle, Runs
  <2>2. (Shares' => Shares) /\ (SharesAnyway' => SharesAnyway)
        /\ (task.phase = "sharing" \/ SharesAnyway)
    BY <2>1, SharesSame, SharesTail DEF Types
  <2>3. task'.phase = "none" BY <2>1, TaskMoves
  <2>4. Down BY <2>2 DEF Down, Waiting
  <2>5. Checking' => Checking BY <2>2, <2>3 DEF Checking
  <2>6. ASSUME "share" \notin overtaken' PROVE Validated'
    <3>1. Validated /\ task.phase = "sharing" BY <1>8, <2>2, <2>6 DEF Validated
    <3>2. Sound BY <3>1 DEF Sound
    <3> QED BY <1>4, <2>2, <2>5, <3>1, <3>2, KeepsValidated
  <2> QED BY <1>9, <2>4, <2>6
<1> QED BY <1>10, <1>11, <1>12, <1>13, <1>14, <1>15

\* Files that failed are validated again.
LEMMA RevalidateSettled ==
  ASSUME Types, Settled, Revalidate
  PROVE  Settled'
<1>1. UNCHANGED <<bundle, dl, paused, searched, refresh, overtaken>> BY DEF Revalidate
<1>2. PICK still \in SUBSET Failed(bundle, item) :
        /\ task.phase = "revalidate" /\ UNCHANGED tasks
        /\ \A i \in Items :
             item'[i].status = IF i \in Failed(bundle, item) \ still THEN "COMPLETED"
                               ELSE item[i].status
        /\ \/ still = {} /\ goes("bundleHook") /\ UNCHANGED status
           \/ still # {} /\ ends /\ status' = "VALIDATION_ERROR"
  BY RevalidatedIs
<1>3. Down /\ Checking BY <1>2 DEF Down, Waiting, Checking
<1>4. bundle.finishedFiles \subseteq Items BY BundleFields DEF Types, ListTypes
<1>5. (AllDone => AllDone') /\ (AllChecked => AllChecked')
  BY <1>1, <1>2, <1>4 DEF AllDone, AllChecked
<1>6. (Shares' => Shares) /\ (SharesAnyway' => SharesAnyway) BY <1>2, SharesSame
<1>7. Free' => Unsearched' BY <1>1 DEF Free, Unsearched, Settled
<1>8. paused' => searched' = 0 BY <1>1 DEF Settled
<1>9. Validated => Validated'
  <2>1. CASE still = {} /\ goes("bundleHook") /\ UNCHANGED status
    <3>1. task'.phase = "bundleHook" BY <2>1, TaskMoves DEF Types
    <3>2. AllChecked => AllDone' BY <1>1, <1>2, <1>4, <2>1 DEF AllDone, AllChecked, Failed
    <3>3. Checking' => Checking BY <1>3
    <3> QED BY <1>3, <1>5, <1>6, <3>2, <3>3 DEF Validated
  <2>2. CASE still # {} /\ ends /\ status' = "VALIDATION_ERROR"
    <3>1. task'.phase = "none" BY <2>2, TaskMoves
    <3>2. Sound' => Sound BY <1>1, <2>2, <3>1 DEF Sound, isCompleted
    <3> QED BY <1>3, <1>5, <1>6, <3>2, KeepsValidated
  <2> QED BY <1>2, <2>1, <2>2
<1> QED BY <1>1, <1>3, <1>7, <1>8, <1>9, KeepsSettled

\* The refresh has found the bundle, and it is shared.
LEMMA RefreshSettled ==
  ASSUME Types, Settled, Refreshing
  PROVE  Settled'
<1>1. UNCHANGED <<lists, paused, searched, dl, tasks, task, overtaken>>
  BY DEF Refreshing, RefreshCompleted, SetsShared, state
<1>2. UNCHANGED <<bundle, item>> BY <1>1 DEF lists
<1>3. (Shares' => Shares) /\ (SharesAnyway' => SharesAnyway) BY <1>1, SharesSame
<1>4. Emptying' => Emptying BY <1>1 DEF Emptying
<1>5. \/ UNCHANGED status /\ (refresh' = "found" => isCompleted(status))
      \/ refresh = "found" /\ refresh' = "none"
  BY DEF Refreshing, RefreshCompleted, SetsShared, state
<1>6. (Down' => Down) /\ (Sound' => Sound) /\ (Checking' => Checking)
  <2>1. isCompleted(status) => isDownloaded(status) BY DEF isCompleted, isDownloaded
  <2>2. CASE UNCHANGED status /\ (refresh' = "found" => isCompleted(status))
    BY <1>1, <1>3, <1>4, <2>1, <2>2 DEF Down, Waiting, Sound, Checking
  <2>3. CASE refresh = "found" /\ refresh' = "none"
    BY <1>1, <1>3, <2>3 DEF Down, Waiting, Sound, Checking
  <2> QED BY <1>5, <2>2, <2>3
<1>7. (AllDone => AllDone') /\ (AllChecked => AllChecked') BY <1>2 DEF AllDone, AllChecked
<1>8. Validated => Validated' BY <1>3, <1>6, <1>7, KeepsValidated
<1>9. Free' => Unsearched' BY <1>1, <1>2 DEF Free, Unsearched, Settled
<1>10. paused' => searched' = 0 BY <1>1 DEF Settled
<1> QED BY <1>1, <1>2, <1>6, <1>8, <1>9, <1>10, KeepsSettled

\* Somebody has the bundle shared.
LEMMA ShareSettled ==
  ASSUME Types, Settled, NEW skip \in BOOLEAN, shareBundle(skip)
  PROVE  Settled'
<1>1. UNCHANGED <<lists, paused, searched, status, dl, task, refresh>>
      /\ status \in {"VALIDATION_ERROR", "COMPLETED"} /\ overtaken \subseteq overtaken'
  BY DEF shareBundle, state
<1>2. UNCHANGED <<bundle, item>> BY <1>1 DEF lists
<1>3. Down BY <1>1 DEF Down, isDownloaded
<1>4. UNCHANGED <<AllDone, AllChecked>> BY <1>2 DEF AllDone, AllChecked
<1>5. ASSUME "share" \notin overtaken', Validated PROVE Validated'
  <2>1. ~skip /\ \A i \in bundle.finishedFiles :
                   item[i].status \notin {"DOWNLOADED", "VALIDATION_RUNNING"}
    BY <1>5 DEF shareBundle
  <2>2. tasks' = Append(tasks, Task("share", NoItem)) BY <2>1 DEF shareBundle
  <2>3. SharesAnyway' => SharesAnyway
    <3>1. NoItem \in ItemOrNone BY DEF ItemOrNone
    <3> QED BY <2>2, <3>1, SharesAppend DEF Types
  <2>4. AllChecked
    <3> SUFFICES ASSUME NEW i \in bundle.finishedFiles
                 PROVE  item[i].status \in {"COMPLETED", "VALIDATION_ERROR"}
      BY DEF AllChecked
    <3>1. i \in Items BY BundleFields DEF Types, ListTypes
    <3>2. item[i].status \in ItemStatuses BY <3>1, ItemFields DEF Types, ListTypes
    <3>3. isDownloaded(item[i].status) BY DEF Types, Placed
    <3> QED BY <2>1, <3>2, <3>3 DEF ItemStatuses, isDownloaded
  <2>5. Sound' => Sound BY <1>1 DEF Sound
  <2> QED BY <1>4, <1>5, <2>3, <2>4, <2>5 DEF Validated
<1>6. Free' => Unsearched'
  BY <1>1, <1>2 DEF Free, Unsearched, Settled
<1>7. paused' => searched' = 0 BY <1>1 DEF Settled
<1> QED BY <1>1, <1>2, <1>3, <1>5, <1>6, <1>7, KeepsSettled

\* Priorities, sources, and what leaves the status alone.
LEMMA OtherSettled ==
  ASSUME Types, Settled, \/ DelayedCheck \/ SetsQIPriority \/ UNCHANGED vars
                         \/ \E i \in Items : setQIPriority(i) \/ LoseFile(i) \/ removeQI(i)
                         \/ \E i \in Items, u \in Users :
                              removeFileSource(i, u) \/ addValidatedSource(i, u)
  PROVE  Settled'
<1>1. UNCHANGED <<bundle, state, dl, task, refresh>> /\ overtaken \subseteq overtaken'
  BY DEF DelayedCheck, SetsQIPriority, vars, setQIPriority, LoseFile, removeQI, lists,
         removeFileSource, addValidatedSource, threads
<1>2. UNCHANGED tasks \/ tasks' = Append(tasks, Task("check", NoItem))
  BY DEF DelayedCheck, SetsQIPriority, vars, setQIPriority, LoseFile, removeQI,
         removeFileSource, addValidatedSource, threads
<1>3. (Shares' => Shares) /\ (SharesAnyway' => SharesAnyway)
  <2>1. NoItem \in ItemOrNone BY DEF ItemOrNone
  <2> QED BY <1>2, <2>1, SharesSame, SharesAppend DEF Types
<1>4. Emptying' => Emptying BY <1>1 DEF Emptying
<1>5. UNCHANGED <<paused, searched, status>> BY <1>1 DEF state
<1>6. \A i \in bundle.finishedFiles : item'[i].status = item[i].status
  <2>0. bundle.finishedFiles \subseteq Items BY BundleFields DEF Types, ListTypes
  <2>1. CASE SetsQIPriority
    <3>1. PICK i : i = setter OBVIOUS
    <3>2. item'[i].status = item[i].status /\ \A j \in Items \ {i} : item'[j] = item[j]
      BY <2>1, <3>1, PrioSetIs
    <3> QED BY <2>0, <3>2
  <2>2. CASE \E i \in Items, u \in Users : removeFileSource(i, u) \/ addValidatedSource(i, u)
    <3>1. PICK i \in Items, u \in Users : removeFileSource(i, u) \/ addValidatedSource(i, u)
      BY <2>2
    <3>2. item'[i].status = item[i].status /\ \A j \in Items \ {i} : item'[j] = item[j]
      BY <3>1, SourceIs
    <3> QED BY <2>0, <3>2
  <2>3. CASE \/ DelayedCheck \/ UNCHANGED vars
             \/ \E i \in Items : setQIPriority(i) \/ LoseFile(i) \/ removeQI(i)
    BY <2>3 DEF DelayedCheck, vars, lists, setQIPriority, LoseFile, removeQI
  <2> QED BY <2>1, <2>2, <2>3
<1> QED BY <1>1, <1>3, <1>4, <1>5, <1>6, SameSettled

-----------------------------------------------------------------------------
\* A file leaves the bundle.
LEMMA RemovesSettled ==
  ASSUME Types, Settled, RemovesItem
  PROVE  Settled'
<1>1. UNCHANGED <<item, state, dl, tasks, task, refresh>> /\ overtaken \subseteq overtaken'
      /\ overtaken' = overtaken \cup
           (IF /\ remover.item \in bundle.queueItems /\ bundle'.queueItems = {}
               /\ ~isDownloaded(status)
            THEN {"last"} ELSE {})
  BY DEF RemovesItem
<1>2. PICK i : i = remover.item OBVIOUS
<1>3. /\ bundle'.queueItems \in {bundle.queueItems, bundle.queueItems \ {i}}
      /\ bundle'.finishedFiles \subseteq bundle.finishedFiles
  BY <1>2, RemovesIs
<1>4. UNCHANGED <<paused, searched, status>> BY <1>1 DEF state
<1>5. (Shares' => Shares) /\ (SharesAnyway' => SharesAnyway) BY <1>1, SharesSame
<1>6. Emptying' => Emptying BY <1>1 DEF Emptying
<1>7. (Down' => Down) /\ (Sound' => Sound) /\ (Checking' => Checking)
  BY <1>1, <1>4, <1>5, <1>6, NobodyNew
<1>8. (AllDone => AllDone') /\ (AllChecked => AllChecked')
  BY <1>1, <1>3 DEF AllDone, AllChecked
<1>9. Validated => Validated' BY <1>5, <1>7, <1>8, KeepsValidated
<1>10. ASSUME Free' PROVE Unsearched'
  <2>1. Free /\ "last" \notin overtaken' BY <1>1, <1>10 DEF Free
  <2>2. bundle'.queueItems = {} => bundle.queueItems = {}
    <3> SUFFICES ASSUME bundle'.queueItems = {}, bundle.queueItems # {} PROVE FALSE OBVIOUS
    <3>1. i \in bundle.queueItems BY <1>3
    <3>2. isDownloaded(status) BY <1>1, <1>2, <2>1, <3>1
    <3> QED BY <2>1, <3>2 DEF Settled, Down
  <2> QED BY <1>1, <1>4, <2>1, <2>2 DEF Unsearched, Settled
<1>11. paused' => searched' = 0 BY <1>4 DEF Settled
<1> QED BY <1>1, <1>3, <1>7, <1>9, <1>10, <1>11, KeepsSettled

\* Files are queued again: nobody has found the bundle done.
LEMMA AgainSettled ==
  ASSUME Types, Settled, UNCHANGED <<paused, dl, tasks, task, refresh>>,
         overtaken \subseteq overtaken', StatusPending => "status" \in overtaken',
         bundle'.queueItems # {},
         \/ status' = "QUEUED" /\ searched' = IF paused THEN searched ELSE searched + 1
         \/ bundle.queueItems # {} /\ UNCHANGED <<status, searched>>
  PROVE  Settled'
<1>1. paused' => searched' = 0 BY DEF Settled
<1>2. ASSUME Free'
      PROVE  ~Down' /\ Unsearched' /\ Validated'
  <2>1. ~StatusPending /\ Free BY <1>2 DEF Free
  <2>2. ~Waiting
    BY <2>1 DEF StatusPending, Waiting, Emptying, Shares, SharesAnyway
  <2>3. ~Waiting' /\ ~Shares' /\ ~SharesAnyway'
    BY <2>2 DEF Waiting, Emptying, Shares, SharesAnyway
  <2>4. ~isDownloaded(status')
    <3>1. CASE status' = "QUEUED" BY <3>1 DEF isDownloaded
    <3>2. CASE bundle.queueItems # {} /\ UNCHANGED status BY <2>1, <3>2 DEF Settled, Down
    <3> QED BY <3>1, <3>2
  <2>5. ~isCompleted(status') BY <2>4 DEF isDownloaded, isCompleted
  <2>6. ~Down' BY <2>3, <2>4 DEF Down
  <2>7. ~Sound' /\ ~Checking' BY <2>3, <2>5 DEF Waiting, Sound, Checking
  <2>8. Unsearched' BY DEF Unsearched
  <2> QED BY <2>3, <2>6, <2>7, <2>8 DEF Validated
<1> QED BY <1>1, <1>2 DEF Settled

\* A file is added,
LEMMA AddFileSettled ==
  ASSUME Types, Settled, NEW f \in Files, NEW u \in Users, addBundleFile(f, u)
  PROVE  Settled'
<1>1. UNCHANGED <<paused, dl, tasks, task, refresh>> BY DEF addBundleFile, threads
<1>2. /\ bundle'.queueItems = bundle.queueItems \cup {NewItem(f)}
      /\ overtaken \subseteq overtaken' /\ (StatusPending => "status" \in overtaken')
      /\ \/ status' = "QUEUED" /\ searched' = IF paused THEN searched ELSE searched + 1
         \/ bundle.queueItems # {} /\ UNCHANGED <<status, searched>>
  BY AddFileIs
<1>3. bundle'.queueItems # {} BY <1>2
<1> QED BY <1>1, <1>2, <1>3, AgainSettled

\* or found damaged.
LEMMA RecheckSettled ==
  ASSUME Types, Settled, NEW i \in Items, handleFailedRecheckItems(i)
  PROVE  Settled'
<1>1. UNCHANGED <<paused, dl, tasks, task, refresh>> BY DEF handleFailedRecheckItems, threads
<1>2. /\ bundle'.queueItems = bundle.queueItems \cup {i}
      /\ overtaken \subseteq overtaken' /\ (StatusPending => "status" \in overtaken')
      /\ status' = "QUEUED" /\ searched' = IF paused THEN searched ELSE searched + 1
  BY RecheckIs
<1>3. bundle'.queueItems # {} BY <1>2
<1> QED BY <1>1, <1>2, <1>3, AgainSettled

\* The bundle is removed.
LEMMA BundleGoneSettled ==
  ASSUME Types, Settled, removeBundle
  PROVE  Settled'
<1>1. UNCHANGED <<item, status, paused, dl, tasks, task, refresh>> /\ overtaken \subseteq overtaken'
  BY DEF removeBundle
<1>2. /\ bundle'.queueItems \subseteq bundle.queueItems
      /\ bundle'.finishedFiles = {}
      /\ searched' = IF paused THEN searched ELSE 0
  BY BundleGoneIs
<1>3. (Shares' => Shares) /\ (SharesAnyway' => SharesAnyway) BY <1>1, SharesSame
<1>4. Emptying' => Emptying BY <1>1 DEF Emptying
<1>5. (Down' => Down) /\ (Sound' => Sound) /\ (Checking' => Checking)
  BY <1>1, <1>3, <1>4, NobodyNew
<1>6. AllDone' /\ AllChecked' BY <1>2 DEF AllDone, AllChecked
<1>7. Validated => Validated' BY <1>3, <1>5, <1>6, KeepsValidated
<1>8. searched' = 0 BY <1>2 DEF Settled
<1>9. Unsearched' BY <1>8 DEF Unsearched
<1> QED BY <1>1, <1>2, <1>5, <1>7, <1>8, <1>9, KeepsSettled

\* A new bundle is settled,
LEMMA SettledInit == Init => Settled
<1> SUFFICES ASSUME Init PROVE Settled OBVIOUS
<1>1. ~paused /\ status = "QUEUED" /\ dl = [f \in Files |-> NoReturn] /\ tasks = << >>
      /\ task = NoTask /\ refresh = "none"
  BY DEF Init
<1>2. ~Emptying BY <1>1 DEF Emptying, NoReturn
<1>3. ~Shares /\ ~SharesAnyway BY <1>1 DEF Shares, SharesAnyway
<1>4. task.phase = "none" BY <1>1 DEF NoTask
<1>5. ~Down BY <1>1, <1>2, <1>3, <1>4 DEF Down, Waiting, isDownloaded
<1>6. Validated BY <1>1, <1>3, <1>4 DEF Validated, Sound, Checking, isCompleted
<1>7. Unsearched
  <2>1. bundle.queueItems = FirstItems BY InitIs
  <2>2. Initial # {} /\ \A f \in Initial : <<f, 1>> \in FirstItems
    BY FirstItemsAre, BundleAssumption
  <2> QED BY <2>1, <2>2 DEF Unsearched
<1> QED BY <1>1, <1>5, <1>6, <1>7 DEF Settled

\* every step keeps it so,
LEMMA SettledStep == Types /\ Steady /\ Settled /\ [Next]_vars => Settled'
<1> SUFFICES ASSUME Types, Steady, Settled, [Next]_vars PROVE Settled' OBVIOUS
<1>1. ASSUME NEW f \in Files, putDownload(f) PROVE Settled' BY <1>1, PutSettled
<1>2. ASSUME NEW f \in Files, Returning(f) PROVE Settled'
  BY <1>2, CompletedSettled, MovesSettled, FinishesSettled, RenameSettled DEF Returning
<1>3. ASSUME onDownloadError \/ SetsError \/ checkDiskSpace \/ checkResumeBundles PROVE Settled'
  BY <1>3, ErrorSettled
<1>4. ASSUME TaskThread PROVE Settled'
  BY <1>4, HookSettled, RevalidateSettled, ThreadSettled, ErrorSettled DEF TaskThread
<1>5. ASSUME Refreshing \/ DelayedCheck PROVE Settled' BY <1>5, RefreshSettled, OtherSettled
<1>6. ASSUME NEW p \in BOOLEAN, setBundlePriority(p) \/ shareBundle(p) PROVE Settled'
  BY <1>6, ErrorSettled, ShareSettled
<1>7. ASSUME NEW i \in Items, \/ setQIPriority(i) \/ handleFailedRecheckItems(i)
                              \/ LoseFile(i) \/ removeQI(i)
      PROVE  Settled'
  BY <1>7, OtherSettled, RecheckSettled
<1>8. ASSUME NEW i \in Items, NEW u \in Users, removeFileSource(i, u) \/ addValidatedSource(i, u)
      PROVE  Settled'
  BY <1>8, OtherSettled
<1>9. ASSUME NEW f \in Files, NEW u \in Users, addBundleFile(f, u) PROVE Settled'
  BY <1>9, AddFileSettled
<1>10. ASSUME SetsQIPriority \/ RemovesItem \/ removeBundle PROVE Settled'
  BY <1>10, OtherSettled, RemovesSettled, BundleGoneSettled
<1>11. ASSUME UNCHANGED vars PROVE Settled' BY <1>11, OtherSettled
<1> QED BY <1>1, <1>2, <1>3, <1>4, <1>5, <1>6, <1>7, <1>8, <1>9, <1>10, <1>11 DEF Next

\* and its status is right.
LEMMA SettledRight == Settled => StatusRight
<1> SUFFICES ASSUME Settled PROVE StatusRight OBVIOUS
<1>1. ASSUME Free, isDownloaded(status) PROVE bundle.queueItems = {}
  BY <1>1 DEF Settled, Down
<1>2. ASSUME Free, isCompleted(status), "share" \notin overtaken PROVE AllDone
  BY <1>2 DEF Settled, Validated, Sound
<1>3. ASSUME Free, isDownloaded(status), "search" \notin overtaken PROVE searched = 0
  BY <1>1, <1>3 DEF Settled, Unsearched
<1> QED BY <1>1, <1>2, <1>3 DEF StatusRight, Free, AllDone

\* A bundle that is DOWNLOADED has no queued files and is not searched for, and
\* one that is COMPLETED or SHARED has only files whose hooks accepted them.
THEOREM StatusRightHolds == Spec => []StatusRight
BY TypesInit, TypesStep, SteadyInit, SteadyStep, SettledInit, SettledStep, SettledRight, PTL
DEF Spec

-----------------------------------------------------------------------------
(* The counts.                                                             *)

\* What a bundle counts is the sum over its files.
Counts(b, it) ==
  /\ b.size = Size * Cardinality(b.queueItems \cup b.finishedFiles)
  /\ b.finished = Bytes(it, b.queueItems \cup b.finishedFiles)
  /\ b.pathSize = b.size
  /\ b.queueSize = Size * Cardinality(b.queueItems)

\* A product with a sum.
LEMMA TimesSum == \A m, n \in Int : Size * (m + n) = Size * m + Size * n /\ Size * n \in Int
BY Sizes

\* Files and those that are left of them.
LEMMA SplitAre ==
  ASSUME NEW it \in [Items -> ItemRecords], NEW T \in SUBSET Items, NEW S \in SUBSET T
  PROVE  /\ Size * Cardinality(T) = Size * Cardinality(S) + Size * Cardinality(T \ S)
         /\ Bytes(it, T) = Bytes(it, S) + Bytes(it, T \ S)
         /\ Size * Cardinality(S) \in Int /\ Size * Cardinality(T \ S) \in Int
         /\ Bytes(it, S) \in Int /\ Bytes(it, T \ S) \in Int
<1>1. S \in SUBSET Items /\ T \ S \in SUBSET Items /\ S \cup (T \ S) = T /\ S \cap (T \ S) = {}
  OBVIOUS
<1>2. Cardinality(T) = Cardinality(S) + Cardinality(T \ S)
      /\ Cardinality(S) \in Int /\ Cardinality(T \ S) \in Int
  <2>1. /\ IsFiniteSet(S) /\ IsFiniteSet(T \ S)
        /\ Cardinality(S) \in Nat /\ Cardinality(T \ S) \in Nat
    BY <1>1, ItemsFinite
  <2>2. Cardinality(S \cup (T \ S)) =
          Cardinality(S) + Cardinality(T \ S) - Cardinality(S \cap (T \ S))
    BY <2>1, FS_Union
  <2>3. Cardinality(S \cap (T \ S)) = 0 BY <1>1, FS_EmptySet
  <2> QED BY <1>1, <2>1, <2>2, <2>3
<1>3. Bytes(it, T) = Bytes(it, S) + Bytes(it, T \ S)
      /\ Bytes(it, S) \in Int /\ Bytes(it, T \ S) \in Int
  <2> DEFINE A == Units(it, S)
             B == Units(it, T \ S)
  <2>1. /\ Bytes(it, S) = Cardinality(A) /\ IsFiniteSet(A) /\ Bytes(it, S) \in Nat
        /\ Bytes(it, T \ S) = Cardinality(B) /\ IsFiniteSet(B) /\ Bytes(it, T \ S) \in Nat
        /\ Bytes(it, T) = Cardinality(Units(it, T))
    BY <1>1, BytesAreUnits
  <2>2. A \cup B = Units(it, T) /\ A \cap B = {} BY DEF Units
  <2> HIDE DEF A, B
  <2>3. Cardinality(A \cup B) = Cardinality(A) + Cardinality(B) - Cardinality(A \cap B)
    BY <2>1, FS_Union
  <2>4. Cardinality(A \cap B) = 0 BY <2>2, FS_EmptySet
  <2>5. Bytes(it, T) = Cardinality(A \cup B) BY <2>1, <2>2
  <2>6. Cardinality(A) \in Int /\ Cardinality(B) \in Int BY <2>1
  <2>7. Cardinality(A \cup B) = Cardinality(A) + Cardinality(B) BY <2>3, <2>4, <2>6
  <2> QED BY <2>1, <2>5, <2>7
<1> QED BY <1>2, <1>3, TimesSum

\* The same for one file.
LEMMA OneLeft ==
  ASSUME NEW it \in [Items -> ItemRecords], NEW T \in SUBSET Items, NEW i \in T
  PROVE  /\ Size * Cardinality(T) = Size + Size * Cardinality(T \ {i})
         /\ Bytes(it, T) = it[i].bytes + Bytes(it, T \ {i})
         /\ Size * Cardinality(T \ {i}) \in Int /\ Bytes(it, T \ {i}) \in Int
         /\ it[i].bytes \in Int /\ Size \in Int
<1>1. it[i].bytes \in Int /\ Size \in Int
  <2>1. i \in Items OBVIOUS
  <2> QED BY <2>1, ItemFields, Sizes
<1>2. Bytes(it, T) = it[i].bytes + Bytes(it, T \ {i}) BY BytesAre
<1>3. /\ Size * Cardinality(T) = Size * Cardinality({i}) + Size * Cardinality(T \ {i})
      /\ Size * Cardinality(T \ {i}) \in Int /\ Bytes(it, T \ {i}) \in Int
  <2>1. {i} \in SUBSET T OBVIOUS
  <2> QED BY <2>1, SplitAre
<1>4. Size * Cardinality({i}) = Size
  <2>1. Cardinality({i}) = 1 BY FS_Singleton
  <2>2. Size * 1 = Size BY Sizes
  <2> QED BY <2>1, <2>2
<1> QED BY <1>1, <1>2, <1>3, <1>4

\* A file is added,
LEMMA AddCounts ==
  ASSUME NEW b \in BundleRecords, NEW it \in [Items -> ItemRecords], NEW i \in Items,
         i \notin b.queueItems, i \notin b.finishedFiles, Counts(b, it),
         NEW r, r = BundleAdd(b, it, i)
  PROVE  Counts(r, it)
<1> DEFINE both == b.queueItems \cup b.finishedFiles
           more == r.queueItems \cup r.finishedFiles
<1>1. /\ r.queueItems = b.queueItems \cup {i} /\ r.finishedFiles = b.finishedFiles
      /\ r.size = b.size + Size /\ r.finished = b.finished + it[i].bytes
      /\ r.pathSize = b.pathSize + Size /\ r.queueSize = b.queueSize + Size
  BY AddIs
<1>2. both \subseteq Items /\ b.queueItems \subseteq Items BY BundleFields
<1>3. /\ more \in SUBSET Items /\ i \in more /\ both = more \ {i}
      /\ r.queueItems \in SUBSET Items /\ i \in r.queueItems /\ b.queueItems = r.queueItems \ {i}
  BY <1>1, <1>2
<1>4. /\ b.size = Size * Cardinality(both) /\ b.finished = Bytes(it, both)
      /\ b.pathSize = b.size /\ b.queueSize = Size * Cardinality(b.queueItems)
  BY DEF Counts
<1> HIDE DEF both, more
<1>5. /\ Size * Cardinality(more) = Size + Size * Cardinality(both)
      /\ Bytes(it, more) = it[i].bytes + Bytes(it, both)
      /\ Size * Cardinality(both) \in Int /\ Bytes(it, both) \in Int
      /\ it[i].bytes \in Int /\ Size \in Int
  <2>1. /\ Size * Cardinality(more) = Size + Size * Cardinality(more \ {i})
        /\ Bytes(it, more) = it[i].bytes + Bytes(it, more \ {i})
        /\ Size * Cardinality(more \ {i}) \in Int /\ Bytes(it, more \ {i}) \in Int
        /\ it[i].bytes \in Int /\ Size \in Int
    BY <1>3, OneLeft
  <2> QED BY <1>3, <2>1
<1>6. /\ Size * Cardinality(r.queueItems) = Size + Size * Cardinality(b.queueItems)
      /\ Size * Cardinality(b.queueItems) \in Int
  <2>1. PICK q : q = r.queueItems OBVIOUS
  <2>2. /\ Size * Cardinality(q) = Size + Size * Cardinality(q \ {i})
        /\ Size * Cardinality(q \ {i}) \in Int
    BY <1>3, <2>1, OneLeft
  <2> QED BY <1>3, <2>1, <2>2
<1>7. /\ r.size = Size * Cardinality(more) /\ r.finished = Bytes(it, more)
      /\ r.pathSize = r.size /\ r.queueSize = Size * Cardinality(r.queueItems)
  BY <1>1, <1>4, <1>5, <1>6
<1> QED BY <1>7 DEF Counts, more

\* dropped,
LEMMA DropCounts ==
  ASSUME NEW b \in BundleRecords, NEW it \in [Items -> ItemRecords], NEW i \in Items,
         b.queueItems \cap b.finishedFiles = {}, Counts(b, it),
         IF isDownloaded(it[i].status) THEN i \in b.finishedFiles ELSE i \in b.queueItems,
         NEW r, r = BundleDrop(b, it, i)
  PROVE  Counts(r, it)
<1> DEFINE both == b.queueItems \cup b.finishedFiles
           less == r.queueItems \cup r.finishedFiles
<1>1. /\ r.queueItems = b.queueItems \ {i} /\ r.finishedFiles = b.finishedFiles \ {i}
      /\ r.size = b.size - Size /\ r.finished = b.finished - it[i].bytes
      /\ r.pathSize = b.pathSize - Size
      /\ i \in b.queueItems => r.queueSize = b.queueSize - Size
      /\ i \notin b.queueItems => r.queueSize = b.queueSize
  BY DropIs
<1>2. both \in SUBSET Items /\ b.queueItems \in SUBSET Items BY BundleFields
<1>3. i \in both /\ less = both \ {i} BY <1>1
<1>4. /\ b.size = Size * Cardinality(both) /\ b.finished = Bytes(it, both)
      /\ b.pathSize = b.size /\ b.queueSize = Size * Cardinality(b.queueItems)
  BY DEF Counts
<1> HIDE DEF both, less
<1>5. /\ Size * Cardinality(both) = Size + Size * Cardinality(less)
      /\ Bytes(it, both) = it[i].bytes + Bytes(it, less)
      /\ Size * Cardinality(less) \in Int /\ Bytes(it, less) \in Int
      /\ it[i].bytes \in Int /\ Size \in Int
  BY <1>2, <1>3, OneLeft
<1>6. r.queueSize = Size * Cardinality(r.queueItems)
  <2>1. PICK q : q = b.queueItems OBVIOUS
  <2>2. CASE i \in q
    <3>1. /\ Size * Cardinality(q) = Size + Size * Cardinality(q \ {i})
          /\ Size * Cardinality(q \ {i}) \in Int
      BY <1>2, <2>1, <2>2, OneLeft
    <3> QED BY <1>1, <1>4, <1>5, <2>1, <2>2, <3>1
  <2>3. CASE i \notin q
    <3>1. q \ {i} = q BY <2>3
    <3> QED BY <1>1, <1>4, <2>1, <2>3, <3>1
  <2> QED BY <2>2, <2>3
<1>7. /\ r.size = Size * Cardinality(less) /\ r.finished = Bytes(it, less)
      /\ r.pathSize = r.size
  BY <1>1, <1>4, <1>5
<1> QED BY <1>6, <1>7 DEF Counts, less

\* finished,
LEMMA FinishCounts ==
  ASSUME NEW b \in BundleRecords, NEW it \in [Items -> ItemRecords], NEW i \in Items,
         i \in b.queueItems, Counts(b, it), NEW r, r = BundleFinish(b, it, i)
  PROVE  Counts(r, it)
<1>1. /\ r.queueItems = b.queueItems \ {i} /\ r.finishedFiles = b.finishedFiles \cup {i}
      /\ r.size = b.size /\ r.finished = b.finished /\ r.pathSize = b.pathSize
      /\ r.queueSize = b.queueSize - Size
  BY FinishIs
<1>2. PICK q : q = b.queueItems OBVIOUS
<1>3. q \in SUBSET Items /\ i \in q BY <1>2, BundleFields
<1>4. /\ Size * Cardinality(q) = Size + Size * Cardinality(q \ {i})
      /\ Size * Cardinality(q \ {i}) \in Int /\ Size \in Int
  BY <1>3, OneLeft
<1>5. r.queueItems \cup r.finishedFiles = b.queueItems \cup b.finishedFiles BY <1>1
<1>6. r.queueSize = Size * Cardinality(r.queueItems) BY <1>1, <1>2, <1>4 DEF Counts
<1> QED BY <1>1, <1>5, <1>6 DEF Counts

\* or several are dropped.
LEMMA RemoveItemsCounts ==
  ASSUME NEW b \in BundleRecords, NEW it \in [Items -> ItemRecords], NEW S \in SUBSET Items,
         b.queueItems \cap b.finishedFiles = {}, Counts(b, it),
         \A i \in S : IF isDownloaded(it[i].status) THEN i \in b.finishedFiles
                      ELSE i \in b.queueItems,
         NEW r, r = RemoveItems(b, it, S)
  PROVE  Counts(r, it)
<1> DEFINE both == b.queueItems \cup b.finishedFiles
           less == r.queueItems \cup r.finishedFiles
           U == Undone(it, S)
           D == Done(it, S)
<1>0. /\ U \subseteq b.queueItems /\ D \subseteq b.finishedFiles /\ U \cup D = S
      /\ U = S \cap b.queueItems /\ D = S \cap b.finishedFiles
  BY DEF Undone, Done
<1>01. U = Undone(it, S) /\ D = Done(it, S) OBVIOUS
<1> HIDE DEF U, D, both, less
<1>1. /\ r.queueItems = b.queueItems \ U /\ r.finishedFiles = b.finishedFiles \ D
      /\ r.size = b.size - Size * Cardinality(S) /\ r.finished = b.finished - Bytes(it, S)
      /\ r.pathSize = b.pathSize - Size * Cardinality(S)
      /\ r.queueSize = b.queueSize - Size * Cardinality(U)
  <2>1. /\ r.queueItems = b.queueItems \ Undone(it, S)
        /\ r.finishedFiles = b.finishedFiles \ Done(it, S)
        /\ r.pathSize = b.pathSize - Size * Cardinality(S)
        /\ r.queueSize = b.queueSize - Size * Cardinality(Undone(it, S))
        /\ Done(it, S) \subseteq b.finishedFiles =>
             r.size = b.size - Size * Cardinality(S) /\ r.finished = b.finished - Bytes(it, S)
    BY RemoveItemsAre
  <2> QED BY <1>0, <1>01, <2>1
<1>2. both \in SUBSET Items /\ b.queueItems \in SUBSET Items BY BundleFields DEF both
<1>3. S \in SUBSET both /\ less = both \ S BY <1>0, <1>1 DEF both, less
<1>4. /\ b.size = Size * Cardinality(both) /\ b.finished = Bytes(it, both)
      /\ b.pathSize = b.size /\ b.queueSize = Size * Cardinality(b.queueItems)
  BY DEF Counts, both
<1>5. /\ Size * Cardinality(both) = Size * Cardinality(S) + Size * Cardinality(less)
      /\ Bytes(it, both) = Bytes(it, S) + Bytes(it, less)
      /\ Size * Cardinality(S) \in Int /\ Size * Cardinality(less) \in Int
      /\ Bytes(it, S) \in Int /\ Bytes(it, less) \in Int
  BY <1>2, <1>3, SplitAre
<1>6. r.queueSize = Size * Cardinality(r.queueItems)
  <2>1. PICK q : q = b.queueItems OBVIOUS
  <2>2. /\ Size * Cardinality(q) = Size * Cardinality(U) + Size * Cardinality(q \ U)
        /\ Size * Cardinality(U) \in Int /\ Size * Cardinality(q \ U) \in Int
    BY <1>0, <1>2, <2>1, SplitAre
  <2> QED BY <1>1, <1>4, <2>1, <2>2
<1>7. /\ r.size = Size * Cardinality(less) /\ r.finished = Bytes(it, less)
      /\ r.pathSize = r.size
  BY <1>1, <1>4, <1>5
<1> QED BY <1>6, <1>7 DEF Counts, less

\* Other items change, and none of the counts.
LEMMA SameCounts ==
  ASSUME NEW b \in BundleRecords, NEW it \in [Items -> ItemRecords],
         NEW jt \in [Items -> ItemRecords], Counts(b, it),
         \A i \in b.queueItems \cup b.finishedFiles : jt[i].bytes = it[i].bytes
  PROVE  Counts(b, jt)
<1>1. PICK S : S = b.queueItems \cup b.finishedFiles OBVIOUS
<1>2. S \in SUBSET Items BY <1>1, BundleFields
<1>3. Bytes(jt, S) = Bytes(it, S) BY <1>1, <1>2, BytesAre
<1> QED BY <1>1, <1>3 DEF Counts

\* The steps that change the bundle, its files or their users; every other step
\* leaves them alone.
Hooked == FileHook \/ FileHookDone \/ Revalidate
Sources(i, u) == removeFileSource(i, u) \/ addValidatedSource(i, u)
Moving ==
  \/ \E f \in Files : onFileDownloadCompleted(f) \/ MovesItem(f)
  \/ \E i \in Items : handleFailedRecheckItems(i) \/ removeQI(i)
  \/ \E f \in Files, u \in Users : addBundleFile(f, u)
  \/ RemovesItem \/ removeBundle
Quiet == UNCHANGED <<fileQueue, bundle, users, item>> /\ overtaken \subseteq overtaken'

\* There are no other steps.
LEMMA StepKinds ==
  ASSUME [Next]_vars
  PROVE  \/ Quiet \/ Hooked \/ Moving \/ SetsQIPriority
         \/ \E i \in Items, u \in Users : Sources(i, u)
<1>1. ASSUME NEW f \in Files, putDownload(f) PROVE Quiet BY <1>1 DEF putDownload, Quiet, lists
<1>2. ASSUME NEW f \in Files, FinishesBundle(f) \/ renameDownloadedFile(f) PROVE Quiet
  BY <1>2 DEF FinishesBundle, Finishes, renameDownloadedFile, Quiet, lists
<1>3. ASSUME onDownloadError \/ SetsError \/ checkDiskSpace PROVE Quiet
  BY <1>3 DEF onDownloadError, SetsError, checkDiskSpace, Quiet, lists
<1>4. ASSUME checkResumeBundles \/ PauseTask PROVE Quiet
  <2>1. UNCHANGED lists BY <1>4 DEF checkResumeBundles, PauseTask
  <2>2. UNCHANGED overtaken \/ SetPriority(FALSE) \/ SetPriority(TRUE)
    BY <1>4, Zenon DEF checkResumeBundles, PauseTask
  <2>3. UNCHANGED overtaken \/ \E p \in BOOLEAN : SetPriority(p) BY <2>2, Zenon
  <2>4. overtaken \subseteq overtaken' BY <2>3, PriorityMarks
  <2> QED BY <2>1, <2>4 DEF Quiet, lists
<1>5. ASSUME \/ CheckFinished \/ SetsFailed \/ CheckCompleted
             \/ StartShare \/ BundleHook \/ ShareBundle
      PROVE  Quiet
  BY <1>5 DEF CheckFinished, SetsFailed, CheckCompleted, Completes, StartShare, BundleHook,
              ShareBundle, Quiet, lists
<1>6. ASSUME RefreshCompleted \/ SetsShared \/ DelayedCheck PROVE Quiet
  BY <1>6 DEF RefreshCompleted, SetsShared, DelayedCheck, Quiet, lists
<1>7. ASSUME NEW p \in BOOLEAN, setBundlePriority(p) \/ shareBundle(p) PROVE Quiet
  <2>1. UNCHANGED lists BY <1>7 DEF setBundlePriority, shareBundle
  <2>2. overtaken \subseteq overtaken' BY <1>7, PriorityMarks DEF setBundlePriority, shareBundle
  <2> QED BY <2>1, <2>2 DEF Quiet, lists
<1>8. ASSUME NEW i \in Items, setQIPriority(i) \/ LoseFile(i) PROVE Quiet
  BY <1>8 DEF setQIPriority, LoseFile, Quiet, lists
<1>9. ASSUME UNCHANGED vars PROVE Quiet BY <1>9 DEF vars, lists, Quiet
<1>10. TaskThread => Quiet \/ Hooked BY <1>4, <1>5 DEF TaskThread, Hooked
<1>11. Refreshing => Quiet BY <1>6 DEF Refreshing
<1>12. ASSUME NEW f \in Files, Returning(f) PROVE Quiet \/ Moving
  BY <1>2, <1>12 DEF Returning, Moving
<1>13. CASE \E f \in Files : putDownload(f) \/ Returning(f) BY <1>1, <1>12, <1>13
<1>14. CASE \E p \in BOOLEAN : setBundlePriority(p) \/ shareBundle(p) BY <1>7, <1>14
<1>15. CASE \E i \in Items : \/ setQIPriority(i) \/ handleFailedRecheckItems(i)
                             \/ LoseFile(i) \/ removeQI(i)
  BY <1>8, <1>15 DEF Moving
<1>16. CASE \E i \in Items, u \in Users : removeFileSource(i, u) \/ addValidatedSource(i, u)
  BY <1>16 DEF Sources
<1>17. CASE \E f \in Files, u \in Users : addBundleFile(f, u) BY <1>17 DEF Moving
<1>18. CASE RemovesItem \/ removeBundle BY <1>18 DEF Moving
<1> QED
  BY <1>3, <1>4, <1>6, <1>9, <1>10, <1>11, <1>13, <1>14, <1>15, <1>16, <1>17, <1>18 DEF Next

\* Where the removed file is.
LEMMA RemovedAt ==
  ASSUME Types, Calm, RemovesItem, NEW i, i = remover.item
  PROVE  /\ i \in Items /\ i \notin Current
         /\ IF isDownloaded(item[i].status) THEN i \in bundle.finishedFiles
            ELSE i \in bundle.queueItems
<1>1. remover.pc = "removed" /\ i \in Items BY RemovesIs
<1>2. i \in Both /\ i \notin Current BY <1>1 DEF Calm, Listed
<1>3. \A f \in Files : dl[f].item # i
  <2> TAKE f \in Files
  <2>1. ReturnAt(f) BY DEF Calm, Returns
  <2>2. dl[f].pc \in {"idle", "found", "whole", "emptied", "moved"}
    BY DEF Types, Returned, ReturnRecords
  <2> QED BY <1>1, <1>2, <2>1, <2>2, ItemIs DEF ReturnAt
<1>4. i \in bundle.queueItems => item[i].status = "QUEUED"
  <2>1. i[1] \in Files BY <1>1, ItemIs
  <2> QED BY <1>3, <2>1 DEF Calm, Returns, QueuedAt
<1>5. i \in bundle.finishedFiles => isDownloaded(item[i].status) BY DEF Types, Placed
<1> QED BY <1>1, <1>2, <1>4, <1>5 DEF Both, isDownloaded

\* The hooks only set the status of files that are done.
LEMMA HookedIs ==
  ASSUME Types, Hooked
  PROVE  /\ UNCHANGED <<fileQueue, bundle, users, overtaken>>
         /\ item' \in [Items -> ItemRecords]
         /\ \A j \in Items :
              /\ item'[j].bytes = item[j].bytes /\ item'[j].sources = item[j].sources
              /\ item'[j].prio = item[j].prio
              /\ Calm => (item'[j].status = "QUEUED" <=> item[j].status = "QUEUED")
<1>1. CASE FileHook
  <2>1. PICK i : i = Head(tasks).item OBVIOUS
  <2>2. /\ Head(tasks) = tasks[1] /\ tasks[1].type = "hooks" /\ 1 \in DOMAIN tasks
        /\ i \in Items /\ item' \in [Items -> ItemRecords]
        /\ item'[i].status = "VALIDATION_RUNNING" /\ item'[i].bytes = item[i].bytes
        /\ item'[i].sources = item[i].sources /\ item'[i].prio = item[i].prio
        /\ \A j \in Items \ {i} : item'[j] = item[j]
    BY <1>1, <2>1, FileHookIs
  <2>3. Calm => item[i].status = "DOWNLOADED"
    <3>1. Calm => HookAt(i) BY <2>1, <2>2 DEF Calm, Hooks
    <3> QED BY <3>1 DEF HookAt
  <2> QED BY <1>1, <2>2, <2>3 DEF FileHook
<1>2. CASE FileHookDone
  <2>1. PICK i : i = task.item OBVIOUS
  <2>2. /\ task.phase = "fileHook" /\ i \in Items /\ item' \in [Items -> ItemRecords]
        /\ item'[i].status \in {"COMPLETED", "VALIDATION_ERROR"}
        /\ item'[i].bytes = item[i].bytes
        /\ item'[i].sources = item[i].sources /\ item'[i].prio = item[i].prio
        /\ \A j \in Items \ {i} : item'[j] = item[j]
    BY <1>2, <2>1, HookDoneIs
  <2>3. Calm => item[i].status = "VALIDATION_RUNNING" BY <2>1, <2>2 DEF Calm, HookRuns
  <2> QED BY <1>2, <2>2, <2>3 DEF FileHookDone
<1>3. CASE Revalidate
  <2>1. PICK still \in SUBSET Failed(bundle, item) :
          /\ item' \in [Items -> ItemRecords]
          /\ \A i \in Items :
               /\ item'[i].status = IF i \in Failed(bundle, item) \ still THEN "COMPLETED"
                                    ELSE item[i].status
               /\ item'[i].bytes = item[i].bytes
               /\ item'[i].sources = item[i].sources /\ item'[i].prio = item[i].prio
    BY <1>3, RevalidatedIs
  <2>2. \A i \in Failed(bundle, item) : item[i].status = "VALIDATION_ERROR" BY DEF Failed
  <2> QED BY <1>3, <2>1, <2>2 DEF Revalidate
<1> QED BY <1>1, <1>2, <1>3 DEF Hooked

-----------------------------------------------------------------------------
Counting == "item" \notin overtaken => Counts(bundle, item)

\* The lists stay, and the bytes of the files.
LEMMA KeptCounting ==
  ASSUME Types, Counting, UNCHANGED bundle, overtaken \subseteq overtaken',
         item' \in [Items -> ItemRecords], \A i \in Items : item'[i].bytes = item[i].bytes
  PROVE  Counting'
<1> SUFFICES ASSUME "item" \notin overtaken PROVE Counts(bundle, item')
  BY DEF Counting
<1>1. Counts(bundle, item) /\ bundle \in BundleRecords /\ item \in [Items -> ItemRecords]
  BY DEF Counting, Types, ListTypes
<1>2. bundle.queueItems \cup bundle.finishedFiles \subseteq Items BY <1>1, BundleFields
<1> QED BY <1>1, <1>2, SameCounts

\* A segment is added to its file and to the bundle.
LEMMA CompletedCounting ==
  ASSUME Types, Steady, Counting, NEW f \in Files, onFileDownloadCompleted(f)
  PROVE  Counting'
<1>0. UNCHANGED overtaken BY DEF onFileDownloadCompleted
<1> SUFFICES ASSUME "item" \notin overtaken PROVE Counts(bundle', item')
  BY <1>0 DEF Counting
<1>1. Calm /\ Counts(bundle, item) BY DEF Steady, Counting
<1>2. PICK i : i = dl[f].item OBVIOUS
<1>3. /\ dl[f].pc = "found" /\ i \in Items
      /\ item' \in [Items -> ItemRecords] /\ \A j \in Items \ {i} : item'[j] = item[j]
      /\ item'[i].bytes = item[i].bytes + 1
      /\ bundle'.queueItems = bundle.queueItems
      /\ bundle'.finishedFiles = bundle.finishedFiles
      /\ bundle'.size = bundle.size /\ bundle'.finished = bundle.finished + 1
      /\ bundle'.queueSize = bundle.queueSize /\ bundle'.pathSize = bundle.pathSize
  BY <1>2, CompletedIs
<1>4. i \in bundle.queueItems BY <1>1, <1>2, <1>3 DEF Calm, Returns, ReturnAt
<1>5. PICK S : S = Both OBVIOUS
<1>6. S \in SUBSET Items /\ i \in S BY <1>4, <1>5, BundleFields DEF Both, Types, ListTypes
<1>7. item \in [Items -> ItemRecords] BY DEF Types, ListTypes
<1>8. /\ Bytes(item, S) = item[i].bytes + Bytes(item, S \ {i})
      /\ Bytes(item, S \ {i}) \in Int /\ item[i].bytes \in Int
  BY <1>6, <1>7, OneLeft
<1>9. Bytes(item', S) = item'[i].bytes + Bytes(item', S \ {i}) BY <1>3, <1>6, BytesAre
<1>10. Bytes(item', S \ {i}) = Bytes(item, S \ {i})
  <2>1. PICK T : T = S \ {i} OBVIOUS
  <2>2. T \in SUBSET Items /\ \A j \in T : item'[j].bytes = item[j].bytes BY <1>3, <1>6, <2>1
  <2>3. Bytes(item', T) = Bytes(item, T) BY <1>3, <1>7, <2>2, BytesAre
  <2> QED BY <2>1, <2>3
<1>11. Bytes(item', S) = Bytes(item, S) + 1 BY <1>3, <1>8, <1>9, <1>10
<1> QED BY <1>1, <1>3, <1>5, <1>11 DEF Counts, Both

\* A file that is done leaves what is queued.
LEMMA MovesCounting ==
  ASSUME Types, Steady, Counting, NEW f \in Files, MovesItem(f)
  PROVE  Counting'
<1>0. UNCHANGED <<item, overtaken>> BY DEF MovesItem
<1> SUFFICES ASSUME "item" \notin overtaken PROVE Counts(bundle', item)
  BY <1>0 DEF Counting
<1>1. Calm /\ Counts(bundle, item) BY DEF Steady, Counting
<1>2. PICK i : i = dl[f].item OBVIOUS
<1>3. dl[f].pc = "whole" /\ i \in Items BY <1>2, MovesIs
<1>4. i \in bundle.queueItems BY <1>1, <1>2, <1>3 DEF Calm, Returns, ReturnAt
<1>5. bundle' = BundleFinish(bundle, item, i) BY <1>2 DEF MovesItem
<1> QED BY <1>1, <1>3, <1>4, <1>5, FinishCounts DEF Types, ListTypes

\* A file is removed.
LEMMA RemovesCounting ==
  ASSUME Types, Steady, Counting, RemovesItem
  PROVE  Counting'
<1>0. UNCHANGED item /\ overtaken \subseteq overtaken' BY DEF RemovesItem
<1> SUFFICES ASSUME "item" \notin overtaken PROVE Counts(bundle', item)
  BY <1>0 DEF Counting
<1>1. Calm /\ Counts(bundle, item) BY DEF Steady, Counting
<1>2. PICK i : i = remover.item OBVIOUS
<1>3. /\ i \in Items
      /\ IF isDownloaded(item[i].status) THEN i \in bundle.finishedFiles
         ELSE i \in bundle.queueItems
  BY <1>1, <1>2, RemovedAt
<1>4. bundle' = BundleDrop(bundle, item, i) BY <1>2 DEF RemovesItem
<1>5. /\ bundle \in BundleRecords /\ item \in [Items -> ItemRecords]
      /\ bundle.queueItems \cap bundle.finishedFiles = {}
  BY DEF Types, ListTypes, Placed
<1> QED BY <1>1, <1>3, <1>4, <1>5, DropCounts

\* What is queued when nothing is at work on the bundle's files.
LEMMA AllQueued ==
  ASSUME Types, Calm, \A f \in Files : dl[f].item \notin Both
  PROVE  \A i \in bundle.queueItems : item[i].status = "QUEUED"
<1> TAKE i \in bundle.queueItems
<1>1. i \in Both /\ i[1] \in Files BY BundleFields, ItemIs DEF Both, Types, ListTypes
<1> QED BY <1>1 DEF Calm, Returns, QueuedAt

\* The bundle is removed.
LEMMA BundleGoneCounting ==
  ASSUME Types, Steady, Counting, removeBundle
  PROVE  Counting'
<1>0. UNCHANGED item /\ overtaken' = overtaken \cup Overtakes(Both) BY DEF removeBundle, Both
<1> SUFFICES ASSUME "item" \notin overtaken' PROVE Counts(bundle', item)
  BY <1>0 DEF Counting
<1>1. Calm /\ Counts(bundle, item) /\ "item" \notin Overtakes(Both)
  BY <1>0 DEF Steady, Counting
<1>2. \A i \in bundle.queueItems : item[i].status = "QUEUED"
  BY <1>1, OvertakesNone, AllQueued
<1>3. /\ bundle \in BundleRecords /\ item \in [Items -> ItemRecords]
      /\ bundle.queueItems \cap bundle.finishedFiles = {}
      /\ \A i \in bundle.finishedFiles : isDownloaded(item[i].status)
  BY DEF Types, ListTypes, Placed
<1>4. PICK S : S = Both OBVIOUS
<1>5. S \in SUBSET Items BY <1>3, <1>4, BundleFields DEF Both
<1>6. \A i \in S : IF isDownloaded(item[i].status) THEN i \in bundle.finishedFiles
                   ELSE i \in bundle.queueItems
  BY <1>2, <1>3, <1>4 DEF Both, isDownloaded
<1>7. bundle' = RemoveItems(bundle, item, S) BY <1>4, BundleGoneIs DEF Both
<1> QED BY <1>1, <1>3, <1>5, <1>6, <1>7, RemoveItemsCounts

\* The file that a path had before another is added to it: it is finished.
LEMMA OldAt ==
  ASSUME Types, Calm, NEW f \in Files, NEW old, old = OldItem(f), fileQueue[f] # 0,
         item[old].status = "COMPLETED", \A g \in Files : dl[g].item # old
  PROVE  old \in Items /\ old \in bundle.finishedFiles /\ old \notin bundle.queueItems
<1>1. old \in Items /\ old \in Current BY CurrentIs DEF OldItem, Types, ListTypes
<1>2. old \in Both BY <1>1 DEF Calm, Listed
<1>3. old \notin bundle.queueItems
  <2>1. old[1] \in Files BY <1>1, ItemIs
  <2> QED BY <2>1 DEF Calm, Returns, QueuedAt
<1> QED BY <1>1, <1>2, <1>3 DEF Both

\* A file is added; its path may have a finished one.
LEMMA AddFileCounting ==
  ASSUME Types, Steady, Counting, NEW f \in Files, NEW u \in Users, addBundleFile(f, u)
  PROVE  Counting'
<1>0. made[f] < Gens BY DEF addBundleFile
<1>1. PICK i, old, R, k, b :
        /\ i = NewItem(f) /\ old = OldItem(f) /\ R = GoneWith(f)
        /\ k = Kept(f) /\ b = Added(f, item')
  OBVIOUS
<1>2. /\ k \in BundleRecords /\ b \in BundleRecords
      /\ R \subseteq bundle.finishedFiles \ {old}
      /\ k.queueItems = bundle.queueItems
      /\ k.finishedFiles = bundle.finishedFiles \ {old}
      /\ fileQueue[f] # 0 => item[old].status = "COMPLETED"
      /\ bundle' = IF R = {} THEN b ELSE RemoveItems(b, item', R)
      /\ item' \in [Items -> ItemRecords]
      /\ item'[i].status = "QUEUED"
      /\ \A j \in Items \ {i} : item'[j] = item[j]
      /\ overtaken \subseteq overtaken' /\ Overtakes(R \cup {old}) \subseteq overtaken'
  BY <1>1, AddFileIs
<1>3. i \in Items /\ i \notin bundle.queueItems /\ i \notin bundle.finishedFiles
  BY <1>0, <1>1, FreshIs
<1>4. /\ item \in [Items -> ItemRecords] /\ bundle \in BundleRecords
      /\ bundle.queueItems \cap bundle.finishedFiles = {}
      /\ \A j \in bundle.finishedFiles : isDownloaded(item[j].status)
      /\ bundle.finishedFiles \subseteq Items /\ bundle.queueItems \subseteq Items
  BY BundleFields DEF Types, ListTypes, Placed
<1> SUFFICES ASSUME "item" \notin overtaken' PROVE Counts(bundle', item') BY DEF Counting
<1>5. Calm /\ Counts(bundle, item) /\ "item" \notin Overtakes(R \cup {old})
  BY <1>2 DEF Steady, Counting
<1>6. Counts(k, item)
  <2>1. CASE fileQueue[f] = 0
    <3>1. k = bundle BY <1>1, <2>1 DEF Kept
    <3> QED BY <1>5, <3>1
  <2>2. CASE fileQueue[f] # 0
    <3>1. \A g \in Files : dl[g].item # old BY <1>5, OvertakesNone
    <3>2. old \in Items /\ old \in bundle.finishedFiles
      BY <1>1, <1>2, <1>5, <2>2, <3>1, OldAt
    <3>3. k = BundleDrop(bundle, item, old) BY <1>1, <2>2 DEF Kept
    <3>4. isDownloaded(item[old].status) BY <1>4, <3>2
    <3> QED BY <1>4, <1>5, <3>2, <3>3, <3>4, DropCounts
  <2> QED BY <2>1, <2>2
<1>7. Counts(k, item')
  <2>1. \A j \in k.queueItems \cup k.finishedFiles : item'[j].bytes = item[j].bytes
    BY <1>2, <1>3, <1>4
  <2> QED BY <1>2, <1>4, <1>6, <2>1, SameCounts
<1>8. b = BundleAdd(k, item', i) BY <1>1 DEF Added
<1>9. i \notin k.queueItems /\ i \notin k.finishedFiles BY <1>2, <1>3
<1>10. Counts(b, item') BY <1>2, <1>3, <1>7, <1>8, <1>9, AddCounts
<1>11. b.queueItems = k.queueItems \cup {i} /\ b.finishedFiles = k.finishedFiles
  BY <1>2, <1>3, <1>8, AddIs
<1>12. b.queueItems \cap b.finishedFiles = {} BY <1>2, <1>3, <1>4, <1>11
<1>13. R \in SUBSET Items /\ \A j \in R : isDownloaded(item'[j].status) /\ j \in b.finishedFiles
  BY <1>2, <1>3, <1>4, <1>11
<1>14. CASE R = {} BY <1>2, <1>10, <1>14
<1>15. CASE R # {}
  <2>1. bundle' = RemoveItems(b, item', R) BY <1>2, <1>15
  <2> QED BY <1>2, <1>10, <1>12, <1>13, <2>1, RemoveItemsCounts
<1> QED BY <1>14, <1>15

\* A damaged file leaves with no bytes and is added again.
LEMMA RecheckCounting ==
  ASSUME Types, Steady, Counting, NEW i \in Items, handleFailedRecheckItems(i)
  PROVE  Counting'
<1>1. PICK R, a, less, k, b :
        /\ R = GoneOnRecheck(i) /\ a = Reset(i) /\ less = Less(i)
        /\ k = Taken(i) /\ b = Again(i, item')
  OBVIOUS
<1>2. /\ i \in bundle.finishedFiles
      /\ less \in [Items -> ItemRecords] /\ less[i].bytes = 0
      /\ less[i].status = item[i].status
      /\ \A j \in Items \ {i} : less[j] = item[j]
      /\ a \in BundleRecords /\ k \in BundleRecords /\ b \in BundleRecords
      /\ R \subseteq bundle.finishedFiles \ {i}
      /\ bundle' = RemoveItems(b, item', R)
      /\ item' \in [Items -> ItemRecords]
      /\ item'[i].status = "QUEUED" /\ item'[i].bytes = 0
      /\ \A j \in Items \ {i} : item'[j] = item[j]
      /\ overtaken \subseteq overtaken'
  BY <1>1, RecheckIs
<1>4. /\ item \in [Items -> ItemRecords] /\ bundle \in BundleRecords
      /\ bundle.queueItems \cap bundle.finishedFiles = {}
      /\ \A j \in bundle.finishedFiles : isDownloaded(item[j].status)
      /\ bundle.finishedFiles \subseteq Items /\ bundle.queueItems \subseteq Items
  BY BundleFields DEF Types, ListTypes, Placed
<1> SUFFICES ASSUME "item" \notin overtaken' PROVE Counts(bundle', item') BY DEF Counting
<1>5. Counts(bundle, item) BY <1>2 DEF Counting
<1>6. /\ a.queueItems = bundle.queueItems /\ a.finishedFiles = bundle.finishedFiles
      /\ a.size = bundle.size /\ a.finished = bundle.finished - item[i].bytes
      /\ a.pathSize = bundle.pathSize /\ a.queueSize = bundle.queueSize
  <2>1. a = [bundle EXCEPT !.finished = bundle.finished - item[i].bytes] BY <1>1 DEF Reset
  <2> QED BY <1>4, <2>1 DEF BundleRecords
<1>7. Counts(a, less)
  <2>1. PICK S : S = Both OBVIOUS
  <2>2. S \in SUBSET Items /\ i \in S BY <1>2, <1>4, <2>1 DEF Both
  <2>3. /\ Bytes(item, S) = item[i].bytes + Bytes(item, S \ {i})
        /\ Bytes(item, S \ {i}) \in Int /\ item[i].bytes \in Int
    BY <1>4, <2>2, OneLeft
  <2>4. Bytes(less, S) = less[i].bytes + Bytes(less, S \ {i}) BY <1>2, <2>2, BytesAre
  <2>5. Bytes(less, S \ {i}) = Bytes(item, S \ {i})
    <3>1. PICK T : T = S \ {i} OBVIOUS
    <3>2. T \in SUBSET Items /\ \A j \in T : less[j].bytes = item[j].bytes BY <1>2, <2>2, <3>1
    <3>3. Bytes(less, T) = Bytes(item, T) BY <1>2, <1>4, <3>2, BytesAre
    <3> QED BY <3>1, <3>3
  <2>6. Bytes(less, S) = Bytes(item, S) - item[i].bytes BY <1>2, <2>3, <2>4, <2>5
  <2> QED BY <1>5, <1>6, <2>1, <2>6 DEF Counts, Both
<1>8. k = BundleDrop(a, less, i) BY <1>1 DEF Taken
<1>9. isDownloaded(less[i].status) /\ i \in a.finishedFiles
      /\ a.queueItems \cap a.finishedFiles = {}
  BY <1>2, <1>4, <1>6
<1>10. Counts(k, less) BY <1>2, <1>7, <1>8, <1>9, DropCounts
<1>11. k.queueItems = bundle.queueItems /\ k.finishedFiles = bundle.finishedFiles \ {i}
  <2>1. a \in BundleRecords /\ less \in [Items -> ItemRecords] BY <1>2
  <2>2. k.queueItems = a.queueItems /\ k.finishedFiles = a.finishedFiles \ {i}
    BY <1>8, <1>9, <2>1, DropIs
  <2> QED BY <1>6, <2>2
<1>12. Counts(k, item')
  <2>1. \A j \in k.queueItems \cup k.finishedFiles : item'[j].bytes = less[j].bytes
    BY <1>2, <1>4, <1>11
  <2> QED BY <1>2, <1>10, <2>1, SameCounts
<1>13. b = BundleAdd(k, item', i) BY <1>1 DEF Again
<1>14. i \notin k.queueItems /\ i \notin k.finishedFiles BY <1>2, <1>4, <1>11
<1>15. Counts(b, item') BY <1>2, <1>12, <1>13, <1>14, AddCounts
<1>16. b.queueItems = k.queueItems \cup {i} /\ b.finishedFiles = k.finishedFiles
  BY <1>2, <1>13, AddIs
<1>17. b.queueItems \cap b.finishedFiles = {} BY <1>4, <1>11, <1>16
<1>18. R \in SUBSET Items /\ \A j \in R : isDownloaded(item'[j].status) /\ j \in b.finishedFiles
  BY <1>2, <1>4, <1>11, <1>16
<1> QED BY <1>2, <1>15, <1>17, <1>18, RemoveItemsCounts

\* A new bundle counts its files,
LEMMA CountingInit == Init => Counting
<1> SUFFICES ASSUME Init PROVE Counts(bundle, item) BY DEF Counting
<1>1. PICK n : n = Cardinality(Initial) OBVIOUS
<1>2. /\ bundle.queueItems = FirstItems /\ bundle.finishedFiles = {}
      /\ bundle.size = n * Size /\ bundle.finished = 0
      /\ bundle.queueSize = n * Size /\ bundle.pathSize = n * Size
  BY <1>1, InitIs
<1>3. item \in [Items -> ItemRecords] /\ \A i \in Items : item[i].bytes = 0 BY InitIs
<1>4. /\ FirstItems \subseteq Items /\ Cardinality(FirstItems) = n /\ n \in Nat
  BY <1>1, FirstItemsAre, ItemsFinite
<1>5. n * Size = Size * n BY <1>4, Sizes
<1>6. Bytes(item, FirstItems) = 0
  <2>1. Units(item, FirstItems) = {}
    <3>1. \A i \in FirstItems : item[i].bytes = 0 BY <1>3, <1>4
    <3>2. 1..0 = {} OBVIOUS
    <3> QED BY <3>1, <3>2 DEF Units
  <2> QED BY <1>3, <1>4, <2>1, BytesAreUnits, FS_EmptySet
<1>7. FirstItems \cup {} = FirstItems OBVIOUS
<1> QED BY <1>2, <1>4, <1>5, <1>6, <1>7 DEF Counts

\* every step keeps the count,
LEMMA CountingStep == Types /\ Steady /\ Counting /\ [Next]_vars => Counting'
<1> SUFFICES ASSUME Types, Steady, Counting, [Next]_vars PROVE Counting' OBVIOUS
<1>0. item \in [Items -> ItemRecords] BY DEF Types, ListTypes
<1>1. CASE Quiet BY <1>0, <1>1, KeptCounting DEF Quiet
<1>2. CASE Hooked
  <2>1. /\ UNCHANGED <<bundle, overtaken>> /\ item' \in [Items -> ItemRecords]
        /\ \A j \in Items : item'[j].bytes = item[j].bytes
    BY <1>2, HookedIs
  <2> QED BY <2>1, KeptCounting
<1>3. CASE SetsQIPriority
  <2>1. PICK i : i = setter OBVIOUS
  <2>2. /\ item' \in [Items -> ItemRecords] /\ item'[i].bytes = item[i].bytes
        /\ \A j \in Items \ {i} : item'[j] = item[j]
    BY <1>3, <2>1, PrioSetIs
  <2>3. \A j \in Items : item'[j].bytes = item[j].bytes BY <2>2
  <2>4. UNCHANGED bundle /\ overtaken \subseteq overtaken' BY <1>3 DEF SetsQIPriority
  <2> QED BY <2>2, <2>3, <2>4, KeptCounting
<1>4. CASE \E i \in Items, u \in Users : Sources(i, u)
  <2>1. PICK i \in Items, u \in Users : removeFileSource(i, u) \/ addValidatedSource(i, u)
    BY <1>4 DEF Sources
  <2>2. /\ item' \in [Items -> ItemRecords] /\ item'[i].bytes = item[i].bytes
        /\ \A j \in Items \ {i} : item'[j] = item[j]
    BY <2>1, SourceIs
  <2>3. \A j \in Items : item'[j].bytes = item[j].bytes BY <2>2
  <2>4. UNCHANGED <<bundle, overtaken>> BY <2>1 DEF removeFileSource, addValidatedSource
  <2> QED BY <2>2, <2>3, <2>4, KeptCounting
<1>5. CASE Moving
  <2>1. ASSUME NEW i \in Items, removeQI(i) PROVE Counting'
    <3>1. UNCHANGED <<bundle, item>> /\ overtaken \subseteq overtaken' BY <2>1 DEF removeQI
    <3> QED BY <1>0, <3>1, KeptCounting
  <2> QED BY <1>5, <2>1, CompletedCounting, MovesCounting, RecheckCounting, AddFileCounting,
             RemovesCounting, BundleGoneCounting DEF Moving
<1> QED BY <1>1, <1>2, <1>3, <1>4, <1>5, StepKinds

\* which is what is promised.
LEMMA CountingCounted == Counting => Counted
BY DEF Counting, Counts, Counted

\* What the bundle and the queue count is the sum over the bundle's files.
THEOREM CountedHolds == Spec => []Counted
BY TypesInit, TypesStep, SteadyInit, SteadyStep, CountingInit, CountingStep, CountingCounted, PTL
DEF Spec

-----------------------------------------------------------------------------
(* The sources.                                                            *)

\* Is the item j in the user's list of the priority p?
In(us, u, p, j) == <<p, j>> \in us[u].queue

\* Every user's count is the number of the files in his lists.
CountsUsers(us) == \A u \in Users : us[u].files = Cardinality(us[u].queue)

\* A user's lists are finite.
LEMMA UserIs ==
  ASSUME NEW us \in [Users -> UserRecords], NEW u \in Users
  PROVE  /\ us[u] \in UserRecords /\ us[u].queue \subseteq Prios \X Items /\ us[u].files \in Int
         /\ IsFiniteSet(us[u].queue) /\ Cardinality(us[u].queue) \in Nat
         /\ us[u].queue # {} => Cardinality(us[u].queue) > 0
<1>1. us[u] \in UserRecords OBVIOUS
<1>2. us[u].queue \subseteq Prios \X Items /\ us[u].files \in Int BY <1>1 DEF UserRecords
<1>3. IsFiniteSet(Prios)
  <2>1. Prios = {"normal"} \cup {"paused"} BY DEF Prios
  <2>2. IsFiniteSet({"normal"}) /\ IsFiniteSet({"paused"}) BY FS_Singleton
  <2> QED BY <2>1, <2>2, FS_Union
<1>4. IsFiniteSet(Prios \X Items) BY <1>3, ItemsFinite, FS_Product
<1>5. IsFiniteSet(us[u].queue) BY <1>2, <1>4, FS_Subset
<1>6. Cardinality(us[u].queue) \in Nat BY <1>5, FS_CardinalityType
<1>7. us[u].queue # {} => Cardinality(us[u].queue) # 0 BY <1>5, FS_EmptySet
<1> QED BY <1>1, <1>2, <1>5, <1>6, <1>7

\* A file leaves the lists of users who have it there,
LEMMA RemoveQIIs ==
  ASSUME NEW us \in [Users -> UserRecords], NEW it \in [Items -> ItemRecords], NEW i \in Items,
         NEW U, CountsUsers(us), \A u \in U : u \in Users /\ In(us, u, it[i].prio, i),
         NEW r, r = RemoveQI(us, it, i, U)
  PROVE  /\ r \in [Users -> UserRecords] /\ CountsUsers(r)
         /\ \A u \in Users, p \in Prios, j \in Items :
              In(r, u, p, j) <=> In(us, u, p, j) /\ ~(u \in U /\ j = i /\ p = it[i].prio)
<1>1. r \in [Users -> UserRecords] BY UserTypes
<1> DEFINE e == <<it[i].prio, i>>
<1>2. ASSUME NEW u \in Users
      PROVE  /\ u \in U => r[u].queue = us[u].queue \ {e} /\ r[u].files = us[u].files - 1
             /\ u \notin U => r[u] = us[u]
  <2>1. u \notin U => r[u] = us[u] BY DEF RemoveQI
  <2>2. ASSUME u \in U
        PROVE  r[u] = [queue |-> us[u].queue \ {e}, files |-> us[u].files - 1]
    <3>1. e \in us[u].queue BY <2>2 DEF In
    <3>2. us[u].files > 0 BY <3>1, UserIs DEF CountsUsers
    <3>3. \E x \in us[u].queue : x[1] = it[i].prio BY <3>1
    <3> QED BY <2>2, <3>2, <3>3 DEF RemoveQI
  <2> QED BY <2>1, <2>2
<1>3. ASSUME NEW u \in Users PROVE r[u].files = Cardinality(r[u].queue)
  <2>1. us[u].files = Cardinality(us[u].queue) BY DEF CountsUsers
  <2>2. CASE u \in U
    <3>1. e \in us[u].queue BY <2>2 DEF In
    <3>2. IsFiniteSet(us[u].queue) BY UserIs
    <3> HIDE DEF e
    <3>3. Cardinality(us[u].queue \ {e}) = Cardinality(us[u].queue) - 1
      BY <3>1, <3>2, FS_RemoveElement
    <3> QED BY <1>2, <2>1, <2>2, <3>3
  <2>3. CASE u \notin U BY <1>2, <2>1, <2>3
  <2> QED BY <2>2, <2>3
<1>4. ASSUME NEW u \in Users, NEW p \in Prios, NEW j \in Items
      PROVE  In(r, u, p, j) <=> In(us, u, p, j) /\ ~(u \in U /\ j = i /\ p = it[i].prio)
  BY <1>2 DEF In
<1> QED BY <1>1, <1>3, <1>4 DEF CountsUsers

\* joins the lists of users who do not have it there,
LEMMA AddQIIs ==
  ASSUME NEW us \in [Users -> UserRecords], NEW it \in [Items -> ItemRecords], NEW i \in Items,
         NEW U, CountsUsers(us), \A u \in U : u \in Users /\ ~In(us, u, it[i].prio, i),
         NEW r, r = AddQI(us, it, i, U)
  PROVE  /\ r \in [Users -> UserRecords] /\ CountsUsers(r)
         /\ \A u \in Users, p \in Prios, j \in Items :
              In(r, u, p, j) <=> In(us, u, p, j) \/ (u \in U /\ j = i /\ p = it[i].prio)
<1>1. r \in [Users -> UserRecords] BY UserTypes
<1> DEFINE e == <<it[i].prio, i>>
<1>2. ASSUME NEW u \in Users
      PROVE  /\ u \in U => r[u].queue = us[u].queue \cup {e} /\ r[u].files = us[u].files + 1
             /\ u \notin U => r[u] = us[u]
  BY DEF AddQI
<1>3. ASSUME NEW u \in Users PROVE r[u].files = Cardinality(r[u].queue)
  <2>1. us[u].files = Cardinality(us[u].queue) BY DEF CountsUsers
  <2>2. CASE u \in U
    <3>1. e \notin us[u].queue BY <2>2 DEF In
    <3>2. IsFiniteSet(us[u].queue) BY UserIs
    <3>3. Cardinality(us[u].queue \cup {e}) = Cardinality(us[u].queue) + 1
      BY <3>1, <3>2, FS_AddElement
    <3> QED BY <1>2, <2>1, <2>2, <3>3
  <2>3. CASE u \notin U BY <1>2, <2>1, <2>3
  <2> QED BY <2>2, <2>3
<1>4. ASSUME NEW u \in Users, NEW p \in Prios, NEW j \in Items
      PROVE  In(r, u, p, j) <=> In(us, u, p, j) \/ (u \in U /\ j = i /\ p = it[i].prio)
  BY <1>2 DEF In
<1> QED BY <1>1, <1>3, <1>4 DEF CountsUsers

\* or several leave the lists of their sources.
LEMMA RemoveQIsAre ==
  ASSUME NEW us \in [Users -> UserRecords], NEW it \in [Items -> ItemRecords],
         NEW S \in SUBSET Items, CountsUsers(us),
         \A i \in S, u \in Users : u \in it[i].sources => In(us, u, it[i].prio, i),
         NEW r, r = RemoveQIs(us, it, S)
  PROVE  /\ CountsUsers(r)
         /\ \A u \in Users, p \in Prios, j \in Items :
              In(r, u, p, j) <=>
                In(us, u, p, j) /\ ~(j \in S /\ u \in it[j].sources /\ p = it[j].prio)
<1>1. PICK g : /\ RemoveQIs(us, it, S) = g[S]
               /\ \A s \in SUBSET S :
                     g[s] = IF s = {} THEN us
                            ELSE RemoveQI(g[s \ {First(s)}], it, First(s), it[First(s)].sources)
  BY RemoveQIsFold
<1> DEFINE Left(s, q) ==
             \A u \in Users, p \in Prios, j \in Items :
               In(q, u, p, j) <=>
                 In(us, u, p, j) /\ ~(j \in s /\ u \in it[j].sources /\ p = it[j].prio)
           Z == {s \in SUBSET S : /\ g[s] \in [Users -> UserRecords] /\ CountsUsers(g[s])
                                  /\ Left(s, g[s])}
<1>2. {} \in Z
  <2>1. g[{}] = us BY <1>1
  <2>2. Left({}, us) OBVIOUS
  <2> HIDE DEF Left
  <2> QED BY <2>1, <2>2
<1>3. ASSUME NEW s \in SUBSET S, s # {}, s \ {First(s)} \in Z PROVE s \in Z
  <2>1. PICK i, t, q, n : i = First(s) /\ t = s \ {i} /\ q = g[t] /\ n = g[s] OBVIOUS
  <2>2. i \in s /\ i \in Items /\ i \in S BY <1>3, <2>1 DEF First
  <2>3. q \in [Users -> UserRecords] /\ CountsUsers(q) /\ Left(t, q) BY <1>3, <2>1
  <2>4. n = RemoveQI(q, it, i, it[i].sources) BY <1>1, <1>3, <2>1
  <2>5. it[i].sources \subseteq Users /\ it[i].prio \in Prios BY <2>2, ItemFields
  <2>6. \A u \in it[i].sources : u \in Users /\ In(q, u, it[i].prio, i)
    BY <2>1, <2>2, <2>3, <2>5
  <2>7. /\ n \in [Users -> UserRecords] /\ CountsUsers(n)
        /\ \A u \in Users, p \in Prios, j \in Items :
             In(n, u, p, j) <=>
               In(q, u, p, j) /\ ~(u \in it[i].sources /\ j = i /\ p = it[i].prio)
    BY <2>2, <2>3, <2>4, <2>6, RemoveQIIs
  <2>8. Left(s, n)
    <3> SUFFICES ASSUME NEW u \in Users, NEW p \in Prios, NEW j \in Items
                 PROVE  In(n, u, p, j) <=>
                   In(us, u, p, j) /\ ~(j \in s /\ u \in it[j].sources /\ p = it[j].prio)
      OBVIOUS
    <3>1. j \in s <=> j \in t \/ j = i BY <2>1, <2>2
    <3> QED BY <2>3, <2>7, <3>1
  <2> HIDE DEF Left
  <2> QED BY <2>1, <2>7, <2>8
<1>4. S \in Z
  <2> HIDE DEF Z
  <2> QED BY <1>2, <1>3, ItemsFinite, FirstInduction
<1> HIDE DEF Left
<1>5. CountsUsers(g[S]) /\ Left(S, g[S]) BY <1>4
<1> QED BY <1>1, <1>5 DEF Left

\* Is the item asked for, from the user?
Wanted(j, u) == j \in Current /\ item[j].status = "QUEUED" /\ u \in item[j].sources

\* A user's lists hold the queued files he is a source of, by their priority.
Waits ==
  /\ CountsUsers(users)
  /\ \A u \in Users, p \in Prios, j \in Items :
       In(users, u, p, j) <=> Wanted(j, u) /\ p = item[j].prio
Sourcing == {"item", "prio"} \cap overtaken = {} => Waits

\* What a step leaves of the marks.
LEMMA Marks ==
  ASSUME overtaken \subseteq overtaken', Types, Steady, Sourcing,
         {"item", "prio"} \cap overtaken' = {}
  PROVE  /\ {"item", "prio"} \cap overtaken = {} /\ "item" \notin overtaken'
         /\ Calm /\ Waits
         /\ users \in [Users -> UserRecords] /\ item \in [Items -> ItemRecords]
         /\ CountsUsers(users)
         /\ \A u \in Users, p \in Prios, j \in Items :
              In(users, u, p, j) <=> Wanted(j, u) /\ p = item[j].prio
         /\ \A j \in Items : item[j].prio \in Prios /\ item[j].sources \subseteq Users
<1>1. {"item", "prio"} \cap overtaken = {} OBVIOUS
<1>2. Calm /\ Waits BY <1>1 DEF Steady, Sourcing
<1>3. users \in [Users -> UserRecords] /\ item \in [Items -> ItemRecords]
  BY DEF Types, ListTypes
<1>4. \A j \in Items : item[j].prio \in Prios /\ item[j].sources \subseteq Users
  BY <1>3, ItemFields
<1> QED BY <1>1, <1>2, <1>3, <1>4 DEF Waits

\* The lists stay, and the files keep what the lists say of them.
LEMMA KeptSourcing ==
  ASSUME Types, Steady, Sourcing, overtaken \subseteq overtaken',
         UNCHANGED <<users, fileQueue>>,
         Calm => \A j \in Items :
           /\ item'[j].sources = item[j].sources /\ item'[j].prio = item[j].prio
           /\ item'[j].status = "QUEUED" <=> item[j].status = "QUEUED"
  PROVE  Sourcing'
<1> SUFFICES ASSUME {"item", "prio"} \cap overtaken' = {} PROVE Waits' BY DEF Sourcing
<1>1. Calm /\ Waits BY Marks
<1>2. UNCHANGED Current BY DEF Current
<1>3. \A j \in Items, u \in Users : Wanted(j, u)' <=> Wanted(j, u) BY <1>1, <1>2 DEF Wanted
<1>4. UNCHANGED CountsUsers(users) BY DEF CountsUsers
<1>5. \A u \in Users, p \in Prios, j \in Items : UNCHANGED In(users, u, p, j) BY DEF In
<1> QED BY <1>1, <1>3, <1>4, <1>5 DEF Waits

\* A file that is done leaves the lists of its sources.
LEMMA CompletedSourcing ==
  ASSUME Types, Steady, Sourcing, NEW f \in Files, onFileDownloadCompleted(f)
  PROVE  Sourcing'
<1>0. UNCHANGED <<fileQueue, overtaken>> BY DEF onFileDownloadCompleted
<1> SUFFICES ASSUME {"item", "prio"} \cap overtaken' = {} PROVE Waits' BY DEF Sourcing
<1>1. /\ Calm /\ users \in [Users -> UserRecords] /\ item \in [Items -> ItemRecords]
      /\ CountsUsers(users)
      /\ \A u \in Users, p \in Prios, j \in Items :
           In(users, u, p, j) <=> Wanted(j, u) /\ p = item[j].prio
      /\ \A j \in Items : item[j].prio \in Prios /\ item[j].sources \subseteq Users
  BY <1>0, Marks
<1>2. PICK i : i = dl[f].item OBVIOUS
<1>3. /\ dl[f].pc = "found" /\ i \in Items
      /\ \A j \in Items \ {i} : item'[j] = item[j]
      /\ item'[i].sources = item[i].sources /\ item'[i].prio = item[i].prio
      /\ \/ /\ item'[i].status = "DOWNLOADED"
            /\ users' = RemoveQI(users, item, i, item[i].sources)
         \/ item'[i].status = item[i].status /\ UNCHANGED users
  BY <1>2, CompletedIs
<1>4. i \in Current /\ item[i].status = "QUEUED"
  BY <1>1, <1>2, <1>3 DEF Calm, Returns, ReturnAt
<1>5. UNCHANGED Current BY <1>0 DEF Current
<1>6. CASE item'[i].status = item[i].status /\ UNCHANGED users
  <2>1. \A j \in Items, u \in Users : Wanted(j, u)' <=> Wanted(j, u)
    BY <1>3, <1>5, <1>6 DEF Wanted
  <2>2. \A j \in Items : item'[j].prio = item[j].prio BY <1>3
  <2>3. CountsUsers(users') BY <1>1, <1>6
  <2>4. \A u \in Users, p \in Prios, j \in Items : In(users', u, p, j) <=> In(users, u, p, j)
    BY <1>6
  <2> QED BY <1>1, <2>1, <2>2, <2>3, <2>4 DEF Waits
<1>7. CASE /\ item'[i].status = "DOWNLOADED"
           /\ users' = RemoveQI(users, item, i, item[i].sources)
  <2>1. \A u \in item[i].sources : u \in Users /\ In(users, u, item[i].prio, i)
    BY <1>1, <1>3, <1>4 DEF Wanted
  <2>2. /\ CountsUsers(users')
        /\ \A u \in Users, p \in Prios, j \in Items :
             In(users', u, p, j) <=>
               In(users, u, p, j) /\ ~(u \in item[i].sources /\ j = i /\ p = item[i].prio)
    BY <1>1, <1>3, <1>7, <2>1, RemoveQIIs
  <2>3. \A j \in Items, u \in Users : Wanted(j, u)' <=> Wanted(j, u) /\ j # i
    BY <1>3, <1>5, <1>7 DEF Wanted
  <2>4. \A j \in Items : item'[j].prio = item[j].prio BY <1>3
  <2>5. \A j \in Items, u \in Users : Wanted(j, u) /\ j = i => u \in item[i].sources
    BY DEF Wanted
  <2> QED BY <1>1, <2>2, <2>3, <2>4, <2>5 DEF Waits
<1> QED BY <1>3, <1>6, <1>7

\* A file gets another priority: it changes the list.
LEMMA PrioSourcing ==
  ASSUME Types, Steady, Sourcing, SetsQIPriority
  PROVE  Sourcing'
<1>0. PICK i : i = setter OBVIOUS
<1>1. /\ UNCHANGED fileQueue /\ overtaken \subseteq overtaken'
      /\ i \notin Current \/ item[i].status # "QUEUED" => "prio" \in overtaken'
  BY <1>0 DEF SetsQIPriority
<1> SUFFICES ASSUME {"item", "prio"} \cap overtaken' = {} PROVE Waits' BY DEF Sourcing
<1>2. /\ users \in [Users -> UserRecords] /\ item \in [Items -> ItemRecords]
      /\ CountsUsers(users)
      /\ \A u \in Users, p \in Prios, j \in Items :
           In(users, u, p, j) <=> Wanted(j, u) /\ p = item[j].prio
      /\ \A j \in Items : item[j].prio \in Prios /\ item[j].sources \subseteq Users
  BY <1>1, Marks
<1>3. /\ i \in Items /\ item' \in [Items -> ItemRecords] /\ item'[i].prio # item[i].prio
      /\ item'[i].status = item[i].status /\ item'[i].sources = item[i].sources
      /\ \A j \in Items \ {i} : item'[j] = item[j]
      /\ users' = AddQI(RemoveQI(users, item, i, item[i].sources), item', i, item[i].sources)
  BY <1>0, PrioSetIs
<1>4. i \in Current /\ item[i].status = "QUEUED" BY <1>1
<1>5. UNCHANGED Current BY <1>1 DEF Current
<1>6. PICK us, U : us = RemoveQI(users, item, i, item[i].sources) /\ U = item[i].sources
  OBVIOUS
<1>7. \A u \in U : u \in Users /\ In(users, u, item[i].prio, i)
  BY <1>2, <1>3, <1>4, <1>6 DEF Wanted
<1>8. /\ us \in [Users -> UserRecords] /\ CountsUsers(us)
      /\ \A u \in Users, p \in Prios, j \in Items :
           In(us, u, p, j) <=> In(users, u, p, j) /\ ~(u \in U /\ j = i /\ p = item[i].prio)
  <2>1. us = RemoveQI(users, item, i, U) BY <1>6
  <2> QED BY <1>2, <1>3, <1>7, <2>1, RemoveQIIs
<1>9. item'[i].prio \in Prios BY <1>3, ItemFields
<1>10. \A u \in U : u \in Users /\ ~In(us, u, item'[i].prio, i)
  BY <1>2, <1>3, <1>7, <1>8, <1>9
<1>11. /\ CountsUsers(users')
       /\ \A u \in Users, p \in Prios, j \in Items :
            In(users', u, p, j) <=> In(us, u, p, j) \/ (u \in U /\ j = i /\ p = item'[i].prio)
  <2>1. users' = AddQI(us, item', i, U) BY <1>3, <1>6
  <2> QED BY <1>3, <1>8, <1>10, <2>1, AddQIIs
<1>12. \A j \in Items, u \in Users : Wanted(j, u)' <=> Wanted(j, u)
  BY <1>3, <1>5 DEF Wanted
<1>13. \A u \in Users : Wanted(i, u) <=> u \in U BY <1>4, <1>6 DEF Wanted
<1>14. \A j \in Items \ {i} : item'[j].prio = item[j].prio BY <1>3
<1>15. ASSUME NEW u \in Users, NEW p \in Prios, NEW j \in Items
       PROVE  In(users', u, p, j) <=> Wanted(j, u)' /\ p = item'[j].prio
  <2>1. CASE j # i BY <1>2, <1>8, <1>11, <1>12, <1>14, <2>1
  <2>2. CASE j = i
    <3>1. In(us, u, p, i) <=> u \in U /\ p = item[i].prio /\ ~(u \in U /\ p = item[i].prio)
      BY <1>2, <1>3, <1>8, <1>13
    <3>2. ~In(us, u, p, i) BY <3>1
    <3>3. In(users', u, p, i) <=> u \in U /\ p = item'[i].prio BY <1>3, <1>11, <3>2
    <3> QED BY <1>3, <1>12, <1>13, <2>2, <3>3
  <2> QED BY <2>1, <2>2
<1> QED BY <1>11, <1>15 DEF Waits

\* A source more or less.
LEMMA SourceSourcing ==
  ASSUME Types, Steady, Sourcing, NEW i \in Items, NEW v \in Users,
         removeFileSource(i, v) \/ addValidatedSource(i, v)
  PROVE  Sourcing'
<1>1. UNCHANGED <<fileQueue, overtaken>> BY DEF removeFileSource, addValidatedSource
<1> SUFFICES ASSUME {"item", "prio"} \cap overtaken' = {} PROVE Waits' BY DEF Sourcing
<1>2. /\ users \in [Users -> UserRecords] /\ item \in [Items -> ItemRecords]
      /\ CountsUsers(users)
      /\ \A u \in Users, p \in Prios, j \in Items :
           In(users, u, p, j) <=> Wanted(j, u) /\ p = item[j].prio
      /\ \A j \in Items : item[j].prio \in Prios /\ item[j].sources \subseteq Users
  BY <1>1, Marks
<1>3. /\ item' \in [Items -> ItemRecords]
      /\ item'[i].status = item[i].status /\ item'[i].prio = item[i].prio
      /\ item'[i].sources = IF removeFileSource(i, v) THEN item[i].sources \ {v}
                            ELSE item[i].sources \cup {v}
      /\ \A j \in Items \ {i} : item'[j] = item[j]
      /\ users' = IF removeFileSource(i, v) THEN RemoveQI(users, item, i, {v})
                  ELSE AddQI(users, item, i, {v})
  BY SourceIs
<1>4. i \in Current /\ item[i].status = "QUEUED" BY DEF removeFileSource, addValidatedSource
<1>5. UNCHANGED Current BY <1>1 DEF Current
<1>6. PICK U : U = {v} OBVIOUS
<1>7. \A j \in Items : item'[j].prio = item[j].prio BY <1>3
<1>8. CASE removeFileSource(i, v)
  <2>1. v \in item[i].sources BY <1>8 DEF removeFileSource
  <2>2. \A u \in U : u \in Users /\ In(users, u, item[i].prio, i)
    BY <1>2, <1>4, <1>6, <2>1 DEF Wanted
  <2>3. users' = RemoveQI(users, item, i, U) BY <1>3, <1>6, <1>8
  <2>4. /\ CountsUsers(users')
        /\ \A u \in Users, p \in Prios, j \in Items :
             In(users', u, p, j) <=>
               In(users, u, p, j) /\ ~(u \in U /\ j = i /\ p = item[i].prio)
    BY <1>2, <2>2, <2>3, RemoveQIIs
  <2>5. item'[i].sources = item[i].sources \ {v} BY <1>3, <1>8
  <2>6. \A j \in Items, u \in Users : Wanted(j, u)' <=> Wanted(j, u) /\ ~(u \in U /\ j = i)
    BY <1>3, <1>5, <1>6, <2>5 DEF Wanted
  <2> QED BY <1>2, <1>7, <2>4, <2>6 DEF Waits
<1>9. CASE ~removeFileSource(i, v)
  <2>1. v \notin item[i].sources BY <1>9 DEF addValidatedSource
  <2>2. \A u \in U : u \in Users /\ ~In(users, u, item[i].prio, i)
    BY <1>2, <1>6, <2>1 DEF Wanted
  <2>3. users' = AddQI(users, item, i, U) BY <1>3, <1>6, <1>9
  <2>4. /\ CountsUsers(users')
        /\ \A u \in Users, p \in Prios, j \in Items :
             In(users', u, p, j) <=>
               In(users, u, p, j) \/ (u \in U /\ j = i /\ p = item[i].prio)
    BY <1>2, <2>2, <2>3, AddQIIs
  <2>5. item'[i].sources = item[i].sources \cup {v} BY <1>3, <1>9
  <2>6. \A j \in Items, u \in Users : Wanted(j, u)' <=> Wanted(j, u) \/ (u \in U /\ j = i)
    BY <1>3, <1>4, <1>5, <1>6, <2>5 DEF Wanted
  <2> QED BY <1>2, <1>7, <2>4, <2>6 DEF Waits
<1> QED BY <1>8, <1>9

\* What is removed is queued if it is not downloaded.
LEMMA RemovedQueued ==
  ASSUME Types, Calm, NEW i \in Items, i \in Current, \A f \in Files : dl[f].item # i,
         ~isDownloaded(item[i].status)
  PROVE  item[i].status = "QUEUED"
<1>1. i \in Both BY DEF Calm, Listed
<1>2. i \notin bundle.finishedFiles BY DEF Types, Placed
<1>3. i \in bundle.queueItems /\ i[1] \in Files BY <1>1, <1>2, ItemIs DEF Both
<1> QED BY <1>3 DEF Calm, Returns, QueuedAt

\* A file that is removed leaves them as well.
LEMMA RemoveSourcing ==
  ASSUME Types, Steady, Sourcing, NEW i \in Items, removeQI(i)
  PROVE  Sourcing'
<1>0. UNCHANGED item /\ overtaken' = overtaken \cup Overtakes({i}) BY DEF removeQI
<1> SUFFICES ASSUME {"item", "prio"} \cap overtaken' = {} PROVE Waits' BY DEF Sourcing
<1>1. /\ Calm /\ users \in [Users -> UserRecords] /\ item \in [Items -> ItemRecords]
      /\ CountsUsers(users)
      /\ \A u \in Users, p \in Prios, j \in Items :
           In(users, u, p, j) <=> Wanted(j, u) /\ p = item[j].prio
      /\ \A j \in Items : item[j].prio \in Prios /\ item[j].sources \subseteq Users
  BY <1>0, Marks
<1>2. "item" \notin Overtakes({i}) BY <1>0
<1>3. \A f \in Files : dl[f].item # i BY <1>2, OvertakesNone
<1>4. PICK U : U = IF isDownloaded(item[i].status) THEN {} ELSE item[i].sources OBVIOUS
<1>5. i \in Current /\ users' = RemoveQI(users, item, i, U) BY <1>4, RemoveIs
<1>6. Current' = Current \ {i} BY RemoveCurrent
<1>7. ~isDownloaded(item[i].status) => item[i].status = "QUEUED"
  BY <1>1, <1>3, <1>5, RemovedQueued
<1>8. \A u \in U : u \in Users /\ In(users, u, item[i].prio, i)
  BY <1>1, <1>4, <1>5, <1>7 DEF Wanted
<1>9. /\ CountsUsers(users')
      /\ \A u \in Users, p \in Prios, j \in Items :
           In(users', u, p, j) <=> In(users, u, p, j) /\ ~(u \in U /\ j = i /\ p = item[i].prio)
  BY <1>1, <1>5, <1>8, RemoveQIIs
<1>10. \A j \in Items, u \in Users : Wanted(j, u)' <=> Wanted(j, u) /\ j # i
  BY <1>0, <1>6 DEF Wanted
<1>11. \A u \in Users : Wanted(i, u) => u \in U BY <1>4 DEF Wanted, isDownloaded
<1>12. \A j \in Items : item'[j].prio = item[j].prio BY <1>0
<1> QED BY <1>1, <1>9, <1>10, <1>11, <1>12 DEF Waits

\* With the bundle, all of them leave.
LEMMA BundleGoneSourcing ==
  ASSUME Types, Steady, Sourcing, removeBundle
  PROVE  Sourcing'
<1>0. UNCHANGED item /\ overtaken' = overtaken \cup Overtakes(Both) BY DEF removeBundle, Both
<1> SUFFICES ASSUME {"item", "prio"} \cap overtaken' = {} PROVE Waits' BY DEF Sourcing
<1>1. /\ Calm /\ users \in [Users -> UserRecords] /\ item \in [Items -> ItemRecords]
      /\ CountsUsers(users)
      /\ \A u \in Users, p \in Prios, j \in Items :
           In(users, u, p, j) <=> Wanted(j, u) /\ p = item[j].prio
  BY <1>0, Marks
<1>2. "item" \notin Overtakes(Both) BY <1>0
<1>3. (\A f \in Files : dl[f].item \notin Both) /\ remover.item \notin Both
  BY <1>2, OvertakesNone
<1>4. \A i \in bundle.queueItems : item[i].status = "QUEUED" BY <1>1, <1>3, AllQueued
<1>5. PICK Q : Q = {i \in bundle.queueItems : ~isDownloaded(item[i].status)} OBVIOUS
<1>6. users' = RemoveQIs(users, item, Q) BY <1>5, BundleGoneIs
<1>7. Q = bundle.queueItems BY <1>4, <1>5 DEF isDownloaded
<1>8. Q \in SUBSET Items BY <1>7, BundleFields DEF Types, ListTypes
<1>9. \A i \in Q : i \in Current BY <1>1, <1>3, <1>7 DEF Calm, Listed, Both
<1>10. \A i \in Q, u \in Users : u \in item[i].sources => In(users, u, item[i].prio, i)
  <2>1. \A i \in Q : i \in Items /\ item[i].prio \in Prios BY <1>1, <1>8, ItemFields
  <2>2. \A i \in Q, u \in Users : u \in item[i].sources => Wanted(i, u)
    BY <1>4, <1>7, <1>9 DEF Wanted
  <2> QED BY <1>1, <2>1, <2>2
<1>11. /\ CountsUsers(users')
       /\ \A u \in Users, p \in Prios, j \in Items :
            In(users', u, p, j) <=>
              In(users, u, p, j) /\ ~(j \in Q /\ u \in item[j].sources /\ p = item[j].prio)
  BY <1>1, <1>6, <1>8, <1>10, RemoveQIsAre
<1>12. \A j \in Items, u \in Users : Wanted(j, u) => j \in Q /\ u \in item[j].sources
  <2> SUFFICES ASSUME NEW j \in Items, NEW u \in Users, Wanted(j, u) PROVE j \in Q
    BY DEF Wanted
  <2>1. j \in Both /\ item[j].status = "QUEUED" BY <1>1 DEF Wanted, Calm, Listed
  <2>2. j \notin bundle.finishedFiles BY <2>1 DEF Types, Placed, isDownloaded
  <2> QED BY <1>7, <2>1, <2>2 DEF Both
<1>13. Current' = {} BY <1>1, BundleGoneCurrent
<1>14. \A j \in Items, u \in Users : ~Wanted(j, u)' BY <1>13 DEF Wanted
<1> QED BY <1>1, <1>11, <1>12, <1>14 DEF Waits

\* A file that is added joins the list of its source.
LEMMA AddFileSourcing ==
  ASSUME Types, Steady, Sourcing, NEW f \in Files, NEW v \in Users, addBundleFile(f, v)
  PROVE  Sourcing'
<1>0. made[f] < Gens BY DEF addBundleFile
<1>01. PICK i, old, R, U : i = NewItem(f) /\ old = OldItem(f) /\ R = GoneWith(f) /\ U = {v}
  OBVIOUS
<1>2. /\ R \subseteq bundle.finishedFiles \ {old}
      /\ fileQueue[f] # 0 => item[old].status = "COMPLETED"
      /\ fileQueue[f] = 0 => old \notin Items
      /\ item' \in [Items -> ItemRecords]
      /\ item'[i].status = "QUEUED" /\ item'[i].sources = U
      /\ \A j \in Items \ {i} : item'[j] = item[j]
      /\ users' = AddQI(users, item', i, U)
      /\ overtaken \subseteq overtaken'
  BY <1>01, AddFileIs
<1> SUFFICES ASSUME {"item", "prio"} \cap overtaken' = {} PROVE Waits' BY DEF Sourcing
<1>1. /\ users \in [Users -> UserRecords] /\ CountsUsers(users)
      /\ \A u \in Users, p \in Prios, j \in Items :
           In(users, u, p, j) <=> Wanted(j, u) /\ p = item[j].prio
  BY <1>2, Marks
<1>3. i \in Items /\ i \notin Current BY <1>0, <1>01, FreshIs
<1>4. \A u \in Users : ~Wanted(i, u) BY <1>3 DEF Wanted
<1>5. item'[i].prio \in Prios BY <1>2, <1>3, ItemFields
<1>6. \A u \in U : u \in Users /\ ~In(users, u, item'[i].prio, i) BY <1>01, <1>1, <1>3, <1>4, <1>5
<1>7. /\ CountsUsers(users')
      /\ \A u \in Users, p \in Prios, j \in Items :
           In(users', u, p, j) <=> In(users, u, p, j) \/ (u \in U /\ j = i /\ p = item'[i].prio)
  BY <1>1, <1>2, <1>3, <1>6, AddQIIs
<1>8. \A j \in Items : j \in Current' <=> j = i \/ (j \in Current /\ j # old /\ j \notin R)
  BY <1>01, AddFileCurrent
<1>9. \A j \in Items \ {i} :
        item[j].status = "QUEUED" => j # old /\ j \notin R
  BY <1>2 DEF Types, Placed, isDownloaded
<1>10. \A j \in Items \ {i}, u \in Users : Wanted(j, u)' <=> Wanted(j, u)
  BY <1>2, <1>8, <1>9 DEF Wanted
<1>11. \A u \in Users : Wanted(i, u)' <=> u \in U BY <1>2, <1>3, <1>8 DEF Wanted
<1>12. \A j \in Items \ {i} : item'[j].prio = item[j].prio BY <1>2
<1> QED BY <1>1, <1>4, <1>7, <1>10, <1>11, <1>12 DEF Waits

\* A damaged file joins the lists of its sources again.
LEMMA RecheckSourcing ==
  ASSUME Types, Steady, Sourcing, NEW i \in Items, handleFailedRecheckItems(i)
  PROVE  Sourcing'
<1>01. PICK R, U : R = GoneOnRecheck(i) /\ U = item[i].sources OBVIOUS
<1>2. /\ i \in Current /\ i \in bundle.finishedFiles
      /\ R \subseteq bundle.finishedFiles \ {i}
      /\ item' \in [Items -> ItemRecords]
      /\ item'[i].status = "QUEUED" /\ item'[i].sources = U /\ item'[i].prio = item[i].prio
      /\ \A j \in Items \ {i} : item'[j] = item[j]
      /\ users' = AddQI(users, item', i, U)
      /\ overtaken \subseteq overtaken'
  BY <1>01, RecheckIs
<1> SUFFICES ASSUME {"item", "prio"} \cap overtaken' = {} PROVE Waits' BY DEF Sourcing
<1>1. /\ users \in [Users -> UserRecords] /\ CountsUsers(users)
      /\ \A u \in Users, p \in Prios, j \in Items :
           In(users, u, p, j) <=> Wanted(j, u) /\ p = item[j].prio
      /\ \A j \in Items : item[j].prio \in Prios /\ item[j].sources \subseteq Users
  BY <1>2, Marks
<1>3. \A j \in bundle.finishedFiles : item[j].status # "QUEUED"
  BY DEF Types, Placed, isDownloaded
<1>4. \A u \in Users : ~Wanted(i, u) BY <1>2, <1>3 DEF Wanted
<1>6. \A u \in U : u \in Users /\ ~In(users, u, item'[i].prio, i) BY <1>01, <1>1, <1>2, <1>4
<1>7. /\ CountsUsers(users')
      /\ \A u \in Users, p \in Prios, j \in Items :
           In(users', u, p, j) <=> In(users, u, p, j) \/ (u \in U /\ j = i /\ p = item'[i].prio)
  BY <1>1, <1>2, <1>6, AddQIIs
<1>8. \A j \in Items : j \in Current' <=> j \in Current /\ j \notin R BY <1>01, RecheckCurrent
<1>10. \A j \in Items \ {i}, u \in Users : Wanted(j, u)' <=> Wanted(j, u)
  BY <1>2, <1>3, <1>8 DEF Wanted
<1>11. \A u \in Users : Wanted(i, u)' <=> u \in U BY <1>2, <1>8 DEF Wanted
<1>12. \A j \in Items \ {i} : item'[j].prio = item[j].prio BY <1>2
<1> QED BY <1>1, <1>4, <1>7, <1>10, <1>11, <1>12 DEF Waits

\* and after every step.
LEMMA SourcingStep == Types /\ Steady /\ Sourcing /\ [Next]_vars => Sourcing'
<1> SUFFICES ASSUME Types, Steady, Sourcing, [Next]_vars PROVE Sourcing' OBVIOUS
<1>1. CASE Quiet BY <1>1, KeptSourcing DEF Quiet
<1>2. CASE Hooked
  <2>1. /\ UNCHANGED <<fileQueue, users, overtaken>>
        /\ Calm => \A j \in Items :
             /\ item'[j].sources = item[j].sources /\ item'[j].prio = item[j].prio
             /\ item'[j].status = "QUEUED" <=> item[j].status = "QUEUED"
    BY <1>2, HookedIs
  <2> QED BY <2>1, KeptSourcing
<1>3. CASE SetsQIPriority BY <1>3, PrioSourcing
<1>4. CASE \E i \in Items, u \in Users : Sources(i, u) BY <1>4, SourceSourcing DEF Sources
<1>5. CASE Moving
  <2>1. ASSUME NEW f \in Files, MovesItem(f) PROVE Sourcing'
    <3>1. UNCHANGED <<fileQueue, users, item>> /\ overtaken \subseteq overtaken'
      BY <2>1 DEF MovesItem
    <3> QED BY <3>1, KeptSourcing
  <2>2. ASSUME RemovesItem PROVE Sourcing'
    <3>1. UNCHANGED <<fileQueue, users, item>> /\ overtaken \subseteq overtaken'
      BY <2>2 DEF RemovesItem
    <3> QED BY <3>1, KeptSourcing
  <2> QED BY <1>5, <2>1, <2>2, CompletedSourcing, RecheckSourcing, AddFileSourcing,
             RemoveSourcing, BundleGoneSourcing DEF Moving
<1> QED BY <1>1, <1>2, <1>3, <1>4, <1>5, StepKinds

\* The lists are right at first,
LEMMA SourcingInit == Init => Sourcing
<1> SUFFICES ASSUME Init PROVE Waits BY DEF Sourcing
<1>1. PICK n : n = Cardinality(Initial) OBVIOUS
<1>2. /\ \A i \in Items :
           /\ item[i].status = IF i \in FirstItems THEN "QUEUED" ELSE "NEW"
           /\ item[i].prio = "normal"
           /\ item[i].sources = IF i \in FirstItems THEN FirstUsers ELSE {}
      /\ \A u \in Users :
           /\ users[u].queue = IF u \in FirstUsers THEN {<<"normal", i>> : i \in FirstItems}
                               ELSE {}
           /\ users[u].files = IF u \in FirstUsers THEN n ELSE 0
      /\ Current = FirstItems
  BY <1>1, InitIs
<1>3. FirstItems \subseteq Items /\ Cardinality(FirstItems) = n /\ IsFiniteSet(FirstItems)
  BY <1>1, FirstItemsAre, ItemsFinite
<1>4. Cardinality({<<"normal", i>> : i \in FirstItems}) = n
  <2>1. {<<"normal", i>> : i \in FirstItems} = {"normal"} \X FirstItems OBVIOUS
  <2>2. IsFiniteSet({"normal"}) /\ Cardinality({"normal"}) = 1 BY FS_Singleton
  <2>3. Cardinality({"normal"} \X FirstItems) = Cardinality({"normal"}) * Cardinality(FirstItems)
    BY <1>3, <2>2, FS_Product
  <2>4. n \in Nat BY <1>1, FirstItemsAre
  <2> QED BY <1>3, <2>1, <2>2, <2>3, <2>4
<1>5. CountsUsers(users) BY <1>2, <1>4, FS_EmptySet DEF CountsUsers
<1>6. ASSUME NEW u \in Users, NEW p \in Prios, NEW j \in Items
      PROVE  In(users, u, p, j) <=> Wanted(j, u) /\ p = item[j].prio
  <2>1. Wanted(j, u) <=> j \in FirstItems /\ u \in FirstUsers BY <1>2 DEF Wanted
  <2>2. item[j].prio = "normal" BY <1>2
  <2>3. CASE u \in FirstUsers
    <3>1. users[u].queue = {<<"normal", i>> : i \in FirstItems} BY <1>2, <2>3
    <3>2. <<p, j>> \in users[u].queue <=> p = "normal" /\ j \in FirstItems BY <3>1
    <3> QED BY <2>1, <2>2, <2>3, <3>2 DEF In
  <2>4. CASE u \notin FirstUsers
    <3>1. users[u].queue = {} BY <1>2, <2>4
    <3> QED BY <2>1, <2>4, <3>1 DEF In
  <2> QED BY <2>3, <2>4
<1> QED BY <1>5, <1>6 DEF Waits

\* They are the sets that are promised.
LEMMA SourcingSourced == Types /\ Sourcing => Sourced
<1> SUFFICES ASSUME Types, Sourcing, {"item", "prio"} \cap overtaken = {}, NEW u \in Users
             PROVE  /\ users[u].queue = {<<item[i].prio, i>> :
                        i \in {j \in Current : item[j].status = "QUEUED" /\ u \in item[j].sources}}
                    /\ users[u].files = Cardinality(users[u].queue)
  BY DEF Sourced
<1>1. Waits BY DEF Sourcing
<1>2. users \in [Users -> UserRecords] /\ item \in [Items -> ItemRecords]
      /\ fileQueue \in [Files -> 0..Gens]
  BY DEF Types, ListTypes
<1>3. users[u].queue \subseteq Prios \X Items BY <1>2, UserIs
<1>4. Current \subseteq Items BY <1>2, CurrentIs
<1>5. PICK W : W = {<<item[i].prio, i>> : i \in {j \in Items : Wanted(j, u)}} OBVIOUS
<1>6. ASSUME NEW p \in Prios, NEW j \in Items
      PROVE  <<p, j>> \in users[u].queue <=> Wanted(j, u) /\ p = item[j].prio
  BY <1>1 DEF Waits, In
<1>7. users[u].queue \subseteq W
  <2> SUFFICES ASSUME NEW e \in users[u].queue PROVE e \in W OBVIOUS
  <2>1. e[1] \in Prios /\ e[2] \in Items /\ e = <<e[1], e[2]>> BY <1>3
  <2>2. Wanted(e[2], u) /\ e[1] = item[e[2]].prio BY <1>6, <2>1
  <2> QED BY <1>5, <2>1, <2>2
<1>8. W \subseteq users[u].queue
  <2> SUFFICES ASSUME NEW i \in Items, Wanted(i, u) PROVE <<item[i].prio, i>> \in users[u].queue
    BY <1>5
  <2>1. item[i].prio \in Prios BY <1>2, ItemFields
  <2> QED BY <1>6, <2>1
<1>9. W = {<<item[i].prio, i>> :
             i \in {j \in Current : item[j].status = "QUEUED" /\ u \in item[j].sources}}
  BY <1>4, <1>5 DEF Wanted
<1> QED BY <1>1, <1>7, <1>8, <1>9 DEF Waits, CountsUsers

\* A user's lists hold exactly the queued files he is a source of.
THEOREM SourcedHolds == Spec => []Sourced
BY TypesInit, TypesStep, SteadyInit, SteadyStep, SourcingInit, SourcingStep, SourcingSourced,
   PTL DEF Spec
=============================================================================
