------------------------- MODULE HashManagerProofs --------------------------
(***************************************************************************)
(* Proofs about HashManager for every number of files, volumes, hashers    *)
(* and calling threads.                                                    *)
(*                                                                         *)
(* What a hasher's fields have to do with each other (Consistent) is       *)
(* stated per object and proved per operation; what the hashers have to do *)
(* with the list and with each other (QueuedOnce, ListedRun) follows from  *)
(* what each step does to the list, the numbers and the queues.            *)
(***************************************************************************)
EXTENDS HashManager, FiniteSetTheorems, TLAPS

-----------------------------------------------------------------------------
(* What Filter leaves of a list of any length *)

\* The positions that remain are finitely many.
LEMMA PositionsFinite ==
  ASSUME NEW S, NEW s \in Seq(S), NEW K
  PROVE  /\ Remaining(s, K) \in SUBSET (1..Len(s))
         /\ IsFiniteSet(Remaining(s, K)) /\ Cardinality(Remaining(s, K)) \in Nat
         /\ Cardinality(Remaining(s, K)) <= Len(s)
<1>1. Remaining(s, K) \in SUBSET (1..Len(s)) BY DEF Remaining
<1>2. IsFiniteSet(1..Len(s)) /\ Cardinality(1..Len(s)) = Len(s)
  <2>1. Len(s) \in Int /\ Len(s) >= 0 /\ 1 \in Int OBVIOUS
  <2>2. /\ IsFiniteSet(1..Len(s))
        /\ Cardinality(1..Len(s)) = IF 1 > Len(s) THEN 0 ELSE Len(s) - 1 + 1
    BY <2>1, FS_Interval
  <2> QED BY <2>1, <2>2
<1> QED BY <1>1, <1>2, FS_Subset, FS_CardinalityType

\* The rank of a position grows from 1 to the number of positions.
LEMMA RankProperties ==
  ASSUME NEW n \in Nat, NEW I \in SUBSET (1..n), IsFiniteSet(I)
  PROVE  /\ \A i \in I : Rank(I, i) \in 1..Cardinality(I)
         /\ \A i, j \in I : Rank(I, i) = Rank(I, j) => i = j
         /\ 1 \in I => Rank(I, 1) = 1
<1> DEFINE Upto(i) == {j \in I : j <= i}
<1>0. \A i \in I : i \in Nat OBVIOUS
<1>1. ASSUME NEW i \in I
      PROVE  /\ Upto(i) \in SUBSET I /\ IsFiniteSet(Upto(i))
             /\ Cardinality(Upto(i)) \in 1..Cardinality(I)
             /\ Rank(I, i) = Cardinality(Upto(i))
  <2>1. Upto(i) \in SUBSET I OBVIOUS
  <2>2. i \in Upto(i) BY <1>0
  <2>3. IsFiniteSet(Upto(i)) /\ Cardinality(Upto(i)) <= Cardinality(I)
    BY <2>1, FS_Subset
  <2>4. Cardinality(Upto(i)) \in Nat /\ Cardinality(I) \in Nat
    BY <2>3, FS_CardinalityType
  <2>5. Cardinality(Upto(i)) # 0 BY <2>2, <2>3, FS_EmptySet
  <2>6. Rank(I, i) = Cardinality(Upto(i)) BY DEF Rank
  <2> HIDE DEF Upto
  <2> QED BY <2>1, <2>3, <2>4, <2>5, <2>6
<1>2. ASSUME NEW i \in I, NEW j \in I, i < j PROVE Rank(I, i) # Rank(I, j)
  <2>0. \A k \in I : k <= i => k <= j BY <1>0, <1>2
  <2>1. Upto(i) \in SUBSET Upto(j) BY <2>0
  <2>2. j \in Upto(j) /\ j \notin Upto(i) BY <1>0, <1>2
  <2>3. Upto(i) # Upto(j) BY <2>2
  <2>4. IsFiniteSet(Upto(j)) BY <1>1
  <2> HIDE DEF Upto
  <2>5. Cardinality(Upto(j)) # Cardinality(Upto(i)) BY <2>1, <2>3, <2>4, FS_Subset
  <2> QED BY <1>1, <2>5
<1>3. \A i, j \in I : Rank(I, i) = Rank(I, j) => i = j
  <2> SUFFICES ASSUME NEW i \in I, NEW j \in I, i # j PROVE Rank(I, i) # Rank(I, j)
    OBVIOUS
  <2>1. i < j \/ j < i BY <1>0
  <2> QED BY <1>2, <2>1
<1>4. 1 \in I => Rank(I, 1) = 1
  <2> SUFFICES ASSUME 1 \in I PROVE Rank(I, 1) = 1 OBVIOUS
  <2>0. \A k \in I : k <= 1 <=> k = 1 BY <1>0
  <2>1. Upto(1) = {1} BY <2>0
  <2> QED BY <1>1, <2>1, FS_Singleton
<1> QED BY <1>1, <1>3, <1>4

\* The k-th entry of the result stands at the k-th of the remaining positions:
\* the result has every entry to keep, each as often as it was there, and the
\* first one stays the first.
LEMMA FilterPositions ==
  ASSUME NEW S, NEW s \in Seq(S), NEW K
  PROVE  \E at \in [1..Cardinality(Remaining(s, K)) -> Remaining(s, K)] :
           /\ Filter(s, K) = [k \in 1..Cardinality(Remaining(s, K)) |-> s[at[k]]]
           /\ \A k, l \in DOMAIN at : at[k] = at[l] => k = l
           /\ \A i \in Remaining(s, K) : \E k \in DOMAIN at : at[k] = i
           /\ 1 \in Remaining(s, K) => 1 \in DOMAIN at /\ at[1] = 1
<1> DEFINE I == Remaining(s, K)
           n == Cardinality(I)
           rank == [i \in I |-> Rank(I, i)]
           at == [k \in 1..n |-> CHOOSE i \in I : Rank(I, i) = k]
<1>0. I \in SUBSET (1..Len(s)) /\ IsFiniteSet(I) /\ n \in Nat /\ Len(s) \in Nat
  BY PositionsFinite
<1>1. Filter(s, K) = [k \in 1..n |-> s[at[k]]] BY DEF Filter
<1> HIDE DEF I
<1>2. /\ \A i \in I : Rank(I, i) \in 1..n
      /\ \A i, j \in I : Rank(I, i) = Rank(I, j) => i = j
      /\ 1 \in I => Rank(I, 1) = 1
  BY <1>0, RankProperties
<1>3. rank \in Injection(I, 1..n)
  <2>1. rank \in [I -> 1..n] BY <1>2
  <2>2. \A i, j \in I : rank[i] = rank[j] => i = j BY <1>2
  <2> HIDE DEF rank, n
  <2> QED BY <2>1, <2>2 DEF Injection, IsInjective
<1>4. IsFiniteSet(1..n) /\ Cardinality(1..n) = n
  <2> HIDE DEF n
  <2> QED BY <1>0, FS_Interval
<1>5. rank \in Surjection(I, 1..n)
  <2>1. Cardinality(I) = Cardinality(1..n) BY <1>4
  <2> HIDE DEF rank, n
  <2> QED BY <1>3, <1>4, <2>1, FS_Injection
<1>6. ASSUME NEW k \in 1..n PROVE \E i \in I : Rank(I, i) = k
  <2>1. \E i \in I : rank[i] = k
    <3> HIDE DEF rank, n
    <3> QED BY <1>5, <1>6 DEF Surjection
  <2> QED BY <2>1
<1>7. ASSUME NEW k \in 1..n PROVE at[k] \in I /\ Rank(I, at[k]) = k
  BY <1>6
<1>8. at \in [1..n -> I] /\ DOMAIN at = 1..n BY <1>7
<1>9. \A k, l \in 1..n : at[k] = at[l] => k = l
  <2> HIDE DEF at
  <2> QED BY <1>7
<1>10. \A i \in I : \E k \in 1..n : at[k] = i
  <2> TAKE i \in I
  <2>1. Rank(I, i) \in 1..n BY <1>2
  <2>2. at[Rank(I, i)] \in I /\ Rank(I, at[Rank(I, i)]) = Rank(I, i) BY <1>7, <2>1
  <2> HIDE DEF at, n
  <2>3. at[Rank(I, i)] = i BY <1>2, <2>2
  <2> QED BY <2>1, <2>3
<1>11. 1 \in I => 1 \in 1..n /\ at[1] = 1
  <2> SUFFICES ASSUME 1 \in I PROVE 1 \in 1..n /\ at[1] = 1 OBVIOUS
  <2>1. 1 \in 1..n /\ Rank(I, 1) = 1 BY <1>2
  <2>2. at[1] \in I /\ Rank(I, at[1]) = 1 BY <1>7, <2>1
  <2> HIDE DEF at, n
  <2> QED BY <1>2, <2>1, <2>2
<1>12. /\ Filter(s, K) = [k \in 1..n |-> s[at[k]]]
       /\ \A k, l \in DOMAIN at : at[k] = at[l] => k = l
       /\ \A i \in I : \E k \in DOMAIN at : at[k] = i
       /\ 1 \in I => 1 \in DOMAIN at /\ at[1] = 1
  <2> HIDE DEF at, n
  <2> QED BY <1>1, <1>8, <1>9, <1>10, <1>11
<1> HIDE DEF at, n
<1>13. \E a \in [1..n -> I] :
         /\ Filter(s, K) = [k \in 1..n |-> s[a[k]]]
         /\ \A k, l \in DOMAIN a : a[k] = a[l] => k = l
         /\ \A i \in I : \E k \in DOMAIN a : a[k] = i
         /\ 1 \in I => 1 \in DOMAIN a /\ a[1] = 1
  BY <1>8, <1>12
<1> QED BY <1>13 DEF I, n

\* The type and the entries of the result.
LEMMA FilterProperties ==
  ASSUME NEW S, NEW s \in Seq(S), NEW K
  PROVE  /\ Filter(s, K) \in Seq(S)
         /\ Len(Filter(s, K)) <= Len(s)
         /\ \A k \in DOMAIN Filter(s, K) : Filter(s, K)[k] \in K
         /\ \A k \in DOMAIN Filter(s, K) : \E i \in DOMAIN s : Filter(s, K)[k] = s[i]
         /\ \A i \in DOMAIN s : s[i] \in K => \E k \in DOMAIN Filter(s, K) : Filter(s, K)[k] = s[i]
         /\ Len(s) > 0 /\ s[1] \in K => Len(Filter(s, K)) > 0 /\ Filter(s, K)[1] = s[1]
         /\ (\A i, j \in DOMAIN s : s[i] = s[j] => i = j) =>
              \A k, l \in DOMAIN Filter(s, K) : Filter(s, K)[k] = Filter(s, K)[l] => k = l
<1> DEFINE I == Remaining(s, K)
           n == Cardinality(I)
           F == Filter(s, K)
<1>0. /\ I \in SUBSET (1..Len(s)) /\ n \in Nat /\ n <= Len(s) /\ Len(s) \in Nat
      /\ DOMAIN s = 1..Len(s) /\ \A i \in 1..Len(s) : s[i] \in S
  BY PositionsFinite
<1>1. \A i : i \in I <=> i \in DOMAIN s /\ s[i] \in K BY DEF Remaining
<1>2. PICK at \in [1..n -> I] :
        /\ F = [k \in 1..n |-> s[at[k]]]
        /\ \A k, l \in DOMAIN at : at[k] = at[l] => k = l
        /\ \A i \in I : \E k \in DOMAIN at : at[k] = i
        /\ 1 \in I => 1 \in DOMAIN at /\ at[1] = 1
  BY FilterPositions
<1> HIDE DEF I, n, F
<1>3. /\ DOMAIN F = 1..n /\ DOMAIN at = 1..n
      /\ \A k \in 1..n : F[k] = s[at[k]] /\ at[k] \in DOMAIN s /\ F[k] \in K /\ F[k] \in S
  BY <1>0, <1>1, <1>2
<1>4. F \in Seq(S) /\ Len(F) = n BY <1>0, <1>2, <1>3
<1>5. \A k \in DOMAIN F : \E i \in DOMAIN s : F[k] = s[i] BY <1>3
<1>6. \A i \in DOMAIN s : s[i] \in K => \E k \in DOMAIN F : F[k] = s[i]
  BY <1>1, <1>2, <1>3
<1>7. Len(s) > 0 /\ s[1] \in K => n > 0 /\ F[1] = s[1]
  <2> SUFFICES ASSUME Len(s) > 0, s[1] \in K PROVE n > 0 /\ F[1] = s[1] OBVIOUS
  <2>1. 1 \in I BY <1>0, <1>1
  <2>2. 1 \in 1..n /\ at[1] = 1 BY <1>2, <1>3, <2>1
  <2> QED BY <1>0, <1>3, <2>2
<1>8. (\A i, j \in DOMAIN s : s[i] = s[j] => i = j) =>
        \A k, l \in DOMAIN F : F[k] = F[l] => k = l
  BY <1>2, <1>3
<1> QED BY <1>0, <1>3, <1>4, <1>5, <1>6, <1>7, <1>8 DEF F

-----------------------------------------------------------------------------
(* One hasher *)

\* The files of a volume that wait in a hasher's queue, and the number that the
\* hasher should count for the volume.
Waiting(h, d) == {f \in h.w : DeviceOf[f] = d}
Load(h, d) ==
  Cardinality(Waiting(h, d)) + (IF h.pc = "hash" /\ DeviceOf[h.cur] = d THEN 1 ELSE 0)

Counts(h, n) ==
  \A d \in Devices : /\ h.devices[d] <= Load(h, d)
                     /\ n = 0 /\ ~h.isShutdown => h.devices[d] = Load(h, d)

\* The places from which a thread goes on to wait.
GoesToWait(h) == h.pc \in {"wait", "reset"} \/ (h.pc = "end" /\ ~h.isShutdown)

\* A hasher after n calls of stop, when shutdown has come to c.
Consistent(h, n, c) ==
  /\ h \in HasherType
  /\ IsFiniteSet(h.w)
  /\ h.cur # NoFile <=> h.pc = "hash"
  /\ Counts(h, n)
  /\ n = 0 => /\ h.stopping => h.isShutdown
              /\ GoesToWait(h) => h.w = {} \/ h.s > 0
  /\ c \in {"no", "tell"} => ~h.isShutdown /\ h.s <= MaxSignals

\* The fields of a hasher.
LEMMA HasherFields ==
  ASSUME NEW h \in HasherType
  PROVE  /\ h.pc \in {"free", "wait", "pause", "suspend", "suspended", "check", "next", "hash",
                      "end", "reset", "delete"}
         /\ h.id \in Nat /\ h.w \subseteq Files /\ h.devices \in [Devices -> Nat]
         /\ h.s \in 0..MaxSignals + 1 /\ h.s \in Nat /\ h.stopping \in BOOLEAN
         /\ h.isShutdown \in BOOLEAN /\ h.paused \in BOOLEAN /\ h.suspended \in BOOLEAN
         /\ h.cur \in Files \cup {NoFile}
BY BoundsAssumption DEF HasherType

\* The files of a volume in a finite set of files.
LEMMA OnVolume ==
  ASSUME NEW W \in SUBSET Files, IsFiniteSet(W), NEW d \in Devices
  PROVE  LET On(X) == {f \in X : DeviceOf[f] = d}
         IN  /\ IsFiniteSet(On(W)) /\ Cardinality(On(W)) \in Nat
             /\ \A f \in Files \ W : Cardinality(On(W \cup {f})) =
                  Cardinality(On(W)) + (IF DeviceOf[f] = d THEN 1 ELSE 0)
             /\ \A f \in W : Cardinality(On(W \ {f})) =
                  Cardinality(On(W)) - (IF DeviceOf[f] = d THEN 1 ELSE 0)
             /\ \A dir : /\ Cardinality(On(W \cap dir)) \in Nat
                         /\ Cardinality(On(W \ dir)) = Cardinality(On(W)) - Cardinality(On(W \cap dir))
<1> DEFINE On(X) == {f \in X : DeviceOf[f] = d}
<1>1. \A X \in SUBSET W : IsFiniteSet(On(X)) /\ Cardinality(On(X)) \in Nat
  <2> TAKE X \in SUBSET W
  <2>1. On(X) \in SUBSET W OBVIOUS
  <2> HIDE DEF On
  <2>2. IsFiniteSet(On(X)) BY <2>1, FS_Subset
  <2> QED BY <2>2, FS_CardinalityType
<1>2. ASSUME NEW f \in Files \ W
      PROVE  Cardinality(On(W \cup {f})) = Cardinality(On(W)) + (IF DeviceOf[f] = d THEN 1 ELSE 0)
  <2>1. CASE DeviceOf[f] = d
    <3>1. On(W \cup {f}) = On(W) \cup {f} /\ f \notin On(W) BY <2>1
    <3> HIDE DEF On
    <3> QED BY <1>1, <2>1, <3>1, FS_AddElement
  <2>2. CASE DeviceOf[f] # d
    <3>1. On(W \cup {f}) = On(W) BY <2>2
    <3> HIDE DEF On
    <3> QED BY <1>1, <2>2, <3>1
  <2> QED BY <2>1, <2>2
<1>3. ASSUME NEW f \in W
      PROVE  Cardinality(On(W \ {f})) = Cardinality(On(W)) - (IF DeviceOf[f] = d THEN 1 ELSE 0)
  <2>1. CASE DeviceOf[f] = d
    <3>1. On(W \ {f}) = On(W) \ {f} /\ f \in On(W) BY <2>1
    <3> HIDE DEF On
    <3>2. IsFiniteSet(On(W)) BY <1>1
    <3>3. Cardinality(On(W) \ {f}) = Cardinality(On(W)) - 1 BY <3>1, <3>2, FS_RemoveElement
    <3> QED BY <2>1, <3>1, <3>3
  <2>2. CASE DeviceOf[f] # d
    <3>1. On(W \ {f}) = On(W) BY <2>2
    <3> HIDE DEF On
    <3> QED BY <1>1, <2>2, <3>1
  <2> QED BY <2>1, <2>2
<1>4. ASSUME NEW dir
      PROVE  /\ Cardinality(On(W \cap dir)) \in Nat
             /\ Cardinality(On(W \ dir)) = Cardinality(On(W)) - Cardinality(On(W \cap dir))
  <2>1. On(W \ dir) = On(W) \ On(W \cap dir) /\ On(W) \cap On(W \cap dir) = On(W \cap dir)
    OBVIOUS
  <2>2. W \cap dir \in SUBSET W /\ W \in SUBSET W OBVIOUS
  <2> HIDE DEF On
  <2> QED BY <1>1, <2>1, <2>2, FS_Difference
<1> QED BY <1>1, <1>2, <1>3, <1>4

\* The load of a hasher whose queue is finite is a number.
LEMMA LoadType ==
  ASSUME NEW h \in HasherType, IsFiniteSet(h.w), NEW d \in Devices
  PROVE  /\ Cardinality(Waiting(h, d)) \in Nat /\ Load(h, d) \in Nat
         /\ Load(h, d) >= Cardinality(Waiting(h, d))
<1>1. Cardinality(Waiting(h, d)) \in Nat BY OnVolume, HasherFields DEF Waiting
<1> QED BY <1>1 DEF Load

\* A hasher stays consistent when it moves, if its queue, its file and its
\* counts stay.
LEMMA Moves ==
  ASSUME NEW n, NEW c, NEW h, Consistent(h, n, c), NEW g \in HasherType,
         g.w = h.w, g.cur = h.cur, g.devices = h.devices, g.isShutdown = h.isShutdown,
         g.pc = "hash" <=> h.pc = "hash",
         h.stopping \/ ~g.stopping, g.s <= h.s,
         GoesToWait(g) => (GoesToWait(h) /\ g.s = h.s) \/ g.w = {} \/ (g.pc = "end" /\ h.stopping)
  PROVE  Consistent(g, n, c)
<1>1. h \in HasherType BY DEF Consistent
<1>2. \A d : Waiting(g, d) = Waiting(h, d) /\ Load(g, d) = Load(h, d)
  BY DEF Waiting, Load
<1>3. Counts(g, n) BY <1>2 DEF Counts, Consistent
<1>4. n = 0 => /\ g.stopping => g.isShutdown
               /\ GoesToWait(g) => g.w = {} \/ g.s > 0
  BY DEF Consistent, GoesToWait
<1>5. c \in {"no", "tell"} => ~g.isShutdown /\ g.s <= MaxSignals
  BY <1>1, HasherFields, BoundsAssumption DEF Consistent
<1> QED BY <1>3, <1>4, <1>5 DEF Consistent

\* A hasher that is constructed, and the memory of one that is deleted.
LEMMA Constructed ==
  /\ \A n, c : Consistent(Free, n, c)
  /\ \A n, c : \A id \in Nat, p \in BOOLEAN : Consistent(Hasher(id, p), n, c)
  /\ Free.pc = "free" /\ Free.w = {}
  /\ \A id, p : Hasher(id, p).pc = "wait" /\ Hasher(id, p).id = id /\ Hasher(id, p).w = {}
               /\ Hasher(id, p).s = 0 /\ Hasher(id, p).paused = p
               /\ Hasher(id, p).isShutdown = FALSE
<1>1. ASSUME NEW h \in HasherType, h.w = {}, h.cur = NoFile, h.pc # "hash", h.devices = NoDevices,
             h.isShutdown = FALSE, h.stopping = FALSE, h.s = 0, NEW n, NEW c
      PROVE  Consistent(h, n, c)
  <2>1. \A d \in Devices : h.devices[d] = 0 /\ Load(h, d) = 0
    <3> TAKE d \in Devices
    <3>1. Waiting(h, d) = {} BY <1>1 DEF Waiting
    <3> QED BY <1>1, <3>1, FS_EmptySet DEF Load, NoDevices
  <2>2. Counts(h, n) BY <2>1 DEF Counts
  <2> QED BY <1>1, <2>2, FS_EmptySet, BoundsAssumption DEF Consistent
<1>2. /\ Free \in HasherType /\ Free.w = {} /\ Free.cur = NoFile /\ Free.pc = "free"
      /\ Free.devices = NoDevices /\ Free.isShutdown = FALSE /\ Free.stopping = FALSE
      /\ Free.s = 0
  BY BoundsAssumption DEF Free, NoDevices, HasherType
<1>3. \A id, p : /\ Hasher(id, p).w = {} /\ Hasher(id, p).cur = NoFile
                 /\ Hasher(id, p).pc = "wait" /\ Hasher(id, p).id = id
                 /\ Hasher(id, p).paused = p /\ Hasher(id, p).devices = NoDevices
                 /\ Hasher(id, p).isShutdown = FALSE /\ Hasher(id, p).stopping = FALSE
                 /\ Hasher(id, p).s = 0
  BY DEF Hasher, Free
<1>5. ASSUME NEW id, id \in Nat, NEW p, p \in BOOLEAN PROVE Hasher(id, p) \in HasherType
  BY <1>2, <1>5 DEF Hasher, HasherType
<1>6. \A n, c : Consistent(Free, n, c) BY <1>1, <1>2
<1>7. ASSUME NEW n, NEW c, NEW id, id \in Nat, NEW p, p \in BOOLEAN
      PROVE  Consistent(Hasher(id, p), n, c)
  <2>1. /\ Hasher(id, p).w = {} /\ Hasher(id, p).cur = NoFile /\ Hasher(id, p).pc = "wait"
        /\ Hasher(id, p).devices = NoDevices /\ Hasher(id, p).isShutdown = FALSE
        /\ Hasher(id, p).stopping = FALSE /\ Hasher(id, p).s = 0
    BY <1>3
  <2>2. Hasher(id, p) \in HasherType BY <1>5, <1>7
  <2> QED BY <1>1, <2>1, <2>2
<1> QED BY <1>2, <1>3, <1>6, <1>7

\* Hasher::hashFile: the file, its volume and the signal come together.
LEMMA QueueFacts ==
  ASSUME NEW n, NEW c, NEW h, Consistent(h, n, c), NEW f \in Files, f \notin h.w,
         h.s < MaxSignals
  PROVE  /\ Consistent(Queue(h, f), n, c)
         /\ Queue(h, f).w = h.w \cup {f} /\ Queue(h, f).pc = h.pc /\ Queue(h, f).id = h.id
         /\ Queue(h, f).paused = h.paused /\ Queue(h, f).isShutdown = h.isShutdown
<1> DEFINE g == Queue(h, f)
           v == DeviceOf[f]
<1>0. h \in HasherType /\ v \in Devices /\ IsFiniteSet(h.w) BY DevicesAssumption DEF Consistent
<1>1. /\ h.w \subseteq Files /\ h.devices \in [Devices -> Nat] /\ h.s \in Nat
      /\ MaxSignals \in Nat
  BY <1>0, HasherFields, BoundsAssumption
<1>2. /\ g.w = h.w \cup {f} /\ g.devices = [h.devices EXCEPT ![v] = h.devices[v] + 1]
      /\ g.s = h.s + 1 /\ g.pc = h.pc /\ g.id = h.id /\ g.stopping = h.stopping
      /\ g.isShutdown = h.isShutdown /\ g.paused = h.paused /\ g.cur = h.cur
  BY <1>0 DEF Queue, HasherType
<1>3. g \in HasherType
  <2>1. /\ h.w \cup {f} \in SUBSET Files /\ h.s + 1 \in 0..MaxSignals + 1
        /\ [h.devices EXCEPT ![v] = h.devices[v] + 1] \in [Devices -> Nat]
    BY <1>0, <1>1
  <2>2. g = [h EXCEPT !.w = h.w \cup {f}, !.s = h.s + 1,
                      !.devices = [h.devices EXCEPT ![v] = h.devices[v] + 1]]
    BY <1>0 DEF Queue, HasherType
  <2> QED BY <1>0, <2>1, <2>2 DEF HasherType
<1> HIDE DEF g
<1>4. IsFiniteSet(g.w) BY <1>0, <1>2, FS_AddElement
<1>5. ASSUME NEW d \in Devices
      PROVE  /\ Load(g, d) = Load(h, d) + (IF d = v THEN 1 ELSE 0)
             /\ g.devices[d] = h.devices[d] + (IF d = v THEN 1 ELSE 0)
             /\ Load(h, d) \in Nat /\ h.devices[d] \in Nat
  <2>1. Cardinality(Waiting(g, d)) = Cardinality(Waiting(h, d)) + (IF d = v THEN 1 ELSE 0)
    BY <1>0, <1>1, <1>2, OnVolume DEF Waiting
  <2>2. Cardinality(Waiting(h, d)) \in Nat /\ Load(h, d) \in Nat BY <1>0, LoadType
  <2>3. Load(g, d) = Load(h, d) + (IF d = v THEN 1 ELSE 0) BY <1>2, <2>1, <2>2 DEF Load
  <2> QED BY <1>1, <1>2, <2>2, <2>3
<1>6. Counts(g, n) BY <1>2, <1>5 DEF Counts, Consistent
<1>7. g.s > 0 /\ g.s <= MaxSignals BY <1>1, <1>2
<1>8. Consistent(g, n, c) BY <1>2, <1>3, <1>4, <1>6, <1>7 DEF Consistent
<1> QED BY <1>2, <1>8 DEF g

\* The hasher takes a file out of its queue.
LEMMA TakesFile ==
  ASSUME NEW n, NEW c, NEW h, Consistent(h, n, c), h.pc = "next", NEW f \in h.w,
         NEW g \in HasherType, g.w = h.w \ {f}, g.pc = "hash", g.cur = f,
         g.devices = h.devices, g.isShutdown = h.isShutdown, g.stopping = h.stopping, g.s = h.s
  PROVE  Consistent(g, n, c)
<1>0. h \in HasherType /\ IsFiniteSet(h.w) /\ h.w \subseteq Files /\ NoFile \notin Files
  BY HasherFields, FilesAssumption DEF Consistent
<1>1. IsFiniteSet(g.w) BY <1>0, FS_RemoveElement
<1>2. ASSUME NEW d \in Devices PROVE Load(g, d) = Load(h, d)
  <2>0. /\ Waiting(g, d) = {e \in h.w \ {f} : DeviceOf[e] = d}
        /\ Waiting(h, d) = {e \in h.w : DeviceOf[e] = d} /\ h.w \in SUBSET Files
    BY <1>0 DEF Waiting
  <2>1. Cardinality(Waiting(g, d)) = Cardinality(Waiting(h, d)) - (IF DeviceOf[f] = d THEN 1 ELSE 0)
    <3>1. Cardinality({e \in h.w \ {f} : DeviceOf[e] = d}) =
            Cardinality({e \in h.w : DeviceOf[e] = d}) - (IF DeviceOf[f] = d THEN 1 ELSE 0)
      <4> DEFINE On(X) == {e \in X : DeviceOf[e] = d}
      <4>1. \A e \in h.w : Cardinality(On(h.w \ {e})) =
              Cardinality(On(h.w)) - (IF DeviceOf[e] = d THEN 1 ELSE 0)
        BY <1>0, <2>0, OnVolume, Zenon
      <4> QED BY <4>1
    <3> QED BY <2>0, <3>1
  <2>2. Cardinality(Waiting(h, d)) \in Nat BY <1>0, LoadType
  <2> QED BY <2>1, <2>2 DEF Load
<1>3. Counts(g, n) BY <1>2 DEF Counts, Consistent
<1> QED BY <1>0, <1>1, <1>3 DEF Consistent, GoesToWait

\* The hasher is through with a file: its volume is counted down, unless a stop
\* has cleared the counts before.
LEMMA LeavesFile ==
  ASSUME NEW n, NEW c, NEW h, Consistent(h, n, c), h.pc = "hash",
         NEW g \in HasherType, g.w = h.w, g.pc = "pause", g.cur = NoFile,
         g.devices = removeDevice(h.devices, DeviceOf[h.cur]),
         g.isShutdown = h.isShutdown, g.stopping = h.stopping, g.s = h.s
  PROVE  Consistent(g, n, c)
<1> DEFINE v == DeviceOf[h.cur]
<1>0. /\ h \in HasherType /\ IsFiniteSet(h.w) /\ h.devices \in [Devices -> Nat]
      /\ h.cur \in Files /\ v \in Devices
  BY HasherFields, DevicesAssumption DEF Consistent
<1>1. ASSUME NEW d \in Devices
      PROVE  /\ Load(g, d) \in Nat
             /\ Load(h, d) = Load(g, d) + (IF d = v THEN 1 ELSE 0)
             /\ h.devices[d] \in Nat
             /\ g.devices[d] = IF d = v THEN (IF h.devices[d] > 0 THEN h.devices[d] - 1 ELSE 0)
                                        ELSE h.devices[d]
  <2>1. Waiting(g, d) = Waiting(h, d) BY DEF Waiting
  <2>2. Cardinality(Waiting(h, d)) \in Nat BY <1>0, LoadType
  <2>3. Load(g, d) \in Nat /\ Load(h, d) = Load(g, d) + (IF d = v THEN 1 ELSE 0)
    BY <2>1, <2>2 DEF Load
  <2> QED BY <1>0, <2>3 DEF removeDevice
<1>2. Counts(g, n)
  <2> SUFFICES ASSUME NEW d \in Devices
               PROVE  /\ g.devices[d] <= Load(g, d)
                      /\ n = 0 /\ ~g.isShutdown => g.devices[d] = Load(g, d)
    BY DEF Counts
  <2>1. /\ h.devices[d] <= Load(h, d)
        /\ n = 0 /\ ~g.isShutdown => h.devices[d] = Load(h, d)
    BY DEF Consistent, Counts
  <2> QED BY <1>1, <2>1
<1> QED BY <1>0, <1>2 DEF Consistent, GoesToWait

\* Hasher::stopHashing: the counts lose what the queue loses.
LEMMA WithoutFacts ==
  ASSUME NEW n, NEW c, NEW h, Consistent(h, n, c), NEW dir
  PROVE  /\ Consistent(Without(h, dir), n, c)
         /\ Without(h, dir).w \subseteq h.w /\ Without(h, dir).pc = h.pc
         /\ Without(h, dir).id = h.id /\ Without(h, dir).paused = h.paused
         /\ Without(h, dir).isShutdown = h.isShutdown
<1> DEFINE g == Without(h, dir)
           Gone(d) == Cardinality({f \in h.w \cap dir : DeviceOf[f] = d})
           left == [d \in Devices |-> IF h.devices[d] > Gone(d) THEN h.devices[d] - Gone(d) ELSE 0]
<1>0. /\ h \in HasherType /\ IsFiniteSet(h.w) /\ h.devices \in [Devices -> Nat]
      /\ h.w \in SUBSET Files
  BY HasherFields DEF Consistent
<1>1. \A d \in Devices :
        /\ Gone(d) \in Nat
        /\ Cardinality({f \in h.w \ dir : DeviceOf[f] = d}) = Cardinality(Waiting(h, d)) - Gone(d)
  BY <1>0, OnVolume DEF Waiting
<1>2. left \in [Devices -> Nat]
  <2> HIDE DEF Gone
  <2>1. \A d \in Devices : h.devices[d] \in Nat /\ Gone(d) \in Nat BY <1>0, <1>1
  <2>2. \A d \in Devices : (IF h.devices[d] > Gone(d) THEN h.devices[d] - Gone(d) ELSE 0) \in Nat
    BY <2>1
  <2> QED BY <2>2
<1>3. /\ g.w = h.w \ dir /\ g.devices = left /\ g.s = h.s /\ g.pc = h.pc /\ g.id = h.id
      /\ g.stopping = h.stopping /\ g.isShutdown = h.isShutdown /\ g.paused = h.paused
      /\ g.cur = h.cur
  BY <1>0 DEF Without, HasherType
<1>4. g \in HasherType
  <2>1. g = [h EXCEPT !.w = h.w \ dir, !.devices = left] BY <1>0 DEF Without, HasherType
  <2> HIDE DEF left
  <2> QED BY <1>0, <1>2, <2>1 DEF HasherType
<1>5. IsFiniteSet(g.w)
  <2>1. h.w \ dir \in SUBSET h.w OBVIOUS
  <2> QED BY <1>0, <1>3, <2>1, FS_Subset
<1>6. ASSUME NEW d \in Devices
      PROVE  /\ Load(g, d) \in Nat /\ Gone(d) \in Nat /\ Load(h, d) = Load(g, d) + Gone(d)
             /\ g.devices[d] = IF h.devices[d] > Gone(d) THEN h.devices[d] - Gone(d) ELSE 0
             /\ h.devices[d] \in Nat
  <2>1. Cardinality(Waiting(g, d)) = Cardinality(Waiting(h, d)) - Gone(d)
    BY <1>1, <1>3 DEF Waiting
  <2>2. Cardinality(Waiting(h, d)) \in Nat /\ Cardinality(Waiting(g, d)) \in Nat
        /\ Load(g, d) \in Nat /\ Gone(d) \in Nat
    BY <1>0, <1>1, <1>4, <1>5, LoadType
  <2> HIDE DEF Gone, g
  <2>3. Load(h, d) = Load(g, d) + Gone(d) BY <1>3, <2>1, <2>2 DEF Load
  <2> QED BY <1>0, <1>3, <2>2, <2>3
<1> HIDE DEF g, left, Gone
<1>7. Counts(g, n)
  <2> SUFFICES ASSUME NEW d \in Devices
               PROVE  /\ g.devices[d] <= Load(g, d)
                      /\ n = 0 /\ ~g.isShutdown => g.devices[d] = Load(g, d)
    BY DEF Counts
  <2>1. /\ h.devices[d] <= Load(h, d)
        /\ n = 0 /\ ~g.isShutdown => h.devices[d] = Load(h, d)
    BY <1>3 DEF Consistent, Counts
  <2> QED BY <1>6, <2>1
<1>8. GoesToWait(g) => GoesToWait(h) BY <1>3 DEF GoesToWait
<1>9. Consistent(g, n, c) BY <1>3, <1>4, <1>5, <1>7, <1>8 DEF Consistent
<1> QED BY <1>3, <1>9 DEF g

\* Hasher::stop: what is counted may be too low from then on.
LEMMA StoppedFacts ==
  ASSUME NEW n \in Nat, NEW c, NEW h, Consistent(h, n, c)
  PROVE  /\ Consistent(Stopped(h), n + 1, c)
         /\ Stopped(h).w = {} /\ Stopped(h).pc = h.pc /\ Stopped(h).id = h.id
         /\ Stopped(h).paused = h.paused /\ Stopped(h).isShutdown = h.isShutdown
<1> DEFINE g == Stopped(h)
<1>0. h \in HasherType /\ NoDevices \in [Devices -> Nat] BY DEF Consistent, NoDevices
<1>1. g \in HasherType BY <1>0 DEF Stopped, HasherType
<1>2. /\ g.w = {} /\ g.devices = NoDevices /\ g.s = h.s /\ g.pc = h.pc /\ g.id = h.id
      /\ g.stopping = TRUE /\ g.isShutdown = h.isShutdown /\ g.paused = h.paused
      /\ g.cur = h.cur
  BY <1>0 DEF Stopped, HasherType
<1> HIDE DEF g
<1>3. IsFiniteSet(g.w) BY <1>2, FS_EmptySet
<1>4. Counts(g, n + 1)
  <2>1. \A d \in Devices : g.devices[d] = 0 /\ Load(g, d) \in Nat
    BY <1>1, <1>2, <1>3, LoadType DEF NoDevices
  <2> QED BY <2>1 DEF Counts
<1>5. Consistent(g, n + 1, c) BY <1>1, <1>2, <1>3, <1>4 DEF Consistent
<1> QED BY <1>2, <1>5 DEF g

\* Hasher::shutdown: the signal always fits, as it is given once.
LEMMA ToldFacts ==
  ASSUME NEW n, NEW h, Consistent(h, n, "tell")
  PROVE  /\ Consistent(Told(h), n, "wait")
         /\ Told(h).w = {} /\ Told(h).pc = h.pc /\ Told(h).id = h.id
         /\ Told(h).isShutdown = TRUE
<1> DEFINE g == Told(h)
<1>0. /\ h \in HasherType /\ NoDevices \in [Devices -> Nat] /\ h.s \in Nat
      /\ h.s <= MaxSignals /\ MaxSignals \in Nat
  BY HasherFields, BoundsAssumption DEF Consistent, NoDevices
<1>1. /\ g.w = {} /\ g.devices = NoDevices /\ g.s = h.s + 1 /\ g.pc = h.pc /\ g.id = h.id
      /\ g.stopping = TRUE /\ g.isShutdown = TRUE /\ g.paused = FALSE
      /\ g.cur = h.cur
  BY <1>0 DEF Told, Stopped, HasherType
<1>2. g \in HasherType
  <2>1. Stopped(h) \in HasherType BY <1>0 DEF Stopped, HasherType
  <2>2. /\ (IF h.paused THEN FALSE ELSE Stopped(h).suspended) \in BOOLEAN
        /\ Stopped(h).s = h.s
    BY <1>0, <2>1, HasherFields DEF Stopped, HasherType
  <2>3. Stopped(h).s + 1 \in 0..MaxSignals + 1 BY <1>0, <2>2
  <2> QED BY <2>1, <2>2, <2>3 DEF Told, HasherType
<1> HIDE DEF g
<1>3. IsFiniteSet(g.w) BY <1>1, FS_EmptySet
<1>4. Counts(g, n)
  <2>1. \A d \in Devices : g.devices[d] = 0 /\ Load(g, d) \in Nat
    BY <1>1, <1>2, <1>3, LoadType DEF NoDevices
  <2> QED BY <1>1, <2>1 DEF Counts
<1>5. Consistent(g, n, "wait") BY <1>1, <1>2, <1>3, <1>4 DEF Consistent
<1> QED BY <1>1, <1>5 DEF g

\* What a further stop and the steps of shutdown leave of it.
LEMMA StillConsistent ==
  ASSUME NEW n \in Nat, NEW c, NEW h, Consistent(h, n, c)
  PROVE  /\ Consistent(h, n + 1, c)
         /\ \A e : (e \in {"no", "tell"} => c \in {"no", "tell"}) => Consistent(h, n, e)
<1>1. n + 1 # 0 OBVIOUS
<1>2. Counts(h, n + 1) BY <1>1 DEF Counts, Consistent
<1> QED BY <1>1, <1>2 DEF Consistent

-----------------------------------------------------------------------------
(* The invariant of the queues, and what a step may do *)

\* An object whose thread has left the list.
Gone(o) == hasher[o].pc \in {"free", "delete"}

\* A hasher is in the list once, and runs while it is.
ListRuns ==
  /\ \A i, j \in DOMAIN hashers : hashers[i] = hashers[j] => i = j
  /\ \A o \in Listed : ~Gone(o)

OtherTypes ==
  /\ pausers \in Nat
  /\ isShutdown \in BOOLEAN
  /\ caller \in [Callers -> Files \cup {NoFile}]
  /\ pauser \in [Pausers -> PauserType]
  /\ closing \in {"no", "tell", "wait", "done"}
  /\ stops \in 0..MaxStops

QueueInvariant ==
  /\ hashers \in Seq(Objects)
  /\ DOMAIN hasher = Objects /\ hasher = [o \in Objects |-> hasher[o]]
  /\ OtherTypes
  /\ \A o \in Objects : Consistent(hasher[o], stops, closing)
  /\ ListRuns
  /\ QueuedOnce

\* A step that leaves the list alone.
KeptList ==
  /\ hashers' = hashers
  /\ closing' \in {"no", "tell"} => closing \in {"no", "tell"}
  /\ \A o \in Objects : /\ Gone(o)' <=> Gone(o)
                        /\ ~Gone(o) => hasher'[o].id = hasher[o].id

Created ==
  \E o \in Objects, id \in 0..Len(hashers) : \E g :
    /\ Gone(o) /\ hasher[o].pc = "free" /\ Len(hashers) < MaxThreads /\ IsNewId(id)
    /\ hashers' = Append(hashers, o) /\ closing' = closing
    /\ hasher' = [hasher EXCEPT ![o] = g] /\ g.id = id /\ g.pc = "wait"

Removed ==
  \E o \in Objects :
    /\ hasher[o].pc = "end" /\ EndsRun(o) /\ closing' = closing
    /\ hashers' = Filter(hashers, {h \in Objects : hasher[h].id # hasher[o].id})
    /\ hasher' = [hasher EXCEPT ![o] = [hasher[o] EXCEPT !.pc = "delete"]]

ListStep == KeptList \/ Created \/ Removed

\* A step that is not one of a thread that pauses: it changes the list with
\* the lock only, and a hasher that has not been told to shut down is paused as
\* it was before, or has been created with what the counter says.
QuietStep ==
  /\ UNCHANGED <<pauser, pausers>>
  /\ Listed' = Listed \/ WLock
  /\ \A o \in Listed' : ~hasher'[o].isShutdown =>
       \/ o \in Listed /\ ~hasher[o].isShutdown /\ hasher'[o].paused = hasher[o].paused
       \/ WLock /\ hasher'[o].paused = (pausers > 0)

\* The entries of the list are objects.
LEMMA ListedObjects ==
  ASSUME hashers \in Seq(Objects)
  PROVE  /\ Listed \subseteq Objects
         /\ Len(hashers) \in Nat /\ DOMAIN hashers = 1..Len(hashers)
BY DEF Listed

\* The hashers change and the list does not.
LEMMA EveryHasher ==
  ASSUME QueueInvariant, OtherTypes', hashers' = hashers,
         closing' \in {"no", "tell"} => closing \in {"no", "tell"},
         DOMAIN hasher' = Objects, hasher' = [p \in Objects |-> hasher'[p]],
         \A p \in Objects : /\ Consistent(hasher'[p], stops', closing')
                            /\ hasher'[p].w \subseteq hasher[p].w
                            /\ hasher'[p].pc \in {"free", "delete"} <=> Gone(p)
                            /\ ~Gone(p) => hasher'[p].id = hasher[p].id
  PROVE  QueueInvariant' /\ KeptList
<1>0. hashers \in Seq(Objects) /\ ListRuns /\ QueuedOnce /\ Listed \subseteq Objects
  BY ListedObjects DEF QueueInvariant
<1>1. Listed' = Listed BY DEF Listed
<1>2. ListRuns' BY <1>0, <1>1 DEF ListRuns, Gone
<1>3. QueuedOnce' BY <1>0, <1>1 DEF QueuedOnce
<1>4. KeptList BY DEF KeptList, Gone
<1> QED BY <1>0, <1>2, <1>3, <1>4 DEF QueueInvariant

\* One hasher changes and the list does not.
LEMMA OneHasher ==
  ASSUME QueueInvariant, OtherTypes', NEW o \in Objects, NEW g,
         hashers' = hashers, closing' = closing, stops' = stops,
         hasher' = [hasher EXCEPT ![o] = g], Consistent(g, stops, closing),
         g.w \subseteq hasher[o].w,
         g.pc \in {"free", "delete"} <=> Gone(o), ~Gone(o) => g.id = hasher[o].id
  PROVE  /\ QueueInvariant' /\ KeptList
         /\ hasher'[o] = g /\ \A p \in Objects : p # o => hasher'[p] = hasher[p]
         /\ Listed' = Listed
<1>0. /\ DOMAIN hasher = Objects
      /\ \A p \in Objects : Consistent(hasher[p], stops, closing)
  BY DEF QueueInvariant
<1>1. /\ hasher' = [p \in Objects |-> hasher'[p]] /\ DOMAIN hasher' = Objects
      /\ hasher'[o] = g /\ \A p \in Objects : p # o => hasher'[p] = hasher[p]
  BY <1>0
<1>2. \A p \in Objects : /\ Consistent(hasher'[p], stops', closing')
                         /\ hasher'[p].w \subseteq hasher[p].w
                         /\ hasher'[p].pc \in {"free", "delete"} <=> Gone(p)
                         /\ ~Gone(p) => hasher'[p].id = hasher[p].id
  BY <1>0, <1>1 DEF Gone
<1>3. QueueInvariant' /\ KeptList BY <1>1, <1>2, EveryHasher
<1> QED BY <1>1, <1>3 DEF Listed

\* A step of a hasher's thread that leaves the list, the flag paused and the
\* flag isShutdown alone.
LEMMA ThreadStep ==
  ASSUME QueueInvariant, UNCHANGED Others, NEW o \in Objects, NEW g,
         hasher' = [hasher EXCEPT ![o] = g], Consistent(g, stops, closing),
         g.w \subseteq hasher[o].w, g.pc \notin {"free", "delete"}, ~Gone(o),
         g.id = hasher[o].id,
         g.paused = hasher[o].paused, g.isShutdown = hasher[o].isShutdown
  PROVE  QueueInvariant' /\ KeptList /\ QuietStep
<1>1. /\ hashers' = hashers /\ pausers' = pausers /\ isShutdown' = isShutdown
      /\ caller' = caller /\ pauser' = pauser /\ closing' = closing /\ stops' = stops
  BY DEF Others
<1>2. OtherTypes' BY <1>1 DEF OtherTypes, QueueInvariant
<1>3. /\ QueueInvariant' /\ KeptList /\ Listed' = Listed
      /\ hasher'[o] = g /\ \A p \in Objects : p # o => hasher'[p] = hasher[p]
  BY <1>1, <1>2, OneHasher
<1>4. Listed \subseteq Objects BY ListedObjects DEF QueueInvariant
<1>5. QuietStep BY <1>1, <1>3, <1>4 DEF QuietStep
<1> QED BY <1>3, <1>5

\* The same for a step that only moves the thread on.
LEMMA ThreadMoves ==
  ASSUME QueueInvariant, UNCHANGED Others, NEW o \in Objects, NEW g \in HasherType,
         hasher' = [hasher EXCEPT ![o] = g],
         hasher[o].pc \notin {"hash", "free", "delete"}, g.pc \notin {"hash", "free", "delete"},
         g.id = hasher[o].id, g.w = hasher[o].w, g.devices = hasher[o].devices,
         g.cur = hasher[o].cur, g.isShutdown = hasher[o].isShutdown,
         g.paused = hasher[o].paused, hasher[o].stopping \/ ~g.stopping, g.s <= hasher[o].s,
         GoesToWait(g) => \/ GoesToWait(hasher[o]) /\ g.s = hasher[o].s
                          \/ g.w = {}
                          \/ g.pc = "end" /\ hasher[o].stopping
  PROVE  QueueInvariant' /\ KeptList /\ QuietStep
<1>1. Consistent(hasher[o], stops, closing) BY DEF QueueInvariant
<1>2. Consistent(g, stops, closing) BY <1>1, Moves
<1>3. ~Gone(o) BY DEF Gone
<1> QED BY <1>2, <1>3, ThreadStep

\* The steps of a hasher's thread, those that change the list left out.
LEMMA RunKeepsList ==
  ASSUME QueueInvariant, NEW o \in Objects, run(o), ~removeHasher(o), ~deleteThis(o)
  PROVE  QueueInvariant' /\ KeptList /\ QuietStep
<1> DEFINE h == hasher[o]
<1>0. /\ Consistent(h, stops, closing) /\ h \in HasherType /\ DOMAIN hasher = Objects
      /\ h.s \in Nat /\ h.s \in 0..MaxSignals + 1 /\ MaxSignals \in Nat
      /\ h.w \in SUBSET Files /\ h.devices \in [Devices -> Nat] /\ h.cur \in Files \cup {NoFile}
      /\ h.paused \in BOOLEAN /\ h.stopping \in BOOLEAN
  BY HasherFields, BoundsAssumption DEF QueueInvariant, Consistent
<1>1. CASE wait(o)
  <2> DEFINE g == [h EXCEPT !.pc = "pause", !.s = h.s - 1]
  <2>1. hasher' = [hasher EXCEPT ![o] = g] /\ UNCHANGED Others BY <1>0, <1>1 DEF wait
  <2>2. h.s - 1 \in 0..MaxSignals + 1 /\ h.s - 1 <= h.s BY <1>0, <1>1 DEF wait
  <2>3. g \in HasherType BY <1>0, <2>2 DEF HasherType
  <2>4. /\ g.id = h.id /\ g.w = h.w /\ g.devices = h.devices /\ g.cur = h.cur
        /\ g.isShutdown = h.isShutdown /\ g.paused = h.paused
    BY <1>0 DEF HasherType
  <2>5. /\ h.stopping \/ ~g.stopping
        /\ g.s <= h.s /\ h.pc \notin {"hash", "free", "delete"}
        /\ g.pc \notin {"hash", "free", "delete"}
    BY <1>0, <1>1, <2>2 DEF wait, HasherType
  <2>6. GoesToWait(g) => \/ GoesToWait(h) /\ g.s = h.s
                         \/ g.w = {}
                         \/ g.pc = "end" /\ h.stopping
    BY <1>0, <1>1 DEF wait, HasherType, GoesToWait
  <2> HIDE DEF g
  <2> QED BY <2>1, <2>3, <2>4, <2>5, <2>6, ThreadMoves
<1>2. CASE instantPause(o)
  <2> DEFINE g == [h EXCEPT !.pc = IF h.paused THEN "suspend" ELSE "check"]
  <2>1. hasher' = [hasher EXCEPT ![o] = g] /\ UNCHANGED Others BY <1>0, <1>2 DEF instantPause
  <2>3. g \in HasherType BY <1>0 DEF HasherType
  <2>4. /\ g.id = h.id /\ g.w = h.w /\ g.devices = h.devices /\ g.cur = h.cur
        /\ g.isShutdown = h.isShutdown /\ g.paused = h.paused
    BY <1>0 DEF HasherType
  <2>5. /\ h.stopping \/ ~g.stopping
        /\ g.s <= h.s /\ h.pc \notin {"hash", "free", "delete"}
        /\ g.pc \notin {"hash", "free", "delete"}
    BY <1>0, <1>2 DEF instantPause, HasherType
  <2>6. GoesToWait(g) => \/ GoesToWait(h) /\ g.s = h.s
                         \/ g.w = {}
                         \/ g.pc = "end" /\ h.stopping
    BY <1>0, <1>2 DEF instantPause, HasherType, GoesToWait
  <2> HIDE DEF g
  <2> QED BY <2>1, <2>3, <2>4, <2>5, <2>6, ThreadMoves
<1>3. CASE t_suspend(o)
  <2> DEFINE g == [h EXCEPT !.pc = "suspended", !.suspended = TRUE]
  <2>1. hasher' = [hasher EXCEPT ![o] = g] /\ UNCHANGED Others BY <1>0, <1>3 DEF t_suspend
  <2>3. g \in HasherType BY <1>0 DEF HasherType
  <2>4. /\ g.id = h.id /\ g.w = h.w /\ g.devices = h.devices /\ g.cur = h.cur
        /\ g.isShutdown = h.isShutdown /\ g.paused = h.paused
    BY <1>0 DEF HasherType
  <2>5. /\ h.stopping \/ ~g.stopping
        /\ g.s <= h.s /\ h.pc \notin {"hash", "free", "delete"}
        /\ g.pc \notin {"hash", "free", "delete"}
    BY <1>0, <1>3 DEF t_suspend, HasherType
  <2>6. GoesToWait(g) => \/ GoesToWait(h) /\ g.s = h.s
                         \/ g.w = {}
                         \/ g.pc = "end" /\ h.stopping
    BY <1>0, <1>3 DEF t_suspend, HasherType, GoesToWait
  <2> HIDE DEF g
  <2> QED BY <2>1, <2>3, <2>4, <2>5, <2>6, ThreadMoves
<1>4. CASE resumed(o)
  <2> DEFINE g == [h EXCEPT !.pc = "check"]
  <2>1. hasher' = [hasher EXCEPT ![o] = g] /\ UNCHANGED Others BY <1>0, <1>4 DEF resumed
  <2>3. g \in HasherType BY <1>0 DEF HasherType
  <2>4. /\ g.id = h.id /\ g.w = h.w /\ g.devices = h.devices /\ g.cur = h.cur
        /\ g.isShutdown = h.isShutdown /\ g.paused = h.paused
    BY <1>0 DEF HasherType
  <2>5. /\ h.stopping \/ ~g.stopping
        /\ g.s <= h.s /\ h.pc \notin {"hash", "free", "delete"}
        /\ g.pc \notin {"hash", "free", "delete"}
    BY <1>0, <1>4 DEF resumed, HasherType
  <2>6. GoesToWait(g) => \/ GoesToWait(h) /\ g.s = h.s
                         \/ g.w = {}
                         \/ g.pc = "end" /\ h.stopping
    BY <1>0, <1>4 DEF resumed, HasherType, GoesToWait
  <2> HIDE DEF g
  <2> QED BY <2>1, <2>3, <2>4, <2>5, <2>6, ThreadMoves
<1>5. CASE checkStopping(o)
  <2> DEFINE g == [h EXCEPT !.pc = IF h.stopping THEN "end" ELSE "next"]
  <2>1. hasher' = [hasher EXCEPT ![o] = g] /\ UNCHANGED Others BY <1>0, <1>5 DEF checkStopping
  <2>3. g \in HasherType BY <1>0 DEF HasherType
  <2>4. /\ g.id = h.id /\ g.w = h.w /\ g.devices = h.devices /\ g.cur = h.cur
        /\ g.isShutdown = h.isShutdown /\ g.paused = h.paused
    BY <1>0 DEF HasherType
  <2>5. /\ h.stopping \/ ~g.stopping
        /\ g.s <= h.s /\ h.pc \notin {"hash", "free", "delete"}
        /\ g.pc \notin {"hash", "free", "delete"}
    BY <1>0, <1>5 DEF checkStopping, HasherType
  <2>6. GoesToWait(g) => \/ GoesToWait(h) /\ g.s = h.s
                         \/ g.w = {}
                         \/ g.pc = "end" /\ h.stopping
    BY <1>0, <1>5 DEF checkStopping, HasherType, GoesToWait
  <2> HIDE DEF g
  <2> QED BY <2>1, <2>3, <2>4, <2>5, <2>6, ThreadMoves
<1>6. CASE NoFileLeft(o)
  <2> DEFINE g == [h EXCEPT !.pc = "end"]
  <2>1. hasher' = [hasher EXCEPT ![o] = g] /\ UNCHANGED Others BY <1>0, <1>6 DEF NoFileLeft
  <2>3. g \in HasherType BY <1>0 DEF HasherType
  <2>4. /\ g.id = h.id /\ g.w = h.w /\ g.devices = h.devices /\ g.cur = h.cur
        /\ g.isShutdown = h.isShutdown /\ g.paused = h.paused
    BY <1>0 DEF HasherType
  <2>5. /\ h.stopping \/ ~g.stopping
        /\ g.s <= h.s /\ h.pc \notin {"hash", "free", "delete"}
        /\ g.pc \notin {"hash", "free", "delete"}
    BY <1>0, <1>6 DEF NoFileLeft, HasherType
  <2>6. GoesToWait(g) => \/ GoesToWait(h) /\ g.s = h.s
                         \/ g.w = {}
                         \/ g.pc = "end" /\ h.stopping
    BY <1>0, <1>6, <2>4 DEF NoFileLeft, HasherType, GoesToWait
  <2> HIDE DEF g
  <2> QED BY <2>1, <2>3, <2>4, <2>5, <2>6, ThreadMoves
<1>7. CASE staysListed(o)
  <2> DEFINE g == [h EXCEPT !.pc = "reset"]
  <2>1. hasher' = [hasher EXCEPT ![o] = g] /\ UNCHANGED Others BY <1>0, <1>7 DEF staysListed
  <2>3. g \in HasherType BY <1>0 DEF HasherType
  <2>4. /\ g.id = h.id /\ g.w = h.w /\ g.devices = h.devices /\ g.cur = h.cur
        /\ g.isShutdown = h.isShutdown /\ g.paused = h.paused
    BY <1>0 DEF HasherType
  <2>5. /\ h.stopping \/ ~g.stopping
        /\ g.s <= h.s /\ h.pc \notin {"hash", "free", "delete"}
        /\ g.pc \notin {"hash", "free", "delete"}
    BY <1>0, <1>7 DEF staysListed, HasherType
  <2>6. GoesToWait(g) => \/ GoesToWait(h) /\ g.s = h.s
                         \/ g.w = {}
                         \/ g.pc = "end" /\ h.stopping
    BY <1>0, <1>7 DEF staysListed, HasherType, GoesToWait, EndsRun
  <2> HIDE DEF g
  <2> QED BY <2>1, <2>3, <2>4, <2>5, <2>6, ThreadMoves
<1>8. CASE resetStopping(o)
  <2> DEFINE g == [h EXCEPT !.pc = "wait", !.stopping = FALSE]
  <2>1. hasher' = [hasher EXCEPT ![o] = g] /\ UNCHANGED Others BY <1>0, <1>8 DEF resetStopping
  <2>3. g \in HasherType BY <1>0 DEF HasherType
  <2>4. /\ g.id = h.id /\ g.w = h.w /\ g.devices = h.devices /\ g.cur = h.cur
        /\ g.isShutdown = h.isShutdown /\ g.paused = h.paused
    BY <1>0 DEF HasherType
  <2>5. /\ h.stopping \/ ~g.stopping
        /\ g.s <= h.s /\ h.pc \notin {"hash", "free", "delete"}
        /\ g.pc \notin {"hash", "free", "delete"}
    BY <1>0, <1>8 DEF resetStopping, HasherType
  <2>6. GoesToWait(g) => \/ GoesToWait(h) /\ g.s = h.s
                         \/ g.w = {}
                         \/ g.pc = "end" /\ h.stopping
    BY <1>0, <1>8 DEF resetStopping, HasherType, GoesToWait
  <2> HIDE DEF g
  <2> QED BY <2>1, <2>3, <2>4, <2>5, <2>6, ThreadMoves
<1>9. CASE NextFile(o)
  <2>1. PICK f \in h.w : hasher' = [hasher EXCEPT ![o].pc = "hash", ![o].cur = f, ![o].w = @ \ {f}]
    BY <1>9 DEF NextFile
  <2> DEFINE g == [h EXCEPT !.pc = "hash", !.cur = f, !.w = h.w \ {f}]
  <2>2. hasher' = [hasher EXCEPT ![o] = g] /\ UNCHANGED Others BY <1>0, <1>9, <2>1 DEF NextFile
  <2>3. g \in HasherType
    <3>1. h.w \ {f} \in SUBSET Files /\ f \in Files \cup {NoFile} BY <1>0
    <3> QED BY <1>0, <3>1 DEF HasherType
  <2>4. /\ g.id = h.id /\ g.w = h.w \ {f} /\ g.devices = h.devices /\ g.cur = f
        /\ g.isShutdown = h.isShutdown /\ g.paused = h.paused /\ g.stopping = h.stopping
        /\ g.s = h.s /\ g.pc = "hash"
    BY <1>0 DEF HasherType
  <2>5. h.pc = "next" BY <1>9 DEF NextFile
  <2> HIDE DEF g
  <2>6. Consistent(g, stops, closing) BY <1>0, <2>3, <2>4, <2>5, TakesFile
  <2>7. ~Gone(o) BY <2>5 DEF Gone
  <2> QED BY <2>2, <2>4, <2>6, <2>7, ThreadStep
<1>10. CASE fileHashed(o)
  <2> DEFINE left == removeDevice(h.devices, DeviceOf[h.cur])
             g == [h EXCEPT !.pc = "pause", !.cur = NoFile, !.devices = left]
  <2>1. hasher' = [hasher EXCEPT ![o] = g] /\ UNCHANGED Others BY <1>0, <1>10 DEF fileHashed
  <2>2. h.pc = "hash" BY <1>10 DEF fileHashed
  <2>3. left \in [Devices -> Nat]
    <3>1. \A d \in Devices : h.devices[d] \in Nat BY <1>0
    <3>2. \A d \in Devices : (IF h.devices[d] > 0 THEN h.devices[d] - 1 ELSE 0) \in Nat
      BY <3>1
    <3> QED BY <1>0, <3>1, <3>2 DEF removeDevice
  <2> HIDE DEF left
  <2>4. g \in HasherType BY <1>0, <2>3 DEF HasherType
  <2>5. /\ g.id = h.id /\ g.w = h.w /\ g.devices = left /\ g.cur = NoFile
        /\ g.isShutdown = h.isShutdown /\ g.paused = h.paused /\ g.stopping = h.stopping
        /\ g.s = h.s /\ g.pc = "pause"
    BY <1>0 DEF HasherType
  <2> HIDE DEF g
  <2>6. Consistent(g, stops, closing) BY <1>0, <2>2, <2>4, <2>5, LeavesFile DEF left
  <2>7. ~Gone(o) BY <2>2 DEF Gone
  <2> QED BY <2>1, <2>5, <2>6, <2>7, ThreadStep
<1> QED BY <1>1, <1>2, <1>3, <1>4, <1>5, <1>6, <1>7, <1>8, <1>9, <1>10 DEF run

\* The memory of a hasher that has left the list is freed.
LEMMA DeleteKeepsList ==
  ASSUME QueueInvariant, NEW o \in Objects, deleteThis(o)
  PROVE  QueueInvariant' /\ KeptList /\ QuietStep
<1>1. /\ hashers' = hashers /\ pausers' = pausers /\ isShutdown' = isShutdown
      /\ caller' = caller /\ pauser' = pauser /\ closing' = closing /\ stops' = stops
      /\ hasher' = [hasher EXCEPT ![o] = Free] /\ Gone(o)
  BY DEF deleteThis, Others, Gone
<1>2. OtherTypes' BY <1>1 DEF OtherTypes, QueueInvariant
<1>3. Consistent(Free, stops, closing) /\ Free.w \subseteq hasher[o].w /\ Free.pc = "free"
  BY Constructed
<1>4. /\ QueueInvariant' /\ KeptList /\ Listed' = Listed
      /\ \A p \in Objects : p # o => hasher'[p] = hasher[p]
  BY <1>1, <1>2, <1>3, OneHasher
<1>5. Listed \subseteq Objects /\ o \notin Listed
  BY <1>1, ListedObjects DEF QueueInvariant, ListRuns
<1>6. QuietStep BY <1>1, <1>4, <1>5 DEF QuietStep
<1> QED BY <1>4, <1>6

\* removeHasher takes the hasher that calls it out of the list, and every other
\* one with the same number.
LEMMA RemoveStep ==
  ASSUME QueueInvariant, NEW o \in Objects, removeHasher(o)
  PROVE  QueueInvariant' /\ Removed /\ QuietStep
<1> DEFINE h == hasher[o]
           g == [h EXCEPT !.pc = "delete"]
           K == {p \in Objects : hasher[p].id # hasher[o].id}
<1>1. /\ pausers' = pausers /\ isShutdown' = isShutdown
      /\ caller' = caller /\ pauser' = pauser /\ closing' = closing /\ stops' = stops
      /\ h.pc = "end" /\ EndsRun(o) /\ WLock /\ hashers' = Filter(hashers, K)
      /\ hasher' = [hasher EXCEPT ![o] = g]
  BY DEF removeHasher, QueueInvariant
<1>2. OtherTypes' BY <1>1 DEF OtherTypes, QueueInvariant
<1>3. /\ hashers \in Seq(Objects) /\ DOMAIN hasher = Objects /\ ListRuns /\ QueuedOnce
      /\ \A p \in Objects : Consistent(hasher[p], stops, closing)
      /\ Listed \subseteq Objects /\ h \in HasherType
  BY ListedObjects DEF QueueInvariant, Consistent
<1>4. Consistent(g, stops, closing)
  <2>1. g \in HasherType BY <1>3 DEF HasherType
  <2>2. /\ g.w = h.w /\ g.devices = h.devices /\ g.cur = h.cur /\ g.pc = "delete" /\ g.s = h.s
        /\ g.isShutdown = h.isShutdown /\ g.stopping = h.stopping /\ h.s \in Nat
        /\ h.stopping \in BOOLEAN
    BY <1>3, HasherFields DEF HasherType
  <2> HIDE DEF g
  <2> QED BY <1>1, <1>3, <2>1, <2>2, Moves DEF GoesToWait
<1>5. /\ hasher' = [p \in Objects |-> hasher'[p]] /\ DOMAIN hasher' = Objects
      /\ hasher'[o] = g /\ \A p \in Objects : p # o => hasher'[p] = hasher[p]
  BY <1>1, <1>3
<1>6. \A p \in Objects : Consistent(hasher'[p], stops', closing') BY <1>1, <1>3, <1>4, <1>5
<1>7. /\ hashers' \in Seq(Objects) /\ \A k \in DOMAIN hashers' : hashers'[k] \in K
      /\ \A k \in DOMAIN hashers' : \E i \in DOMAIN hashers : hashers'[k] = hashers[i]
      /\ \A k, l \in DOMAIN hashers' : hashers'[k] = hashers'[l] => k = l
  <2> HIDE DEF K
  <2>1. /\ Filter(hashers, K) \in Seq(Objects)
        /\ \A k \in DOMAIN Filter(hashers, K) : Filter(hashers, K)[k] \in K
        /\ \A k \in DOMAIN Filter(hashers, K) :
             \E i \in DOMAIN hashers : Filter(hashers, K)[k] = hashers[i]
        /\ (\A i, j \in DOMAIN hashers : hashers[i] = hashers[j] => i = j) =>
             \A k, l \in DOMAIN Filter(hashers, K) :
               Filter(hashers, K)[k] = Filter(hashers, K)[l] => k = l
    BY <1>3, FilterProperties
  <2>2. \A i, j \in DOMAIN hashers : hashers[i] = hashers[j] => i = j BY <1>3 DEF ListRuns
  <2> QED BY <1>1, <2>1, <2>2
<1>8. Listed' \subseteq Listed /\ o \notin Listed' BY <1>7 DEF Listed
<1>9. \A p \in Listed' : p \in Listed /\ p # o /\ hasher'[p] = hasher[p] BY <1>3, <1>5, <1>8
<1>10. ListRuns' BY <1>3, <1>7, <1>9 DEF ListRuns, Gone
<1>11. QueuedOnce' BY <1>3, <1>9 DEF QueuedOnce
<1>12. QuietStep BY <1>1, <1>9 DEF QuietStep
<1>13. Removed BY <1>1 DEF Removed
<1> QED BY <1>2, <1>5, <1>6, <1>7, <1>10, <1>11, <1>12, <1>13 DEF QueueInvariant

\* A step that changes neither the list nor a hasher.
LEMMA SameHashers ==
  ASSUME QueueInvariant, OtherTypes', hashers' = hashers, hasher' = hasher, stops' = stops,
         closing' \in {"no", "tell"} => closing \in {"no", "tell"}
  PROVE  /\ QueueInvariant' /\ KeptList /\ Listed' = Listed
         /\ UNCHANGED <<pauser, pausers>> => QuietStep
<1>0. /\ DOMAIN hasher = Objects /\ hasher = [p \in Objects |-> hasher[p]]
      /\ \A p \in Objects : Consistent(hasher[p], stops, closing)
      /\ stops \in Nat
  BY BoundsAssumption DEF QueueInvariant, OtherTypes
<1>1. \A p \in Objects : Consistent(hasher'[p], stops', closing')
  <2> TAKE p \in Objects
  <2> QED BY <1>0, StillConsistent
<1>2. QueueInvariant' /\ KeptList BY <1>0, <1>1, EveryHasher DEF Gone
<1>3. Listed' = Listed BY DEF Listed
<1> QED BY <1>2, <1>3 DEF QuietStep

\* hashFile before it takes the lock, and when the path is queued already.
LEMMA CallerKeepsHashers ==
  ASSUME QueueInvariant, NEW c \in Callers,
         AlreadyQueued(c) \/ (\E f \in Files : hashFile(c, f))
  PROVE  QueueInvariant' /\ KeptList /\ QuietStep
<1>1. PICK f \in Files \cup {NoFile} :
        /\ caller' = [caller EXCEPT ![c] = f]
        /\ hashers' = hashers /\ hasher' = hasher /\ pausers' = pausers
        /\ isShutdown' = isShutdown /\ pauser' = pauser /\ closing' = closing /\ stops' = stops
  BY DEF AlreadyQueued, hashFile
<1>2. OtherTypes' BY <1>1 DEF OtherTypes, QueueInvariant
<1> QED BY <1>1, <1>2, SameHashers

\* The file goes to a hasher of the list.
LEMMA QueueFileStep ==
  ASSUME QueueInvariant, NEW c \in Callers, QueueFile(c)
  PROVE  QueueInvariant' /\ KeptList /\ QuietStep
<1> DEFINE f == caller[c]
<1>0. /\ hashers \in Seq(Objects) /\ DOMAIN hasher = Objects /\ ListRuns /\ QueuedOnce
      /\ \A p \in Objects : Consistent(hasher[p], stops, closing)
      /\ Listed \subseteq Objects /\ f \in Files
  BY ListedObjects DEF QueueInvariant, OtherTypes, QueueFile
<1>1. getFileHasher(DeviceOf[f]) \subseteq Listed BY DEF getFileHasher, hasDevice
<1>2. PICK o \in Listed : /\ hasher[o].s < MaxSignals
                          /\ hasher' = [hasher EXCEPT ![o] = Queue(@, f)]
  BY <1>1 DEF QueueFile
<1>3. /\ hashers' = hashers /\ pausers' = pausers /\ isShutdown' = isShutdown
      /\ caller' = [caller EXCEPT ![c] = NoFile] /\ pauser' = pauser /\ closing' = closing
      /\ stops' = stops /\ ~isPathQueued(f)
  BY DEF QueueFile
<1>4. OtherTypes' BY <1>3 DEF OtherTypes, QueueInvariant
<1> DEFINE g == Queue(hasher[o], f)
<1>5. o \in Objects /\ \A p \in Listed : f \notin hasher[p].w BY <1>0, <1>3 DEF isPathQueued
<1>6. /\ Consistent(g, stops, closing) /\ g.w = hasher[o].w \cup {f} /\ g.pc = hasher[o].pc
      /\ g.id = hasher[o].id /\ g.paused = hasher[o].paused
      /\ g.isShutdown = hasher[o].isShutdown
  BY <1>0, <1>2, <1>5, QueueFacts
<1> HIDE DEF g
<1>7. /\ hasher' = [p \in Objects |-> hasher'[p]] /\ DOMAIN hasher' = Objects
      /\ hasher'[o] = g /\ \A p \in Objects : p # o => hasher'[p] = hasher[p]
  BY <1>0, <1>2, <1>5 DEF g
<1>8. \A p \in Objects : Consistent(hasher'[p], stops', closing') BY <1>0, <1>3, <1>6, <1>7
<1>9. Listed' = Listed BY <1>3 DEF Listed
<1>10. \A p \in Objects : /\ hasher'[p].pc = hasher[p].pc /\ hasher'[p].id = hasher[p].id
                          /\ hasher'[p].paused = hasher[p].paused
                          /\ hasher'[p].isShutdown = hasher[p].isShutdown
  BY <1>6, <1>7
<1>11. ListRuns' BY <1>0, <1>3, <1>9, <1>10 DEF ListRuns, Gone
<1>12. QueuedOnce'
  <2> SUFFICES ASSUME NEW p \in Listed, NEW q \in Listed, p # q
               PROVE  hasher'[p].w \cap hasher'[q].w = {}
    BY <1>9 DEF QueuedOnce
  <2>1. hasher[p].w \cap hasher[q].w = {} /\ f \notin hasher[p].w /\ f \notin hasher[q].w
    BY <1>0, <1>5 DEF QueuedOnce
  <2>2. CASE p = o
    BY <1>0, <1>6, <1>7, <2>1, <2>2
  <2>3. CASE q = o
    BY <1>0, <1>6, <1>7, <2>1, <2>3
  <2>4. CASE p # o /\ q # o BY <1>0, <1>7, <2>1, <2>4
  <2> QED BY <2>2, <2>3, <2>4
<1>13. KeptList BY <1>3, <1>10 DEF KeptList, Gone
<1>14. QuietStep BY <1>0, <1>3, <1>9, <1>10 DEF QuietStep
<1> QED BY <1>0, <1>3, <1>4, <1>7, <1>8, <1>11, <1>12, <1>13, <1>14 DEF QueueInvariant

\* A hasher is created for the file, paused when hashing is.
LEMMA CreateStep ==
  ASSUME QueueInvariant, NEW c \in Callers, createHasher(c)
  PROVE  QueueInvariant' /\ Created /\ QuietStep
<1> DEFINE f == caller[c]
<1>0. /\ hashers \in Seq(Objects) /\ DOMAIN hasher = Objects /\ ListRuns /\ QueuedOnce
      /\ \A p \in Objects : Consistent(hasher[p], stops, closing)
      /\ Listed \subseteq Objects /\ f \in Files /\ Len(hashers) \in Nat
      /\ DOMAIN hashers = 1..Len(hashers)
  BY ListedObjects DEF QueueInvariant, OtherTypes, createHasher
<1>1. PICK o \in Objects \ Alive, id \in 0..Len(hashers) :
        /\ IsNewId(id) /\ hashers' = Append(hashers, o)
        /\ hasher' = [hasher EXCEPT ![o] = Queue(Hasher(id, pausers > 0), f)]
  BY DEF createHasher
<1>2. /\ pausers' = pausers /\ isShutdown' = isShutdown
      /\ caller' = [caller EXCEPT ![c] = NoFile] /\ pauser' = pauser /\ closing' = closing
      /\ stops' = stops /\ ~isPathQueued(f) /\ WLock /\ ~TotalExceeded
  BY DEF createHasher, MayCreate
<1>3. OtherTypes' BY <1>2 DEF OtherTypes, QueueInvariant
<1>4. o \in Objects /\ hasher[o].pc = "free" /\ Gone(o) BY <1>1 DEF Alive, Gone
<1> DEFINE g == Queue(Hasher(id, pausers > 0), f)
<1>5. /\ Consistent(g, stops, closing) /\ g.w = {f} /\ g.pc = "wait" /\ g.id = id
      /\ g.paused = (pausers > 0) /\ g.isShutdown = FALSE
  <2>1. id \in Nat /\ (pausers > 0) \in BOOLEAN BY <1>0, <1>1
  <2> DEFINE n == Hasher(id, pausers > 0)
  <2>2. /\ Consistent(n, stops, closing) /\ n.pc = "wait" /\ n.id = id /\ n.w = {} /\ n.s = 0
        /\ n.paused = (pausers > 0) /\ n.isShutdown = FALSE
    BY <2>1, Constructed
  <2> HIDE DEF n
  <2>3. /\ Consistent(Queue(n, f), stops, closing) /\ Queue(n, f).w = n.w \cup {f}
        /\ Queue(n, f).pc = n.pc /\ Queue(n, f).id = n.id /\ Queue(n, f).paused = n.paused
        /\ Queue(n, f).isShutdown = n.isShutdown
    BY <1>0, <2>2, QueueFacts, BoundsAssumption
  <2>4. g = Queue(n, f) BY DEF n
  <2> HIDE DEF g
  <2> QED BY <2>2, <2>3, <2>4
<1> HIDE DEF g
<1>6. /\ hasher' = [p \in Objects |-> hasher'[p]] /\ DOMAIN hasher' = Objects
      /\ hasher'[o] = g /\ \A p \in Objects : p # o => hasher'[p] = hasher[p]
  BY <1>0, <1>1, <1>4 DEF g
<1>7. \A p \in Objects : Consistent(hasher'[p], stops', closing') BY <1>0, <1>2, <1>5, <1>6
<1>8. /\ hashers' \in Seq(Objects) /\ DOMAIN hashers' = 1..(Len(hashers) + 1)
      /\ \A i \in 1..Len(hashers) : hashers'[i] = hashers[i]
      /\ hashers'[Len(hashers) + 1] = o
  BY <1>0, <1>1, <1>4
<1>9. o \notin Listed BY <1>0, <1>4 DEF ListRuns
<1>10. Listed' = Listed \cup {o}
  <2>1. \A p \in Listed' : p \in Listed \cup {o} BY <1>0, <1>8 DEF Listed
  <2>2. \A p \in Listed \cup {o} : p \in Listed' BY <1>0, <1>8 DEF Listed
  <2> QED BY <2>1, <2>2
<1>11. \A p \in Listed : p \in Objects /\ p # o /\ hasher'[p] = hasher[p] BY <1>0, <1>6, <1>9
<1>12. ListRuns'
  <2>1. \A p \in Listed' : hasher'[p].pc \notin {"free", "delete"}
    BY <1>0, <1>5, <1>6, <1>10, <1>11 DEF ListRuns, Gone
  <2>2. \A i \in 1..Len(hashers) : hashers[i] # o BY <1>0, <1>9 DEF Listed
  <2>3. ASSUME NEW i \in DOMAIN hashers', NEW j \in DOMAIN hashers', hashers'[i] = hashers'[j]
        PROVE  i = j
    <3>1. \A k \in DOMAIN hashers' : k \in 1..Len(hashers) \/ k = Len(hashers) + 1
      BY <1>0, <1>8
    <3> QED BY <1>0, <1>8, <2>2, <2>3, <3>1 DEF ListRuns
  <2> QED BY <2>1, <2>3 DEF ListRuns, Gone
<1>13. QueuedOnce'
  <2> SUFFICES ASSUME NEW p \in Listed', NEW q \in Listed', p # q
               PROVE  hasher'[p].w \cap hasher'[q].w = {}
    BY DEF QueuedOnce
  <2>1. \A r \in Listed : f \notin hasher'[r].w BY <1>2, <1>11 DEF isPathQueued
  <2>2. CASE p = o
    BY <1>5, <1>6, <1>10, <2>1, <2>2
  <2>3. CASE q = o
    BY <1>5, <1>6, <1>10, <2>1, <2>3
  <2>4. CASE p # o /\ q # o
    BY <1>0, <1>10, <1>11, <2>4 DEF QueuedOnce
  <2> QED BY <2>2, <2>3, <2>4
<1>14. Created
  <2>1. Len(hashers) < MaxThreads BY <1>0, <1>2, LimitsAssumption DEF TotalExceeded
  <2>2. hasher' = [hasher EXCEPT ![o] = g] BY <1>1 DEF g
  <2> QED BY <1>1, <1>2, <1>4, <1>5, <2>1, <2>2 DEF Created
<1>15. QuietStep BY <1>2, <1>5, <1>6, <1>10, <1>11 DEF QuietStep
<1> QED BY <1>3, <1>6, <1>7, <1>8, <1>12, <1>13, <1>14, <1>15 DEF QueueInvariant

\* The hashers of the list change all at once: stopHashing, stop and shutdown.
LEMMA EveryStep ==
  ASSUME QueueInvariant, OtherTypes', hashers' = hashers, pauser' = pauser, pausers' = pausers,
         closing' \in {"no", "tell"} => closing \in {"no", "tell"},
         DOMAIN hasher' = Objects, hasher' = [p \in Objects |-> hasher'[p]],
         \A p \in Objects : /\ Consistent(hasher'[p], stops', closing')
                            /\ hasher'[p].w \subseteq hasher[p].w
                            /\ hasher'[p].pc = hasher[p].pc /\ hasher'[p].id = hasher[p].id
                            /\ \/ hasher'[p].isShutdown
                               \/ /\ hasher'[p].isShutdown = hasher[p].isShutdown
                                  /\ hasher'[p].paused = hasher[p].paused
  PROVE  QueueInvariant' /\ KeptList /\ QuietStep
<1>1. QueueInvariant' /\ KeptList BY EveryHasher DEF Gone
<1>2. Listed \subseteq Objects BY ListedObjects DEF QueueInvariant
<1>3. Listed' = Listed BY DEF Listed
<1> QED BY <1>1, <1>2, <1>3 DEF QuietStep

LEMMA StopSteps ==
  ASSUME QueueInvariant, stop \/ shutdown \/ (\E dir \in BaseDirs : stopHashing(dir))
  PROVE  QueueInvariant' /\ KeptList /\ QuietStep
<1>0. /\ OtherTypes /\ stops \in Nat /\ MaxStops \in Nat
      /\ \A p \in Objects : Consistent(hasher[p], stops, closing)
  BY BoundsAssumption DEF QueueInvariant, OtherTypes
<1>1. ASSUME NEW dir \in BaseDirs, stopHashing(dir)
      PROVE  QueueInvariant' /\ KeptList /\ QuietStep
  <2>1. /\ hashers' = hashers /\ pausers' = pausers /\ isShutdown' = isShutdown
        /\ caller' = caller /\ pauser' = pauser /\ closing' = closing /\ stops' = stops
        /\ hasher' = [o \in Objects |-> IF o \in Listed THEN Without(hasher[o], dir) ELSE hasher[o]]
    BY <1>1 DEF stopHashing, Others
  <2>2. OtherTypes' BY <1>0, <2>1 DEF OtherTypes
  <2>3. ASSUME NEW p \in Objects
        PROVE  /\ Consistent(hasher'[p], stops', closing')
               /\ hasher'[p].w \subseteq hasher[p].w
               /\ hasher'[p].pc = hasher[p].pc /\ hasher'[p].id = hasher[p].id
               /\ hasher'[p].isShutdown = hasher[p].isShutdown
               /\ hasher'[p].paused = hasher[p].paused
    <3>1. hasher'[p] = IF p \in Listed THEN Without(hasher[p], dir) ELSE hasher[p] BY <2>1
    <3>2. CASE p \in Listed BY <1>0, <2>1, <3>1, <3>2, WithoutFacts
    <3>3. CASE p \notin Listed BY <1>0, <2>1, <3>1, <3>3
    <3> QED BY <3>2, <3>3
  <2>4. DOMAIN hasher' = Objects /\ hasher' = [p \in Objects |-> hasher'[p]] BY <2>1
  <2> QED BY <2>1, <2>2, <2>3, <2>4, EveryStep
<1>2. CASE stop
  <2>1. /\ hashers' = hashers /\ pausers' = pausers /\ isShutdown' = isShutdown
        /\ caller' = caller /\ pauser' = pauser /\ closing' = closing /\ stops' = stops + 1
        /\ stops < MaxStops
        /\ hasher' = [o \in Objects |-> IF o \in Listed THEN Stopped(hasher[o]) ELSE hasher[o]]
    BY <1>2 DEF stop
  <2>2. OtherTypes' BY <1>0, <2>1 DEF OtherTypes
  <2>3. ASSUME NEW p \in Objects
        PROVE  /\ Consistent(hasher'[p], stops', closing')
               /\ hasher'[p].w \subseteq hasher[p].w
               /\ hasher'[p].pc = hasher[p].pc /\ hasher'[p].id = hasher[p].id
               /\ hasher'[p].isShutdown = hasher[p].isShutdown
               /\ hasher'[p].paused = hasher[p].paused
    <3>1. hasher'[p] = IF p \in Listed THEN Stopped(hasher[p]) ELSE hasher[p] BY <2>1
    <3>2. CASE p \in Listed BY <1>0, <2>1, <3>1, <3>2, StoppedFacts
    <3>3. CASE p \notin Listed BY <1>0, <2>1, <3>1, <3>3, StillConsistent
    <3> QED BY <3>2, <3>3
  <2>4. DOMAIN hasher' = Objects /\ hasher' = [p \in Objects |-> hasher'[p]] BY <2>1
  <2> QED BY <2>1, <2>2, <2>3, <2>4, EveryStep
<1>3. CASE beginShutdown
  <2>1. /\ hashers' = hashers /\ hasher' = hasher /\ pausers' = pausers /\ isShutdown' = TRUE
        /\ caller' = caller /\ pauser' = pauser /\ closing = "no" /\ closing' = "tell"
        /\ stops' = stops
    BY <1>3 DEF beginShutdown
  <2>2. OtherTypes' BY <1>0, <2>1 DEF OtherTypes
  <2> QED BY <2>1, <2>2, SameHashers
<1>4. CASE tellHashers
  <2>1. /\ hashers' = hashers /\ pausers' = pausers /\ isShutdown' = isShutdown
        /\ caller' = caller /\ pauser' = pauser /\ closing = "tell" /\ closing' = "wait"
        /\ stops' = stops
        /\ hasher' = [o \in Objects |-> IF o \in Listed THEN Told(hasher[o]) ELSE hasher[o]]
    BY <1>4 DEF tellHashers
  <2>2. OtherTypes' BY <1>0, <2>1 DEF OtherTypes
  <2>3. ASSUME NEW p \in Objects
        PROVE  /\ Consistent(hasher'[p], stops', closing')
               /\ hasher'[p].w \subseteq hasher[p].w
               /\ hasher'[p].pc = hasher[p].pc /\ hasher'[p].id = hasher[p].id
               /\ \/ hasher'[p].isShutdown
                  \/ /\ hasher'[p].isShutdown = hasher[p].isShutdown
                     /\ hasher'[p].paused = hasher[p].paused
    <3>1. hasher'[p] = IF p \in Listed THEN Told(hasher[p]) ELSE hasher[p] BY <2>1
    <3>2. CASE p \in Listed BY <1>0, <2>1, <3>1, <3>2, ToldFacts
    <3>3. CASE p \notin Listed BY <1>0, <2>1, <3>1, <3>3, StillConsistent
    <3> QED BY <3>2, <3>3
  <2>4. DOMAIN hasher' = Objects /\ hasher' = [p \in Objects |-> hasher'[p]] BY <2>1
  <2> QED BY <2>1, <2>2, <2>3, <2>4, EveryStep
<1>5. CASE hashersEmpty
  <2>1. /\ hashers' = hashers /\ hasher' = hasher /\ pausers' = pausers
        /\ isShutdown' = isShutdown
        /\ caller' = caller /\ pauser' = pauser /\ closing = "wait" /\ closing' = "done"
        /\ stops' = stops
    BY <1>5 DEF hashersEmpty
  <2>2. OtherTypes' BY <1>0, <2>1 DEF OtherTypes
  <2> QED BY <2>1, <2>2, SameHashers
<1> QED BY <1>1, <1>2, <1>3, <1>4, <1>5 DEF shutdown

\* The flags that pause a hasher have nothing to do with its queue.
LEMMA FlagStep ==
  ASSUME QueueInvariant, OtherTypes', NEW o \in Objects,
         NEW paused \in BOOLEAN, NEW suspended \in BOOLEAN, NEW g,
         g = [hasher[o] EXCEPT !.paused = paused, !.suspended = suspended],
         hasher' = [hasher EXCEPT ![o] = g],
         hashers' = hashers, closing' = closing, stops' = stops
  PROVE  /\ QueueInvariant' /\ KeptList /\ Listed' = Listed
         /\ hasher'[o].paused = paused /\ hasher'[o].isShutdown = hasher[o].isShutdown
         /\ \A p \in Objects : p # o => hasher'[p] = hasher[p]
<1> DEFINE h == hasher[o]
<1>0. Consistent(h, stops, closing) /\ h \in HasherType BY DEF QueueInvariant, Consistent
<1>1. g \in HasherType BY <1>0 DEF HasherType
<1>2. /\ g.w = h.w /\ g.devices = h.devices /\ g.cur = h.cur /\ g.pc = h.pc /\ g.s = h.s
      /\ g.isShutdown = h.isShutdown /\ g.stopping = h.stopping /\ g.id = h.id
  BY <1>0 DEF HasherType
<1>3. g.paused = paused BY <1>0 DEF HasherType
<1>4. h.s \in Nat /\ h.stopping \in BOOLEAN BY <1>0, HasherFields
<1>5. GoesToWait(g) <=> GoesToWait(h) BY <1>2 DEF GoesToWait
<1>6. Consistent(g, stops, closing)
  <2>1. h.stopping \/ ~g.stopping BY <1>2, <1>4
  <2>2. g.s <= h.s BY <1>2, <1>4
  <2> QED BY <1>0, <1>1, <1>2, <1>5, <2>1, <2>2, Moves
<1>7. g.pc \in {"free", "delete"} <=> Gone(o) BY <1>2 DEF Gone
<1>8. /\ QueueInvariant' /\ KeptList /\ Listed' = Listed
      /\ hasher'[o] = g /\ \A p \in Objects : p # o => hasher'[p] = hasher[p]
  BY <1>2, <1>6, <1>7, OneHasher
<1> QED BY <1>2, <1>3, <1>8

\* The fields of a thread that pauses.
LEMMA PauserFields ==
  /\ NoPause \in PauserType /\ NoPause.pc = "idle" /\ NoPause.value = 0 /\ NoPause.todo = {}
  /\ \A r \in PauserType : /\ r.value \in Nat /\ r.todo \in SUBSET Objects
                           /\ r.pc \in {"idle", "add", "added", "pausing", "held", "sub",
                                        "subtracted", "resuming"}
BY DEF NoPause, PauserType

\* The steps of a thread that pauses: what it is about to do next (r), the
\* counter, and the flags of at most one hasher.
PauseStep(p) ==
  \E r \in PauserType, n \in Nat :
    /\ pauser' = [pauser EXCEPT ![p] = r] /\ pausers' = n
    /\ \/ hasher' = hasher
       \/ \E o \in pauser[p].todo, paused \in BOOLEAN, suspended \in BOOLEAN :
            hasher' = [hasher EXCEPT ![o] = [hasher[o] EXCEPT !.paused = paused,
                                                             !.suspended = suspended]]
    /\ UNCHANGED <<hashers, isShutdown, caller, closing, stops>>

LEMMA PauseStepShape ==
  ASSUME QueueInvariant, NEW p \in Pausers,
         loadPause(p) \/ forceResume(p) \/ HashPauser(p)
  PROVE  PauseStep(p)
<1> DEFINE q == pauser[p]
<1>0. /\ q \in PauserType /\ q.value \in Nat /\ q.todo \in SUBSET Objects
      /\ pausers \in Nat /\ DOMAIN hasher = Objects /\ Listed \in SUBSET Objects
      /\ \A o \in Objects : hasher[o] \in HasherType
  BY PauserFields, ListedObjects DEF QueueInvariant, OtherTypes, Consistent
<1>1. CASE loadPause(p)
  <2>1. [NoPause EXCEPT !.pc = "add", !.value = pausers] \in PauserType
    BY <1>0 DEF PauserType, NoPause
  <2> QED BY <1>0, <1>1, <2>1 DEF loadPause, PauseStep
<1>2. CASE forceResume(p)
  <2>1. [NoPause EXCEPT !.pc = "subtracted"] \in PauserType BY DEF PauserType, NoPause
  <2> QED BY <1>2, <2>1 DEF forceResume, PauseStep
<1>3. CASE storePause(p)
  <2> DEFINE r == [q EXCEPT !.pc = "added", !.value = q.value + 1]
  <2>0. q.value + 1 \in Nat BY <1>0
  <2>1. r \in PauserType BY <1>0, <2>0 DEF PauserType
  <2>2. pauser' = [pauser EXCEPT ![p] = r] /\ pausers' = q.value + 1
    BY <1>3 DEF storePause, QueueInvariant, OtherTypes
  <2> HIDE DEF r
  <2> QED BY <1>3, <2>0, <2>1, <2>2 DEF storePause, PauseStep
<1>4. CASE testPause(p)
  <2>1. /\ [NoPause EXCEPT !.pc = "held"] \in PauserType
        /\ [NoPause EXCEPT !.pc = "pausing", !.todo = Listed] \in PauserType
    BY <1>0 DEF PauserType, NoPause
  <2>2. PICK r \in PauserType : pauser' = [pauser EXCEPT ![p] = r]
    BY <1>4, <2>1 DEF testPause
  <2> QED BY <1>0, <1>4, <2>2 DEF testPause, PauseStep
<1>5. CASE pause(p)
  <2>1. PICK o \in q.todo :
          /\ hasher' = [hasher EXCEPT ![o].paused = TRUE]
          /\ pauser' = [pauser EXCEPT ![p] =
               IF q.todo = {o} THEN [NoPause EXCEPT !.pc = "held"]
                               ELSE [q EXCEPT !.todo = q.todo \ {o}]]
    BY <1>5 DEF pause
  <2>2. /\ [NoPause EXCEPT !.pc = "held"] \in PauserType
        /\ [q EXCEPT !.todo = q.todo \ {o}] \in PauserType
    BY <1>0 DEF PauserType, NoPause
  <2> DEFINE r == IF q.todo = {o} THEN [NoPause EXCEPT !.pc = "held"] ELSE [q EXCEPT !.todo = q.todo \ {o}]
  <2>3. r \in PauserType BY <2>2
  <2>6. pauser' = [pauser EXCEPT ![p] = r] BY <2>1
  <2> HIDE DEF r
  <2>4. hasher' = [hasher EXCEPT ![o] = [hasher[o] EXCEPT !.paused = TRUE,
                                                         !.suspended = hasher[o].suspended]]
    <3>1. o \in Objects /\ hasher[o] \in HasherType BY <1>0
    <3>2. [hasher[o] EXCEPT !.paused = TRUE] =
            [hasher[o] EXCEPT !.paused = TRUE, !.suspended = hasher[o].suspended]
      BY <3>1 DEF HasherType
    <3> QED BY <1>0, <2>1, <3>1, <3>2
  <2>5. hasher[o].suspended \in BOOLEAN BY <1>0, HasherFields
  <2> QED BY <1>0, <1>5, <2>3, <2>4, <2>5, <2>6 DEF pause, PauseStep
<1>6. CASE loadResume(p)
  <2>1. [NoPause EXCEPT !.pc = "sub", !.value = pausers] \in PauserType
    BY <1>0 DEF PauserType, NoPause
  <2> QED BY <1>0, <1>6, <2>1 DEF loadResume, PauseStep
<1>7. CASE storeResume(p)
  <2> DEFINE v == IF q.value > 0 THEN q.value - 1 ELSE 0
             r == [q EXCEPT !.pc = "subtracted", !.value = v]
  <2>1. v \in Nat /\ (IF q.value > 0 THEN q.value - 1 ELSE pausers) \in Nat BY <1>0
  <2>2. pauser' = [pauser EXCEPT ![p] = r]
    BY <1>7 DEF storeResume, QueueInvariant, OtherTypes
  <2> HIDE DEF v
  <2>3. r \in PauserType BY <1>0, <2>1 DEF PauserType
  <2> HIDE DEF r
  <2> QED BY <1>7, <2>1, <2>2, <2>3 DEF storeResume, PauseStep
<1>8. CASE testResume(p)
  <2>1. [NoPause EXCEPT !.pc = "resuming", !.todo = Listed] \in PauserType
    BY <1>0 DEF PauserType, NoPause
  <2>2. PICK r \in PauserType : pauser' = [pauser EXCEPT ![p] = r]
    BY <1>8, <2>1, PauserFields DEF testResume
  <2> QED BY <1>0, <1>8, <2>2 DEF testResume, PauseStep
<1>9. CASE resume(p)
  <2>1. PICK o \in q.todo :
          /\ hasher' = [hasher EXCEPT ![o].paused = FALSE, ![o].suspended = FALSE]
          /\ pauser' = [pauser EXCEPT ![p] =
               IF q.todo = {o} THEN NoPause ELSE [q EXCEPT !.todo = q.todo \ {o}]]
    BY <1>9 DEF resume
  <2>2. [q EXCEPT !.todo = q.todo \ {o}] \in PauserType BY <1>0 DEF PauserType
  <2> DEFINE r == IF q.todo = {o} THEN NoPause ELSE [q EXCEPT !.todo = q.todo \ {o}]
  <2>3. r \in PauserType BY <2>2, PauserFields
  <2>6. pauser' = [pauser EXCEPT ![p] = r] BY <2>1
  <2> HIDE DEF r
  <2>4. hasher' = [hasher EXCEPT ![o] = [hasher[o] EXCEPT !.paused = FALSE, !.suspended = FALSE]]
    BY <1>0, <2>1
  <2> QED BY <1>0, <1>9, <2>3, <2>4, <2>6 DEF resume, PauseStep
<1> QED BY <1>1, <1>2, <1>3, <1>4, <1>5, <1>6, <1>7, <1>8, <1>9 DEF HashPauser

LEMMA PauseSteps ==
  ASSUME QueueInvariant, NEW p \in Pausers, PauseStep(p)
  PROVE  QueueInvariant' /\ KeptList /\ Listed' = Listed
<1>1. PICK r \in PauserType, n \in Nat :
    /\ pauser' = [pauser EXCEPT ![p] = r] /\ pausers' = n
    /\ \/ hasher' = hasher
       \/ \E o \in pauser[p].todo, paused \in BOOLEAN, suspended \in BOOLEAN :
            hasher' = [hasher EXCEPT ![o] = [hasher[o] EXCEPT !.paused = paused,
                                                             !.suspended = suspended]]
    /\ UNCHANGED <<hashers, isShutdown, caller, closing, stops>>
  BY DEF PauseStep
<1>2. OtherTypes' BY <1>1 DEF OtherTypes, QueueInvariant
<1>3. CASE hasher' = hasher BY <1>1, <1>2, <1>3, SameHashers
<1>4. ASSUME NEW o \in pauser[p].todo, NEW paused \in BOOLEAN, NEW suspended \in BOOLEAN,
             hasher' = [hasher EXCEPT ![o] = [hasher[o] EXCEPT !.paused = paused,
                                                              !.suspended = suspended]]
      PROVE  QueueInvariant' /\ KeptList /\ Listed' = Listed
  <2>1. o \in Objects BY PauserFields DEF QueueInvariant, OtherTypes
  <2> QED BY <1>1, <1>2, <1>4, <2>1, FlagStep
<1> QED BY <1>1, <1>3, <1>4

-----------------------------------------------------------------------------
(* The queues, the volumes and the signals *)

LEMMA QueueInit == Init => QueueInvariant
<1> SUFFICES ASSUME Init PROVE QueueInvariant OBVIOUS
<1>1. PICK o \in Objects :
        /\ hashers = <<o>>
        /\ hasher = [p \in Objects |-> IF p = o THEN Hasher(0, FALSE) ELSE Free]
  BY DEF Init
<1>2. /\ pausers = 0 /\ isShutdown = FALSE /\ caller = [c \in Callers |-> NoFile]
      /\ pauser = [p \in Pausers |-> NoPause] /\ closing = "no" /\ stops = 0
  BY DEF Init
<1>3. OtherTypes
  <2>1. pauser \in [Pausers -> PauserType] BY <1>2, PauserFields
  <2>2. caller \in [Callers -> Files \cup {NoFile}] BY <1>2
  <2>3. stops \in 0..MaxStops BY <1>2, BoundsAssumption
  <2> QED BY <1>2, <2>1, <2>2, <2>3 DEF OtherTypes
<1>4. Consistent(Hasher(0, FALSE), 0, "no") /\ Consistent(Free, 0, "no")
      /\ Hasher(0, FALSE).pc = "wait"
  BY Constructed
<1>5. /\ DOMAIN hasher = Objects /\ hasher = [p \in Objects |-> hasher[p]]
      /\ hasher[o] = Hasher(0, FALSE) /\ \A p \in Objects : p # o => hasher[p] = Free
  BY <1>1
<1>6. \A p \in Objects : Consistent(hasher[p], stops, closing) BY <1>2, <1>4, <1>5
<1>7. /\ hashers \in Seq(Objects) /\ DOMAIN hashers = {1} /\ hashers[1] = o /\ Listed = {o}
  <2>1. hashers \in Seq(Objects) /\ Len(hashers) = 1 /\ hashers[1] = o BY <1>1
  <2>2. DOMAIN hashers = {1} BY <2>1
  <2> QED BY <2>1, <2>2 DEF Listed
<1>8. ListRuns BY <1>4, <1>5, <1>7 DEF ListRuns, Gone
<1>9. QueuedOnce BY <1>7 DEF QueuedOnce
<1> QED BY <1>3, <1>5, <1>6, <1>7, <1>8, <1>9 DEF QueueInvariant

\* Every step keeps the invariant of the queues, and changes the list in one of
\* three ways.
LEMMA QueueNext ==
  ASSUME QueueInvariant, Next
  PROVE  /\ QueueInvariant' /\ ListStep
         /\ QuietStep \/ \E p \in Pausers :
              (loadPause(p) \/ forceResume(p) \/ HashPauser(p)) /\ Listed' = Listed
<1>1. ASSUME NEW c \in Callers, CallerStep(c) \/ \E f \in Files : hashFile(c, f)
      PROVE  QueueInvariant' /\ ListStep /\ QuietStep
  BY <1>1, CallerKeepsHashers, QueueFileStep, CreateStep DEF CallerStep, ListStep
<1>2. ASSUME NEW o \in Objects, run(o) PROVE QueueInvariant' /\ ListStep /\ QuietStep
  BY <1>2, RunKeepsList, DeleteKeepsList, RemoveStep DEF ListStep
<1>3. CASE stop \/ shutdown \/ \E dir \in BaseDirs : stopHashing(dir)
  BY <1>3, StopSteps DEF ListStep
<1>4. ASSUME NEW p \in Pausers, loadPause(p) \/ forceResume(p) \/ HashPauser(p)
      PROVE  QueueInvariant' /\ ListStep /\ Listed' = Listed
  BY <1>4, PauseStepShape, PauseSteps DEF ListStep
<1> QED BY <1>1, <1>2, <1>3, <1>4 DEF Next

LEMMA QueueStutter == QueueInvariant /\ UNCHANGED vars => QueueInvariant'
<1> SUFFICES ASSUME QueueInvariant, UNCHANGED vars PROVE QueueInvariant' OBVIOUS
<1>1. OtherTypes' BY DEF QueueInvariant, OtherTypes, vars
<1> QED BY <1>1, SameHashers DEF vars

LEMMA QueueInvariantHolds == Spec => []QueueInvariant
<1>1. QueueInvariant /\ [Next]_vars => QueueInvariant' BY QueueNext, QueueStutter
<1> QED BY <1>1, QueueInit, PTL DEF Spec

\* What the invariant says of the files that wait.
LEMMA QueuesFollow ==
  ASSUME QueueInvariant
  PROVE  TypeOK /\ QueuedOnce /\ DevicesCounted /\ SignalLeft
<1>1. TypeOK
  <2>1. \A o \in Objects : hasher[o] \in HasherType BY DEF QueueInvariant, Consistent
  <2>2. hasher \in [Objects -> HasherType] BY <2>1 DEF QueueInvariant
  <2> QED BY <2>2 DEF QueueInvariant, OtherTypes, TypeOK
<1>2. ASSUME NEW o \in Objects, NEW d \in Devices
      PROVE  /\ hasher[o].devices[d] <=
                  FilesOn(o, d) + IF hasher[o].cur \in hasher[o].w THEN 1 ELSE 0
             /\ stops = 0 /\ ~hasher[o].isShutdown => hasher[o].devices[d] >= FilesOn(o, d)
  <2> DEFINE h == hasher[o]
             n == Cardinality(Waiting(h, d))
             One == IF h.pc = "hash" /\ DeviceOf[h.cur] = d THEN 1 ELSE 0
  <2>1. /\ h \in HasherType /\ IsFiniteSet(h.w) /\ Counts(h, stops) /\ h.w \in SUBSET Files
        /\ h.cur \in Files \cup {NoFile} /\ h.devices \in [Devices -> Nat]
    BY HasherFields DEF QueueInvariant, Consistent
  <2>2. h.cur # NoFile <=> h.pc = "hash" BY DEF QueueInvariant, Consistent
  <2>3. n \in Nat /\ Load(h, d) = n + One /\ h.devices[d] \in Nat BY <2>1, LoadType DEF Load
  <2>4. /\ h.devices[d] <= n + One
        /\ stops = 0 /\ ~h.isShutdown => h.devices[d] = n + One
    BY <2>1, <2>3 DEF Counts
  <2>5. FilesOn(o, d) = IF h.cur \in h.w THEN n ELSE n + One
    <3>1. CASE h.cur \in h.w \/ h.cur = NoFile
      <4>1. {f \in h.w \cup {h.cur} : f # NoFile /\ DeviceOf[f] = d} = Waiting(h, d)
        BY <2>1, <3>1, FilesAssumption DEF Waiting
      <4>2. FilesOn(o, d) = n BY <4>1 DEF FilesOn
      <4> QED BY <2>2, <2>3, <3>1, <4>2
    <3>2. CASE h.cur \notin h.w /\ h.cur # NoFile
      <4>1. {f \in h.w \cup {h.cur} : f # NoFile /\ DeviceOf[f] = d} =
              {f \in h.w \cup {h.cur} : DeviceOf[f] = d}
        BY <2>1, <3>2, FilesAssumption
      <4>2. Cardinality({f \in h.w \cup {h.cur} : DeviceOf[f] = d}) = n + One
        <5> DEFINE On(X) == {f \in X : DeviceOf[f] = d}
        <5>1. \A f \in Files \ h.w : Cardinality(On(h.w \cup {f})) =
                Cardinality(On(h.w)) + (IF DeviceOf[f] = d THEN 1 ELSE 0)
          BY <2>1, OnVolume, Zenon
        <5>2. On(h.w) = Waiting(h, d) BY DEF Waiting
        <5>3. h.cur \in Files \ h.w BY <2>1, <3>2
        <5> HIDE DEF On
        <5>4. Cardinality(On(h.w \cup {h.cur})) = n + One BY <2>2, <3>2, <5>1, <5>2, <5>3
        <5> QED BY <5>4 DEF On
      <4> QED BY <3>2, <4>1, <4>2 DEF FilesOn
    <3> QED BY <3>1, <3>2
  <2>6. One \in {0, 1} OBVIOUS
  <2> HIDE DEF n, One
  <2> QED BY <2>3, <2>4, <2>5, <2>6
<1>3. DevicesCounted BY <1>2 DEF DevicesCounted
<1>4. SignalLeft BY DEF QueueInvariant, Consistent, GoesToWait, SignalLeft, Alive
<1> QED BY <1>1, <1>3, <1>4 DEF QueueInvariant

\* hash/HashManager.cpp and hash/Hasher.cpp: every variable keeps its type; above
\* all no count of a volume goes below zero, and a semaphore never holds more
\* than one signal beyond those of the files.
THEOREM TypeCorrect == Spec => []TypeOK
BY QueueInvariantHolds, QueuesFollow, PTL

\* However many threads hash, a path waits in one queue at most, the counts by
\* which getFileHasher chooses are those of the files, and a hasher that has
\* not been stopped never sleeps on its queue.
THEOREM QueuesRight == Spec => [](QueuedOnce /\ DevicesCounted /\ SignalLeft)
BY QueueInvariantHolds, QueuesFollow, PTL

-----------------------------------------------------------------------------
(* The list and the numbers *)

\* Until shutdown takes the lock there are no more hashers than threads allowed.
Short == closing \in {"no", "tell"} => Len(hashers) <= MaxThreads

\* The parts of ListedRun.
NumbersDiffer ==
  /\ Len(hashers) > 0 /\ hasher[hashers[1]].id = 0
  /\ \A i, j \in DOMAIN hashers :
       hasher[hashers[i]].id = hasher[hashers[j]].id => i = j

LEMMA ListedRunParts ==
  ASSUME hashers \in Seq(Objects)
  PROVE  ListedRun <=> (closing \in {"no", "tell"} =>
           Listed = {o \in Objects : ~Gone(o)} /\ NumbersDiffer)
<1>1. {o \in Alive : hasher[o].pc # "delete"} = {o \in Objects : ~Gone(o)}
  BY DEF Alive, Gone
<1>2. hashers # <<>> <=> Len(hashers) > 0 OBVIOUS
<1> QED BY <1>1, <1>2 DEF ListedRun, NumbersDiffer

LEMMA ListedRunNext ==
  ASSUME hashers' \in Seq(Objects),
         closing' \in {"no", "tell"} => Listed' = {o \in Objects : ~Gone(o)'} /\ NumbersDiffer'
  PROVE  ListedRun'
<1>1. {o \in Alive' : hasher'[o].pc # "delete"} = {o \in Objects : ~Gone(o)'}
  BY DEF Alive, Gone
<1>2. hashers' # <<>> <=> Len(hashers') > 0 OBVIOUS
<1> QED BY <1>1, <1>2 DEF ListedRun, NumbersDiffer

\* With at most two hashers, the first of them number 0, the number of a new
\* one is not in use.  Behind the numbers 0 and 2, number 1 comes third, and
\* with three in the list it would be given a second time.
LEMMA NewNumber ==
  ASSUME hashers \in Seq(Objects), NumbersDiffer, Len(hashers) <= 2,
         NEW id \in 0..Len(hashers), IsNewId(id)
  PROVE  /\ id # 0
         /\ \A i \in DOMAIN hashers : hasher[hashers[i]].id # id
<1>0. /\ Len(hashers) \in {1, 2} /\ DOMAIN hashers = 1..Len(hashers)
      /\ hasher[hashers[1]].id = 0
  <2>1. Len(hashers) > 0 /\ hasher[hashers[1]].id = 0 BY DEF NumbersDiffer
  <2>2. Len(hashers) \in Nat /\ DOMAIN hashers = 1..Len(hashers) BY ListedObjects
  <2>3. Len(hashers) \in {1, 2} BY <2>1, <2>2
  <2> QED BY <2>1, <2>2, <2>3
<1>1. id # 0
  <2>1. id = 0 => hasher[hashers[0 + 1]].id # 0 BY <1>0 DEF IsNewId
  <2> QED BY <1>0, <2>1
<1>2. CASE Len(hashers) = 1 BY <1>0, <1>1, <1>2
<1>3. CASE Len(hashers) = 2
  <2>1. \A i \in DOMAIN hashers : i \in {1, 2} BY <1>0, <1>3
  <2>2. hasher[hashers[2]].id # 0
    <3>1. 1 \in DOMAIN hashers /\ 2 \in DOMAIN hashers BY <1>0, <1>3
    <3> QED BY <1>0, <3>1 DEF NumbersDiffer
  <2>3. CASE id = 1
    <3>1. hasher[hashers[1 + 1]].id # 1 BY <1>3, <2>3 DEF IsNewId
    <3> QED BY <1>0, <2>1, <2>3, <3>1
  <2>4. CASE id = 2
    <3>1. 2 \in 1..id BY <2>4
    <3>2. hasher[hashers[2]].id = 2 - 1 BY <3>1 DEF IsNewId
    <3> QED BY <1>0, <2>1, <2>4, <3>2
  <2> QED BY <1>1, <1>3, <2>3, <2>4
<1> QED BY <1>0, <1>1, <1>2, <1>3

LEMMA ListKept ==
  ASSUME QueueInvariant, QueueInvariant', ListedRun, Short, KeptList
  PROVE  ListedRun' /\ Short'
<1>0. hashers \in Seq(Objects) /\ hashers' \in Seq(Objects) /\ ListRuns /\ Listed \subseteq Objects
  BY ListedObjects DEF QueueInvariant
<1>1. Short' BY DEF KeptList, Short
<1> SUFFICES ASSUME closing' \in {"no", "tell"}
             PROVE  Listed' = {o \in Objects : ~Gone(o)'} /\ NumbersDiffer'
  BY <1>0, <1>1, ListedRunNext
<1>2. closing \in {"no", "tell"} /\ hashers' = hashers BY DEF KeptList
<1>3. Listed = {o \in Objects : ~Gone(o)} /\ NumbersDiffer BY <1>0, <1>2, ListedRunParts
<1>4. Listed' = Listed BY <1>2 DEF Listed
<1>5. Listed' = {o \in Objects : ~Gone(o)'} BY <1>3, <1>4 DEF KeptList
<1>6. \A i \in DOMAIN hashers : hasher'[hashers[i]].id = hasher[hashers[i]].id
  BY <1>0 DEF KeptList, ListRuns, Listed
<1>7. NumbersDiffer'
  <2>1. 1 \in DOMAIN hashers BY <1>0, <1>3 DEF NumbersDiffer
  <2> QED BY <1>2, <1>3, <1>6, <2>1 DEF NumbersDiffer
<1> QED BY <1>5, <1>7

LEMMA ListCreated ==
  ASSUME MaxThreads <= 3, QueueInvariant, QueueInvariant', ListedRun, Short, Created
  PROVE  ListedRun' /\ Short'
<1>0. /\ hashers \in Seq(Objects) /\ hashers' \in Seq(Objects) /\ ListRuns
      /\ Listed \subseteq Objects /\ Len(hashers) \in Nat /\ DOMAIN hashers = 1..Len(hashers)
      /\ DOMAIN hasher = Objects
  BY ListedObjects DEF QueueInvariant
<1>1. PICK o \in Objects, id \in 0..Len(hashers) : \E g :
        /\ Gone(o) /\ hasher[o].pc = "free" /\ Len(hashers) < MaxThreads /\ IsNewId(id)
        /\ hashers' = Append(hashers, o) /\ closing' = closing
        /\ hasher' = [hasher EXCEPT ![o] = g] /\ g.id = id /\ g.pc = "wait"
  BY DEF Created
<1> DEFINE g == hasher'[o]
<1>a. /\ Gone(o) /\ hasher[o].pc = "free" /\ Len(hashers) < MaxThreads /\ IsNewId(id)
      /\ hashers' = Append(hashers, o) /\ closing' = closing
      /\ \A p \in Objects : p # o => hasher'[p] = hasher[p]
      /\ g.id = id /\ g.pc = "wait"
  BY <1>0, <1>1
<1> HIDE DEF g
<1>2. /\ Len(hashers') = Len(hashers) + 1 /\ DOMAIN hashers' = 1..(Len(hashers) + 1)
      /\ \A i \in 1..Len(hashers) : hashers'[i] = hashers[i]
      /\ hashers'[Len(hashers) + 1] = o
  BY <1>0, <1>a
<1>3. Short' BY <1>0, <1>a, <1>2, LimitsAssumption DEF Short
<1> SUFFICES ASSUME closing' \in {"no", "tell"}
             PROVE  Listed' = {p \in Objects : ~Gone(p)'} /\ NumbersDiffer'
  BY <1>0, <1>3, ListedRunNext
<1>4. Listed = {p \in Objects : ~Gone(p)} /\ NumbersDiffer BY <1>0, <1>a, ListedRunParts
<1>5. hasher'[o] = g /\ \A p \in Objects : p # o => hasher'[p] = hasher[p] BY <1>a DEF g
<1>6. Listed' = Listed \cup {o}
  <2>1. \A p \in Listed' : p \in Listed \cup {o} BY <1>0, <1>2 DEF Listed
  <2>2. \A p \in Listed \cup {o} : p \in Listed' BY <1>0, <1>2 DEF Listed
  <2> QED BY <2>1, <2>2
<1>7. \A p \in Objects : ~Gone(p)' <=> p = o \/ ~Gone(p)
  BY <1>a, <1>5 DEF Gone
<1>8. Listed' = {p \in Objects : ~Gone(p)'} BY <1>0, <1>4, <1>6, <1>7
<1>9. id # 0 /\ \A i \in DOMAIN hashers : hasher[hashers[i]].id # id
  <2>1. Len(hashers) <= 2 BY <1>0, <1>a, LimitsAssumption
  <2> QED BY <1>0, <1>a, <1>4, <2>1, NewNumber
<1>10. \A i \in DOMAIN hashers : /\ hashers'[i] = hashers[i] /\ hashers[i] # o
                                 /\ hasher'[hashers'[i]].id = hasher[hashers[i]].id
  <2> TAKE i \in DOMAIN hashers
  <2>1. hashers[i] \in Listed /\ hashers[i] \in Objects BY <1>0 DEF Listed
  <2>2. hashers[i] # o BY <1>a, <1>4, <2>1
  <2> QED BY <1>0, <1>2, <1>5, <2>1, <2>2
<1>11. NumbersDiffer'
  <2>1. Len(hashers) > 0 /\ hasher[hashers[1]].id = 0 BY <1>4 DEF NumbersDiffer
  <2>2. Len(hashers') > 0 /\ 1 \in DOMAIN hashers BY <1>0, <1>2, <2>1
  <2>3. hasher'[hashers'[1]].id = 0 BY <1>10, <2>1, <2>2
  <2>4. hasher'[hashers'[Len(hashers) + 1]].id = id BY <1>a, <1>2, <1>5
  <2>5. ASSUME NEW i \in DOMAIN hashers', NEW j \in DOMAIN hashers',
               hasher'[hashers'[i]].id = hasher'[hashers'[j]].id
        PROVE  i = j
    <3>1. \A k \in DOMAIN hashers' : k \in DOMAIN hashers \/ k = Len(hashers) + 1
      BY <1>0, <1>2
    <3>2. CASE i \in DOMAIN hashers /\ j \in DOMAIN hashers
      BY <1>4, <1>10, <2>5, <3>2 DEF NumbersDiffer
    <3>3. CASE i = Len(hashers) + 1 /\ j \in DOMAIN hashers BY <1>9, <1>10, <2>4, <2>5, <3>3
    <3>4. CASE i \in DOMAIN hashers /\ j = Len(hashers) + 1 BY <1>9, <1>10, <2>4, <2>5, <3>4
    <3> QED BY <3>1, <3>2, <3>3, <3>4
  <2> QED BY <2>2, <2>3, <2>5 DEF NumbersDiffer
<1> QED BY <1>8, <1>11

LEMMA ListRemoved ==
  ASSUME QueueInvariant, QueueInvariant', ListedRun, Short, Removed
  PROVE  ListedRun' /\ Short'
<1>0. /\ hashers \in Seq(Objects) /\ hashers' \in Seq(Objects) /\ ListRuns
      /\ Listed \subseteq Objects /\ Len(hashers) \in Nat /\ DOMAIN hashers = 1..Len(hashers)
      /\ DOMAIN hasher = Objects /\ \A p \in Objects : hasher[p] \in HasherType
  BY ListedObjects DEF QueueInvariant, Consistent
<1>1. PICK o \in Objects :
        /\ hasher[o].pc = "end" /\ EndsRun(o) /\ closing' = closing
        /\ hashers' = Filter(hashers, {h \in Objects : hasher[h].id # hasher[o].id})
        /\ hasher' = [hasher EXCEPT ![o] = [hasher[o] EXCEPT !.pc = "delete"]]
  BY DEF Removed
<1> DEFINE K == {h \in Objects : hasher[h].id # hasher[o].id}
           F == Filter(hashers, K)
<1>2. /\ Len(F) <= Len(hashers) /\ \A k \in DOMAIN F : F[k] \in K
      /\ \A k \in DOMAIN F : \E i \in DOMAIN hashers : F[k] = hashers[i]
      /\ \A i \in DOMAIN hashers : hashers[i] \in K => \E k \in DOMAIN F : F[k] = hashers[i]
      /\ Len(hashers) > 0 /\ hashers[1] \in K => Len(F) > 0 /\ F[1] = hashers[1]
      /\ \A k, l \in DOMAIN F : F[k] = F[l] => k = l
  <2>1. \A i, j \in DOMAIN hashers : hashers[i] = hashers[j] => i = j BY <1>0 DEF ListRuns
  <2> HIDE DEF K
  <2>2. /\ Len(F) <= Len(hashers) /\ \A k \in DOMAIN F : F[k] \in K
        /\ \A k \in DOMAIN F : \E i \in DOMAIN hashers : F[k] = hashers[i]
        /\ \A i \in DOMAIN hashers : hashers[i] \in K => \E k \in DOMAIN F : F[k] = hashers[i]
    BY <1>0, FilterProperties
  <2>3. Len(hashers) > 0 /\ hashers[1] \in K => Len(F) > 0 /\ F[1] = hashers[1]
    BY <1>0, FilterProperties
  <2>4. \A k, l \in DOMAIN F : F[k] = F[l] => k = l BY <1>0, <2>1, FilterProperties
  <2> QED BY <2>2, <2>3, <2>4
<1>3. hashers' = F BY <1>1
<1> HIDE DEF F
<1>4. Short' BY <1>0, <1>1, <1>2, <1>3, LimitsAssumption DEF Short
<1> SUFFICES ASSUME closing' \in {"no", "tell"}
             PROVE  Listed' = {p \in Objects : ~Gone(p)'} /\ NumbersDiffer'
  BY <1>0, <1>4, ListedRunNext
<1>5. Listed = {p \in Objects : ~Gone(p)} /\ NumbersDiffer BY <1>0, <1>1, ListedRunParts
<1>6. /\ hasher'[o].pc = "delete" /\ \A p \in Objects : p # o => hasher'[p] = hasher[p]
      /\ hasher[o].id # 0
  <2>1. hasher'[o] = [hasher[o] EXCEPT !.pc = "delete"] /\ hasher[o] \in HasherType BY <1>0, <1>1
  <2>2. hasher'[o].pc = "delete" BY <2>1 DEF HasherType
  <2>3. ~hasher[o].isShutdown BY <1>1 DEF QueueInvariant, Consistent
  <2>4. hasher[o].id # 0 BY <1>1, <2>3 DEF EndsRun
  <2> QED BY <1>0, <1>1, <2>2, <2>4
<1>7. o \in Listed BY <1>1, <1>5 DEF Gone
<1>8. \A p \in Listed : p # o => p \in K
  <2> SUFFICES ASSUME NEW p \in Listed, hasher[p].id = hasher[o].id PROVE p = o
    BY <1>0
  <2>1. PICK i \in DOMAIN hashers : hashers[i] = p BY DEF Listed
  <2>2. PICK j \in DOMAIN hashers : hashers[j] = o BY <1>7 DEF Listed
  <2>3. i = j BY <1>5, <2>1, <2>2 DEF NumbersDiffer
  <2> QED BY <2>1, <2>2, <2>3
<1>9. o \notin K OBVIOUS
<1> HIDE DEF K
<1>10. Listed' = Listed \ {o}
  <2>1. \A p \in Listed' : p \in Listed /\ p \in K BY <1>2, <1>3 DEF Listed
  <2>2. \A p \in Listed : p \in K => p \in Listed' BY <1>2, <1>3 DEF Listed
  <2> QED BY <1>8, <1>9, <2>1, <2>2
<1>11. \A p \in Objects : ~Gone(p)' <=> p # o /\ ~Gone(p) BY <1>6 DEF Gone
<1>12. Listed' = {p \in Objects : ~Gone(p)'} BY <1>5, <1>10, <1>11
<1>13. NumbersDiffer'
  <2>1. Len(hashers) > 0 /\ hasher[hashers[1]].id = 0 /\ 1 \in DOMAIN hashers
    BY <1>0, <1>5 DEF NumbersDiffer
  <2>2. hashers[1] \in Listed /\ hashers[1] # o BY <1>6, <2>1 DEF Listed
  <2>3. Len(F) > 0 /\ F[1] = hashers[1] BY <1>2, <1>8, <2>1, <2>2
  <2>4. hasher'[F[1]].id = 0 BY <1>0, <1>6, <2>1, <2>2, <2>3
  <2>5. \A k \in DOMAIN F : F[k] \in Objects /\ F[k] # o /\ hasher'[F[k]] = hasher[F[k]]
    BY <1>2, <1>6, <1>9 DEF K
  <2>6. ASSUME NEW k \in DOMAIN F, NEW l \in DOMAIN F, hasher'[F[k]].id = hasher'[F[l]].id
        PROVE  k = l
    <3>1. hasher[F[k]].id = hasher[F[l]].id BY <2>5, <2>6
    <3>2. PICK i \in DOMAIN hashers : F[k] = hashers[i] BY <1>2
    <3>3. PICK j \in DOMAIN hashers : F[l] = hashers[j] BY <1>2
    <3>4. i = j BY <1>5, <3>1, <3>2, <3>3 DEF NumbersDiffer
    <3> QED BY <1>2, <3>2, <3>3, <3>4
  <2> QED BY <1>3, <2>3, <2>4, <2>6 DEF NumbersDiffer
<1> QED BY <1>12, <1>13

\* With up to three threads HashManager's list holds exactly the hashers that
\* run until shutdown takes the lock, each with a number of its own, so that
\* removeHasher erases the one that calls it.
THEOREM HashInvariantHolds ==
  ASSUME MaxThreads <= 3
  PROVE  Spec => []HashInvariant
<1> DEFINE Inv == QueueInvariant /\ ListedRun /\ Short
<1>1. Init => Inv
  <2> SUFFICES ASSUME Init PROVE ListedRun /\ Short BY QueueInit
  <2>0. QueueInvariant BY QueueInit
  <2>1. PICK o \in Objects :
          /\ hashers = <<o>>
          /\ hasher = [p \in Objects |-> IF p = o THEN Hasher(0, FALSE) ELSE Free]
    BY DEF Init
  <2>2. /\ Hasher(0, FALSE).pc = "wait" /\ Hasher(0, FALSE).id = 0 /\ Free.pc = "free"
    BY Constructed
  <2>3. hashers \in Seq(Objects) /\ Len(hashers) = 1 /\ hashers[1] = o BY <2>1
  <2>4. DOMAIN hashers = {1} BY <2>3
  <2>5. hasher[o] = Hasher(0, FALSE) /\ \A p \in Objects : p # o => hasher[p] = Free BY <2>1
  <2>6. NumbersDiffer
    <3>1. hasher[hashers[1]].id = 0 BY <2>2, <2>3, <2>5
    <3>2. Len(hashers) > 0 BY <2>3
    <3>3. \A i, j \in DOMAIN hashers : i = j BY <2>4
    <3> QED BY <3>1, <3>2, <3>3 DEF NumbersDiffer
  <2>7. Listed = {o} BY <2>3, <2>4 DEF Listed
  <2>8. Listed = {p \in Objects : ~Gone(p)} BY <2>2, <2>5, <2>7 DEF Gone
  <2> QED BY <2>3, <2>6, <2>8, ListedRunParts, LimitsAssumption DEF Short
<1>2. Inv /\ [Next]_vars => Inv'
  <2> SUFFICES ASSUME Inv, [Next]_vars PROVE Inv' OBVIOUS
  <2>1. CASE Next
    <3>1. QueueInvariant' /\ ListStep BY <2>1, QueueNext
    <3> QED BY <3>1, ListKept, ListCreated, ListRemoved DEF ListStep
  <2>2. CASE UNCHANGED vars
    <3>1. QueueInvariant' BY <2>2, QueueStutter
    <3>2. KeptList BY <2>2 DEF vars, KeptList, Gone
    <3> QED BY <3>1, <3>2, ListKept
  <2> QED BY <2>1, <2>2
<1>3. Inv => HashInvariant BY QueuesFollow DEF HashInvariant
<1> QED BY <1>1, <1>2, <1>3, PTL DEF Spec

-----------------------------------------------------------------------------
(* Pausing, with one thread that does it *)

\* What the counter, the thread and the flags of the hashers say of each other.
Agrees(p) ==
  LET q == pauser[p]
  IN  /\ pausers = IF q.pc \in {"added", "pausing", "held", "sub"} THEN 1 ELSE 0
      /\ q.pc \in {"add", "added", "sub", "subtracted"} =>
           q.value = IF q.pc \in {"added", "sub"} THEN 1 ELSE 0
      /\ q.pc \in {"pausing", "resuming"} => q.todo \subseteq Listed
      /\ \A o \in Listed : ~hasher[o].isShutdown =>
           /\ q.pc \in {"idle", "add"} => ~hasher[o].paused
           /\ q.pc \in {"held", "sub"} => hasher[o].paused
           /\ q.pc = "pausing" /\ o \notin q.todo => hasher[o].paused
           /\ q.pc = "resuming" /\ o \notin q.todo => ~hasher[o].paused

LEMMA AgreesQuiet ==
  ASSUME NEW p, Pausers = {p}, Agrees(p), QuietStep
  PROVE  Agrees(p)'
<1> DEFINE q == pauser[p]
<1>1. pauser' = pauser /\ pausers' = pausers BY DEF QuietStep
<1>2. WLock <=> q.pc \notin {"pausing", "resuming"} BY DEF WLock
<1>3. q.pc \in {"pausing", "resuming"} => Listed' = Listed BY <1>2 DEF QuietStep
<1>4. ASSUME NEW o \in Listed', ~hasher'[o].isShutdown
      PROVE  /\ q.pc \in {"idle", "add"} => ~hasher'[o].paused
             /\ q.pc \in {"held", "sub"} => hasher'[o].paused
             /\ q.pc = "pausing" /\ o \notin q.todo => hasher'[o].paused
             /\ q.pc = "resuming" /\ o \notin q.todo => ~hasher'[o].paused
  <2>1. CASE o \in Listed /\ ~hasher[o].isShutdown /\ hasher'[o].paused = hasher[o].paused
    BY <2>1 DEF Agrees
  <2>2. CASE WLock /\ hasher'[o].paused = (pausers > 0)
    <3>1. /\ q.pc \in {"idle", "add"} => ~(pausers > 0)
          /\ q.pc \in {"held", "sub"} => pausers > 0
      BY DEF Agrees
    <3> QED BY <1>2, <2>2, <3>1
  <2> QED BY <1>4, <2>1, <2>2 DEF QuietStep
<1> QED BY <1>1, <1>3, <1>4 DEF Agrees

LEMMA AgreesPause ==
  ASSUME NEW p, Pausers = {p}, QueueInvariant, Agrees(p), Listed' = Listed,
         loadPause(p) \/ forceResume(p) \/ HashPauser(p)
  PROVE  Agrees(p)'
<1> DEFINE q == pauser[p]
           r == pauser'[p]
<1>0. /\ q \in PauserType /\ p \in Pausers /\ pauser \in [Pausers -> PauserType]
      /\ q.value \in Nat /\ q.todo \in SUBSET Objects /\ pausers \in Nat
      /\ DOMAIN hasher = Objects /\ Listed \subseteq Objects
      /\ \A o \in Objects : hasher[o] \in HasherType
  BY PauserFields, ListedObjects DEF QueueInvariant, OtherTypes, Consistent
<1>1. CASE loadPause(p)
  <2>1. /\ q.pc = "idle" /\ hasher' = hasher /\ pausers' = pausers
        /\ r = [NoPause EXCEPT !.pc = "add", !.value = pausers]
    BY <1>0, <1>1 DEF loadPause
  <2>2. r.pc = "add" /\ r.value = pausers BY <2>1 DEF NoPause
  <2> QED BY <2>1, <2>2 DEF Agrees
<1>2. CASE forceResume(p)
  <2>1. /\ q.pc = "idle" /\ hasher' = hasher /\ pausers' = 0
        /\ r = [NoPause EXCEPT !.pc = "subtracted"]
    BY <1>0, <1>2 DEF forceResume
  <2>2. r.pc = "subtracted" /\ r.value = 0 BY <2>1 DEF NoPause
  <2> QED BY <2>1, <2>2 DEF Agrees
<1>3. CASE storePause(p)
  <2>1. /\ q.pc = "add" /\ hasher' = hasher /\ pausers' = q.value + 1
        /\ r.pc = "added" /\ r.value = q.value + 1
    BY <1>0, <1>3 DEF storePause, PauserType
  <2>2. q.value = 0 BY <2>1 DEF Agrees
  <2> QED BY <2>1, <2>2 DEF Agrees
<1>4. CASE testPause(p)
  <2>1. q.pc = "added" /\ hasher' = hasher /\ pausers' = pausers BY <1>4 DEF testPause
  <2>2. pausers = 1 /\ q.value = 1 BY <2>1 DEF Agrees
  <2>3. r = IF Listed # {} THEN [NoPause EXCEPT !.pc = "pausing", !.todo = Listed]
                           ELSE [NoPause EXCEPT !.pc = "held"]
    BY <1>0, <1>4, <2>2 DEF testPause
  <2>4. \/ r.pc = "pausing" /\ r.todo = Listed
        \/ r.pc = "held" /\ Listed = {}
    BY <2>3 DEF NoPause
  <2> QED BY <2>1, <2>2, <2>4 DEF Agrees
<1>5. CASE pause(p)
  <2>1. PICK o \in q.todo :
          /\ hasher' = [hasher EXCEPT ![o].paused = TRUE]
          /\ pauser' = [pauser EXCEPT ![p] =
               IF q.todo = {o} THEN [NoPause EXCEPT !.pc = "held"]
                               ELSE [q EXCEPT !.todo = q.todo \ {o}]]
    BY <1>5 DEF pause
  <2>2. q.pc = "pausing" /\ pausers' = pausers /\ o \in Objects BY <1>0, <1>5 DEF pause
  <2>3. /\ hasher'[o].paused = TRUE /\ \A x \in Objects : x # o => hasher'[x] = hasher[x]
        /\ hasher'[o].isShutdown = hasher[o].isShutdown
    BY <1>0, <2>1, <2>2 DEF HasherType
  <2>4. pausers = 1 /\ q.todo \subseteq Listed BY <2>2 DEF Agrees
  <2>5. CASE q.todo = {o}
    <3>1. r = [NoPause EXCEPT !.pc = "held"] BY <1>0, <2>1, <2>5
    <3>2. r.pc = "held" BY <3>1 DEF NoPause
    <3>3. \A x \in Listed : ~hasher'[x].isShutdown => hasher'[x].paused
      <4> SUFFICES ASSUME NEW x \in Listed, ~hasher'[x].isShutdown PROVE hasher'[x].paused
        OBVIOUS
      <4>1. CASE x = o BY <2>3, <4>1
      <4>2. CASE x # o BY <1>0, <2>2, <2>3, <2>5, <4>2 DEF Agrees
      <4> QED BY <4>1, <4>2
    <3> QED BY <2>2, <2>4, <3>2, <3>3 DEF Agrees
  <2>6. CASE q.todo # {o}
    <3>1. r = [q EXCEPT !.todo = q.todo \ {o}] BY <1>0, <2>1, <2>6
    <3>2. r.pc = "pausing" /\ r.todo = q.todo \ {o} BY <1>0, <2>2, <3>1 DEF PauserType
    <3>3. \A x \in Listed : ~hasher'[x].isShutdown /\ x \notin r.todo => hasher'[x].paused
      <4> SUFFICES ASSUME NEW x \in Listed, ~hasher'[x].isShutdown, x \notin r.todo
                   PROVE  hasher'[x].paused
        OBVIOUS
      <4>1. CASE x = o BY <2>3, <4>1
      <4>2. CASE x # o BY <1>0, <2>2, <2>3, <3>2, <4>2 DEF Agrees
      <4> QED BY <4>1, <4>2
    <3> QED BY <2>2, <2>4, <3>2, <3>3 DEF Agrees
  <2> QED BY <2>5, <2>6
<1>6. CASE loadResume(p)
  <2>1. /\ q.pc = "held" /\ hasher' = hasher /\ pausers' = pausers
        /\ r = [NoPause EXCEPT !.pc = "sub", !.value = pausers]
    BY <1>0, <1>6 DEF loadResume
  <2>2. r.pc = "sub" /\ r.value = pausers BY <2>1 DEF NoPause
  <2> QED BY <2>1, <2>2 DEF Agrees
<1>7. CASE storeResume(p)
  <2>1. q.pc = "sub" /\ hasher' = hasher BY <1>7 DEF storeResume
  <2>2. q.value = 1 BY <2>1 DEF Agrees
  <2>3. pausers' = 0 /\ r.pc = "subtracted" /\ r.value = 0
    BY <1>0, <1>7, <2>2 DEF storeResume, PauserType
  <2> QED BY <2>1, <2>3 DEF Agrees
<1>8. CASE testResume(p)
  <2>1. q.pc = "subtracted" /\ hasher' = hasher /\ pausers' = pausers BY <1>8 DEF testResume
  <2>2. pausers = 0 /\ q.value = 0 BY <2>1 DEF Agrees
  <2>3. r = IF Listed # {} THEN [NoPause EXCEPT !.pc = "resuming", !.todo = Listed]
                           ELSE NoPause
    BY <1>0, <1>8, <2>2 DEF testResume
  <2>4. \/ r.pc = "resuming" /\ r.todo = Listed
        \/ r.pc = "idle" /\ Listed = {}
    BY <2>3 DEF NoPause
  <2> QED BY <2>1, <2>2, <2>4 DEF Agrees
<1>9. CASE resume(p)
  <2>1. PICK o \in q.todo :
          /\ hasher' = [hasher EXCEPT ![o].paused = FALSE, ![o].suspended = FALSE]
          /\ pauser' = [pauser EXCEPT ![p] =
               IF q.todo = {o} THEN NoPause ELSE [q EXCEPT !.todo = q.todo \ {o}]]
    BY <1>9 DEF resume
  <2>2. q.pc = "resuming" /\ pausers' = pausers /\ o \in Objects BY <1>0, <1>9 DEF resume
  <2>3. /\ hasher'[o].paused = FALSE /\ \A x \in Objects : x # o => hasher'[x] = hasher[x]
        /\ hasher'[o].isShutdown = hasher[o].isShutdown
    BY <1>0, <2>1, <2>2 DEF HasherType
  <2>4. pausers = 0 /\ q.todo \subseteq Listed BY <2>2 DEF Agrees
  <2>5. CASE q.todo = {o}
    <3>1. r = NoPause BY <1>0, <2>1, <2>5
    <3>2. r.pc = "idle" BY <3>1 DEF NoPause
    <3>3. \A x \in Listed : ~hasher'[x].isShutdown => ~hasher'[x].paused
      <4> SUFFICES ASSUME NEW x \in Listed, ~hasher'[x].isShutdown PROVE ~hasher'[x].paused
        OBVIOUS
      <4>1. CASE x = o BY <2>3, <4>1
      <4>2. CASE x # o BY <1>0, <2>2, <2>3, <2>5, <4>2 DEF Agrees
      <4> QED BY <4>1, <4>2
    <3> QED BY <2>2, <2>4, <3>2, <3>3 DEF Agrees
  <2>6. CASE q.todo # {o}
    <3>1. r = [q EXCEPT !.todo = q.todo \ {o}] BY <1>0, <2>1, <2>6
    <3>2. r.pc = "resuming" /\ r.todo = q.todo \ {o} BY <1>0, <2>2, <3>1 DEF PauserType
    <3>3. \A x \in Listed : ~hasher'[x].isShutdown /\ x \notin r.todo => ~hasher'[x].paused
      <4> SUFFICES ASSUME NEW x \in Listed, ~hasher'[x].isShutdown, x \notin r.todo
                   PROVE  ~hasher'[x].paused
        OBVIOUS
      <4>1. CASE x = o BY <2>3, <4>1
      <4>2. CASE x # o BY <1>0, <2>2, <2>3, <3>2, <4>2 DEF Agrees
      <4> QED BY <4>1, <4>2
    <3> QED BY <2>2, <2>4, <3>2, <3>3 DEF Agrees
  <2> QED BY <2>5, <2>6
<1> QED BY <1>1, <1>2, <1>3, <1>4, <1>5, <1>6, <1>7, <1>8, <1>9 DEF HashPauser

\* pauseHashing and resumeHashing: with one thread that pauses, however many
\* hashers are created and removed meanwhile, every hasher of the list that has
\* not been told to shut down agrees with the counter whenever no call is under
\* way.
THEOREM PausedAgrees ==
  ASSUME NEW CONSTANT p, Pausers = {p}
  PROVE  Spec => []PausedAgree
<1> DEFINE Inv == QueueInvariant /\ Agrees(p)
<1>1. Init => Inv
  <2> SUFFICES ASSUME Init PROVE Agrees(p) BY QueueInit
  <2>1. PICK o \in Objects :
          /\ hashers = <<o>>
          /\ hasher = [x \in Objects |-> IF x = o THEN Hasher(0, FALSE) ELSE Free]
    BY DEF Init
  <2>2. Hasher(0, FALSE).paused = FALSE BY Constructed
  <2>3. hasher[o].paused = FALSE BY <2>1, <2>2
  <2>4. Listed = {o} BY <2>1 DEF Listed
  <2>5. pauser[p] = NoPause /\ pausers = 0 BY DEF Init
  <2> QED BY <2>3, <2>4, <2>5, PauserFields DEF Agrees
<1>2. Inv /\ [Next]_vars => Inv'
  <2> SUFFICES ASSUME Inv, [Next]_vars PROVE Inv' OBVIOUS
  <2>1. CASE Next
    <3>1. /\ QueueInvariant'
          /\ QuietStep \/ \E x \in Pausers :
               (loadPause(x) \/ forceResume(x) \/ HashPauser(x)) /\ Listed' = Listed
      BY <2>1, QueueNext
    <3> QED BY <3>1, AgreesQuiet, AgreesPause
  <2>2. CASE UNCHANGED vars
    <3>1. QueueInvariant' BY <2>2, QueueStutter
    <3>2. Agrees(p)' BY <2>2 DEF vars, Agrees, Listed
    <3> QED BY <3>1, <3>2
  <2> QED BY <2>1, <2>2
<1>3. Inv => PausedAgree
  <2> SUFFICES ASSUME Inv, pauser[p].pc \in {"idle", "held"}, NEW o \in Listed,
                      ~hasher[o].isShutdown
               PROVE  hasher[o].paused <=> pausers > 0
    BY DEF PausedAgree
  <2>1. CASE pauser[p].pc = "idle"
    <3>1. ~hasher[o].paused /\ pausers = 0 BY <2>1 DEF Agrees
    <3> QED BY <3>1
  <2>2. CASE pauser[p].pc = "held"
    <3>1. hasher[o].paused /\ pausers = 1 BY <2>2 DEF Agrees
    <3> QED BY <3>1
  <2> QED BY <2>1, <2>2
<1> QED BY <1>1, <1>2, <1>3, PTL DEF Spec
=============================================================================
