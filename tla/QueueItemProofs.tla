-------------------------- MODULE QueueItemProofs ---------------------------
(***************************************************************************)
(* The download of a file in segments, for any size of the file and of its *)
(* blocks, any number of sources, segments and events.                     *)
(*                                                                         *)
(* First the algorithms on segments: Consolidate joins what touches, the   *)
(* scan of getNextSegment returns whole blocks that are free.  Then the    *)
(* types, which hold for all settings; the list of downloads; the sharing  *)
(* of the work (Work), from which the counting, the list after a recheck   *)
(* and the implementation of SegmentedDownload follow; what is in the file *)
(* of what is done (DataRight, on top of Work); and what a partial source  *)
(* is asked for.                                                           *)
(***************************************************************************)
EXTENDS QueueItem, FiniteSetTheorems, FunctionTheorems, WellFoundedInduction, TLAPS

-----------------------------------------------------------------------------
(* Segments.                                                               *)

\* A set of naturals that is not empty has a least element.
LEMMA LeastNat ==
  ASSUME NEW T, T \subseteq Nat, T # {}
  PROVE  \E x \in T : \A y \in T : x <= y
<1> DEFINE R == {ss \in Nat \X Nat : ss[1] < ss[2]}
<1>1. IsWellFoundedOn(R, Nat) BY NatLessThanWellFounded DEF OpToRel
<1>2. PICK x \in T : \A y \in T : ~(<<y, x>> \in R)
  <2> HIDE DEF R
  <2> QED BY <1>1, WFMin
<1>3. ASSUME NEW y \in T PROVE x <= y
  <2>1. x \in Nat /\ y \in Nat OBVIOUS
  <2>2. y < x => <<y, x>> \in R BY <2>1
  <2>3. ~(<<y, x>> \in R)
    <3> HIDE DEF R
    <3> QED BY <1>2
  <2> HIDE DEF R
  <2> QED BY <2>1, <2>2, <2>3
<1> QED BY <1>3

\* The segments of a file that can be had.
FileSegs == {s \in [start : 0..Size, size : 1..Size] : getEnd(s) <= Size}
\* Two of them never touch.
Separated(S) == \A s, t \in S : s # t => getEnd(s) < t.start \/ getEnd(t) < s.start
\* They have no unit in common.
Apart(s, t) == s.size <= 0 \/ t.size <= 0 \/ getEnd(s) <= t.start \/ getEnd(t) <= s.start

\* The fields of a segment that the code makes.
LEMMA SegmentIs ==
  ASSUME NEW a \in Int, NEW n \in Int
  PROVE  /\ Segment(a, n).start = a /\ Segment(a, n).size = n
         /\ getEnd(Segment(a, n)) = a + n
         /\ (a >= 0 /\ n >= 1 /\ a + n <= Size) <=> Segment(a, n) \in FileSegs
BY SegmentAssumption DEF Segment, getEnd, FileSegs

\* The bounds of a segment of the file.
LEMMA FileSegsAre ==
  ASSUME NEW s \in FileSegs
  PROVE  /\ s.start \in Int /\ s.size \in Int /\ getEnd(s) \in Int
         /\ s.start >= 0 /\ s.size >= 1 /\ getEnd(s) <= Size
         /\ getEnd(s) = s.start + s.size
         /\ s = Segment(s.start, s.size)
         /\ Size \in Nat
BY SegmentAssumption DEF Segment, getEnd, FileSegs

\* A segment is its two ends.
LEMMA SameSegment ==
  ASSUME NEW s \in FileSegs, NEW t \in FileSegs, s.start = t.start, getEnd(s) = getEnd(t)
  PROVE  s = t
BY SegmentAssumption DEF getEnd, FileSegs

\* std::less of Segment is a total order.
LEMMA BeforeIsOrder ==
  ASSUME NEW s \in FileSegs, NEW t \in FileSegs
  PROVE  /\ Before(s, t) \/ Before(t, s) \/ s = t
         /\ ~(Before(s, t) /\ Before(t, s)) /\ ~Before(s, s)
         /\ ~Before(t, s) => s.start <= t.start
         /\ s.start < t.start => Before(s, t)
         /\ \A r \in FileSegs : Before(s, t) /\ Before(t, r) => Before(s, r)
BY SegmentAssumption DEF getEnd, FileSegs, Before

\* A set of segments that is not empty has a first one.
LEMMA EarliestExists ==
  ASSUME NEW T, T \subseteq FileSegs, T # {}
  PROVE  /\ Earliest(T) \in T
         /\ \A r \in T : ~Before(r, Earliest(T))
<1> DEFINE A == {r.start : r \in T}
<1>1. A \subseteq Nat BY SegmentAssumption DEF FileSegs
<1>2. PICK a \in A : \A b \in A : a <= b
  <2>1. A # {} OBVIOUS
  <2> HIDE DEF A
  <2> QED BY <1>1, <2>1, LeastNat
<1> DEFINE B == {r.size : r \in {q \in T : q.start = a}}
<1>3. B \subseteq Nat BY SegmentAssumption DEF FileSegs
<1>4. PICK b \in B : \A c \in B : b <= c
  <2>1. B # {} BY <1>2
  <2> HIDE DEF B
  <2> QED BY <1>3, <2>1, LeastNat
<1>5. PICK t \in T : t.start = a /\ t.size = b BY <1>4
<1>6. \A r \in T : ~Before(r, t)
  <2> SUFFICES ASSUME NEW r \in T, Before(r, t) PROVE FALSE OBVIOUS
  <2>1. r.start \in Nat /\ a \in Nat /\ b \in Nat /\ r.size \in Nat
    BY <1>1, <1>3, SegmentAssumption DEF FileSegs
  <2>2. a <= r.start BY <1>2
  <2>3. r.start = a /\ r.size < b BY <1>5, <2>1, <2>2 DEF Before
  <2>4. b <= r.size BY <1>4, <2>3
  <2> QED BY <2>1, <2>3, <2>4
<1> QED BY <1>5, <1>6 DEF Earliest

-----------------------------------------------------------------------------
(* What addFinishedSegment makes of the had segments. *)

\* A segment that is not the last has a neighbour.
LEMMA NextExists ==
  ASSUME NEW S, S \subseteq FileSegs, NEW s \in S, NEW u \in S, Before(s, u)
  PROVE  \E t \in S : Neighbours(S, s, t) /\ ~Before(u, t)
<1> DEFINE T == {r \in S : Before(s, r)}
<1>1. T \subseteq FileSegs /\ u \in T OBVIOUS
<1>2. PICK t \in T : \A r \in T : ~Before(r, t)
  <2> HIDE DEF T
  <2> QED BY <1>1, EarliestExists
<1> QED BY <1>1, <1>2 DEF Neighbours

\* A segment has one neighbour on each side.
LEMMA OneNeighbour ==
  ASSUME NEW S, S \subseteq FileSegs, NEW s \in S, NEW t \in S, NEW r \in S, Neighbours(S, r, t)
  PROVE  /\ Neighbours(S, s, t) => s = r
         /\ Neighbours(S, r, s) => s = t
BY BeforeIsOrder DEF Neighbours

\* Before a later segment that starts a chain there is a gap.
LEMMA GapBefore ==
  ASSUME NEW S, S \subseteq FileSegs, NEW l \in Lasts(S), NEW u \in S, Before(l, u)
  PROVE  /\ getEnd(l) < u.start
         /\ \E t \in Firsts(S) : Before(l, t) /\ ~Before(u, t)
<1>1. l \in S BY DEF Lasts
<1>2. PICK t \in S : Neighbours(S, l, t) /\ ~Before(u, t) BY <1>1, NextExists
<1>3. ~Joined(S, l, t) BY DEF Lasts
<1>4. getEnd(l) < t.start
  <2>1. ~Touches(l, t) BY <1>2, <1>3 DEF Joined
  <2>2. getEnd(l) \in Int /\ t.start \in Int BY <1>1, FileSegsAre
  <2> QED BY <2>1, <2>2 DEF Touches
<1>5. t \in Firsts(S)
  <2> SUFFICES ASSUME NEW s \in S, Joined(S, s, t) PROVE FALSE BY DEF Firsts
  <2>1. s = l BY <1>1, <1>2, OneNeighbour DEF Joined
  <2> QED BY <2>1, <1>3
<1>6. t.start <= u.start /\ Before(l, t)
  <2>1. t \in FileSegs /\ u \in FileSegs OBVIOUS
  <2>2. t.start <= u.start BY <1>2, <2>1, BeforeIsOrder
  <2> QED BY <1>2, <2>2 DEF Neighbours
<1>7. getEnd(l) \in Int /\ t.start \in Int /\ u.start \in Int BY <1>1, FileSegsAre
<1> QED BY <1>4, <1>5, <1>6, <1>7, <1>2

\* addFinishedSegment leaves segments of the file with gaps between them,
\* whatever the segments that are joined.
LEMMA ConsolidateSeparates ==
  ASSUME NEW had, had \subseteq FileSegs, NEW seg \in FileSegs
  PROVE  /\ Consolidate(had, seg).done \subseteq FileSegs
         /\ Separated(Consolidate(had, seg).done)
         /\ Consolidate(had, seg).bytes \in Int
<1> DEFINE S == had \cup {seg}
<1> DEFINE joined == {s \in S : \E t \in S : Joined(S, s, t)}
<1> DEFINE first == Earliest(joined)
<1> DEFINE next == CHOOSE t \in S : Joined(S, first, t)
<1> DEFINE chains == {c \in Firsts(S) \X Lasts(S) : Chain(S, c[1], c[2])}
<1>0. S \subseteq FileSegs OBVIOUS
<1>1. /\ Consolidate(had, seg).done = {Join(c[1], c[2]) : c \in chains}
      /\ Consolidate(had, seg).bytes =
           IF joined = {} THEN seg.size ELSE JoinedBytes(first, next, seg)
  BY DEF Consolidate
<1> HIDE DEF S
<1>2. joined # {} => first \in S /\ next \in S
  <2> SUFFICES ASSUME joined # {} PROVE first \in S /\ next \in S OBVIOUS
  <2>1. joined \subseteq FileSegs BY <1>0
  <2>2. first \in joined
    <3> HIDE DEF joined
    <3> QED BY <2>1, EarliestExists
  <2>3. first \in S /\ \E t \in S : Joined(S, first, t)
    <3> HIDE DEF first
    <3> QED BY <2>2
  <2>4. next \in S
    <3> HIDE DEF first
    <3> QED BY <2>3
  <2> QED BY <2>3, <2>4
<1>3. Consolidate(had, seg).bytes \in Int
  <2>1. CASE joined = {} BY <1>1, <2>1, FileSegsAre
  <2>2. CASE joined # {}
    <3>1. first \in FileSegs /\ next \in FileSegs BY <1>0, <1>2, <2>2
    <3> HIDE DEF first, next
    <3>2. /\ first.start \in Int /\ first.size \in Int /\ next.size \in Int /\ getEnd(next) \in Int
      BY <3>1, FileSegsAre
    <3>3. Join(first, next).size = getEnd(next) - first.start BY DEF Join, Segment
    <3>4. JoinedBytes(first, next, seg) \in Int BY <3>2, <3>3 DEF JoinedBytes
    <3> QED BY <1>1, <2>2, <3>4
  <2> QED BY <2>1, <2>2
<1>4. ASSUME NEW f \in Firsts(S), NEW l \in Lasts(S), Chain(S, f, l)
      PROVE  Join(f, l) \in FileSegs /\ Join(f, l).start = f.start /\ getEnd(Join(f, l)) = getEnd(l)
  <2>1. f \in FileSegs /\ l \in FileSegs BY <1>0 DEF Firsts, Lasts
  <2>2. f.start <= l.start BY <1>4, <2>1, BeforeIsOrder DEF Chain
  <2>3. /\ f.start \in Int /\ l.start \in Int /\ l.size \in Int /\ Size \in Int
        /\ f.start >= 0 /\ l.size >= 1 /\ getEnd(l) <= Size /\ getEnd(l) = l.start + l.size
    BY <2>1, FileSegsAre
  <2>4. PICK n \in Int : n = getEnd(l) - f.start BY <2>3
  <2>5. n >= 1 /\ f.start + n = getEnd(l) /\ f.start + n <= Size BY <2>2, <2>3, <2>4
  <2>6. Join(f, l) = Segment(f.start, n) BY <2>4 DEF Join
  <2>7. /\ Segment(f.start, n) \in FileSegs /\ Segment(f.start, n).start = f.start
        /\ getEnd(Segment(f.start, n)) = f.start + n
    BY <2>3, <2>5, SegmentIs
  <2> QED BY <2>5, <2>6, <2>7
<1>5. ASSUME NEW f \in Firsts(S), NEW l \in Lasts(S), Chain(S, f, l),
             NEW g \in Firsts(S), NEW m \in Lasts(S), Chain(S, g, m), Before(f, g)
      PROVE  getEnd(l) < g.start
  <2>1. {f, l, g, m} \subseteq S /\ {f, l, g, m} \subseteq FileSegs BY <1>0 DEF Firsts, Lasts
  <2>2. Before(l, g) BY <1>5 DEF Chain
  <2> QED BY <1>0, <2>1, <2>2, GapBefore
<1>6. ASSUME NEW f \in Firsts(S), NEW l \in Lasts(S), Chain(S, f, l),
             NEW m \in Lasts(S), Chain(S, f, m)
      PROVE  ~Before(l, m)
  <2> SUFFICES ASSUME Before(l, m) PROVE FALSE OBVIOUS
  <2>1. {f, l, m} \subseteq S /\ {f, l, m} \subseteq FileSegs BY <1>0 DEF Firsts, Lasts
  <2>2. PICK t \in Firsts(S) : Before(l, t) /\ ~Before(m, t) BY <1>0, <2>1, GapBefore
  <2>3. t \in FileSegs BY <1>0 DEF Firsts
  <2>4. Before(f, t)
    <3>1. ~Before(l, f) BY <1>6 DEF Chain
    <3> QED BY <2>1, <2>2, <2>3, <3>1, BeforeIsOrder
  <2> QED BY <1>6, <2>2, <2>4 DEF Chain
<1>7. ASSUME NEW c \in chains, NEW d \in chains, Join(c[1], c[2]) # Join(d[1], d[2])
      PROVE  \/ getEnd(Join(c[1], c[2])) < Join(d[1], d[2]).start
             \/ getEnd(Join(d[1], d[2])) < Join(c[1], c[2]).start
  <2> DEFINE f == c[1]  l == c[2]  g == d[1]  m == d[2]
  <2>1. /\ f \in Firsts(S) /\ l \in Lasts(S) /\ Chain(S, f, l)
        /\ g \in Firsts(S) /\ m \in Lasts(S) /\ Chain(S, g, m)
        /\ Join(f, l) # Join(g, m)
    BY <1>7
  <2> HIDE DEF f, l, g, m
  <2>2. {f, l, g, m} \subseteq FileSegs BY <1>0, <2>1 DEF Firsts, Lasts
  <2>3. f # g
    <3> SUFFICES ASSUME f = g PROVE FALSE OBVIOUS
    <3>1. l = m BY <1>6, <2>1, <2>2, BeforeIsOrder
    <3> QED BY <2>1, <3>1
  <2>4. Before(f, g) \/ Before(g, f) BY <2>2, <2>3, BeforeIsOrder
  <2>5. getEnd(l) < g.start \/ getEnd(m) < f.start BY <1>5, <2>1, <2>4
  <2>6. /\ Join(f, l).start = f.start /\ getEnd(Join(f, l)) = getEnd(l)
        /\ Join(g, m).start = g.start /\ getEnd(Join(g, m)) = getEnd(m)
    BY <1>4, <2>1
  <2>7. getEnd(Join(f, l)) < Join(g, m).start \/ getEnd(Join(g, m)) < Join(f, l).start
    BY <2>5, <2>6
  <2> QED BY <2>7 DEF f, l, g, m
<1>8. Separated({Join(c[1], c[2]) : c \in chains})
  <2> HIDE DEF chains
  <2> QED BY <1>7 DEF Separated
<1>9. {Join(c[1], c[2]) : c \in chains} \subseteq FileSegs BY <1>4
<1> QED BY <1>1, <1>3, <1>8, <1>9

\* A set of segments that is not empty has a last one.
LEMMA LatestExists ==
  ASSUME NEW T, T \subseteq FileSegs, T # {}
  PROVE  \E t \in T : \A r \in T : ~Before(t, r)
<1>0. Size \in Nat /\ \A r \in FileSegs : r.start \in 0..Size /\ r.size \in 0..Size
  BY SegmentAssumption DEF FileSegs
<1> DEFINE A == {Size - r.start : r \in T}
<1>1. A \subseteq Nat BY <1>0
<1>2. PICK a \in A : \A b \in A : a <= b
  <2>1. A # {} OBVIOUS
  <2> HIDE DEF A
  <2> QED BY <1>1, <2>1, LeastNat
<1> DEFINE B == {Size - r.size : r \in {q \in T : Size - q.start = a}}
<1>3. B \subseteq Nat BY <1>0
<1>4. PICK b \in B : \A c \in B : b <= c
  <2>1. B # {} BY <1>2
  <2> HIDE DEF B
  <2> QED BY <1>3, <2>1, LeastNat
<1>5. PICK t \in T : Size - t.start = a /\ Size - t.size = b BY <1>4
<1>6. \A r \in T : ~Before(t, r)
  <2> SUFFICES ASSUME NEW r \in T, Before(t, r) PROVE FALSE OBVIOUS
  <2>1. r.start \in 0..Size /\ r.size \in 0..Size /\ t.start \in 0..Size /\ t.size \in 0..Size
    BY <1>0
  <2>2. a <= Size - r.start BY <1>2
  <2>3. Size - r.start = a /\ t.size < r.size BY <1>0, <1>5, <2>1, <2>2 DEF Before
  <2>4. b <= Size - r.size BY <1>4, <2>3
  <2> QED BY <1>0, <1>5, <2>1, <2>3, <2>4
<1> QED BY <1>5, <1>6

\* The units of one segment.
UnitsOf(s) == s.start..(getEnd(s) - 1)

\* The units of a set of segments are those of its members.
LEMMA UnitsAre ==
  ASSUME NEW S, NEW x
  PROVE  x \in Units(S) <=> \E s \in S : x \in UnitsOf(s)
BY DEF Units, UnitsOf

\* A unit of a segment lies between its ends.
LEMMA UnitOf ==
  ASSUME NEW s \in FileSegs, NEW x
  PROVE  /\ x \in UnitsOf(s) <=> x \in Int /\ s.start <= x /\ x < getEnd(s)
         /\ x \in UnitsOf(s) => x \in 0..(Size - 1)
         /\ s.start \in UnitsOf(s)
<1>1. /\ s.start \in Int /\ getEnd(s) \in Int /\ s.start >= 0 /\ s.size \in Int /\ s.size >= 1
      /\ getEnd(s) = s.start + s.size /\ getEnd(s) <= Size /\ Size \in Int
  BY FileSegsAre
<1> QED BY <1>1 DEF UnitsOf

\* Joining segments that end in their order covers what they cover.
LEMMA ChainsCover ==
  ASSUME NEW S, S \subseteq FileSegs,
         \A s, t \in S : Before(s, t) => getEnd(s) <= getEnd(t),
         NEW x
  PROVE  x \in Units(S) <=>
           \E f \in Firsts(S), l \in Lasts(S) :
             Chain(S, f, l) /\ x \in Int /\ f.start <= x /\ x < getEnd(l)
<1>0. \A s \in S : s \in FileSegs /\ s.start \in Int /\ getEnd(s) \in Int
  BY FileSegsAre
<1>1. ASSUME NEW s \in S, x \in UnitsOf(s)
      PROVE  \E f \in Firsts(S), l \in Lasts(S) :
               Chain(S, f, l) /\ x \in Int /\ f.start <= x /\ x < getEnd(l)
  <2> DEFINE F == {r \in Firsts(S) : ~Before(s, r)}
  <2> DEFINE L == {r \in Lasts(S) : ~Before(r, s)}
  <2>1. F \subseteq S /\ L \subseteq S /\ F \subseteq FileSegs /\ L \subseteq FileSegs
    BY DEF Firsts, Lasts
  <2>2. F # {}
    <3>1. PICK t \in S : \A r \in S : ~Before(r, t)
      BY <1>0, EarliestExists
    <3>2. t \in Firsts(S) BY <3>1 DEF Firsts, Joined, Neighbours
    <3> QED BY <3>1, <3>2
  <2>3. L # {}
    <3>1. PICK t \in S : \A r \in S : ~Before(t, r)
      BY <1>0, LatestExists
    <3>2. t \in Lasts(S) BY <3>1 DEF Lasts, Joined, Neighbours
    <3> QED BY <3>1, <3>2
  <2>4. PICK f \in F : \A r \in F : ~Before(f, r)
    <3> HIDE DEF F
    <3> QED BY <2>1, <2>2, LatestExists
  <2>5. PICK l \in L : \A r \in L : ~Before(r, l)
    <3> HIDE DEF L
    <3> QED BY <2>1, <2>3, EarliestExists
  <2>6. f \in Firsts(S) /\ ~Before(s, f) /\ l \in Lasts(S) /\ ~Before(l, s) OBVIOUS
  <2>7. {s, f, l} \subseteq FileSegs BY <2>1
  <2>8. ~Before(l, f) BY <2>6, <2>7, BeforeIsOrder
  <2>9. ASSUME NEW r \in Firsts(S), Before(f, r) PROVE Before(l, r)
    <3>1. r \in S /\ r \in FileSegs BY DEF Firsts
    <3>2. Before(s, r) BY <2>4, <2>9
    <3>3. PICK p \in S : Neighbours(S, p, r)
      <4> DEFINE P == {q \in S : Before(q, r)}
      <4>1. P \subseteq FileSegs /\ s \in P BY <3>2
      <4>2. PICK p \in P : \A q \in P : ~Before(p, q)
        <5> HIDE DEF P
        <5> QED BY <4>1, LatestExists
      <4> QED BY <4>2 DEF Neighbours
    <3>4. ~Joined(S, p, r) BY DEF Firsts
    <3>5. p \in Lasts(S)
      <4> SUFFICES ASSUME NEW t \in S, Joined(S, p, t) PROVE FALSE BY DEF Lasts
      <4>1. t = r BY <3>1, <3>3, OneNeighbour DEF Joined
      <4> QED BY <3>4, <4>1
    <3>6. ~Before(p, s) BY <3>2, <3>3 DEF Neighbours
    <3>7. ~Before(p, l) BY <2>5, <3>5, <3>6
    <3>8. Before(p, r) BY <3>3 DEF Neighbours
    <3> QED BY <2>7, <3>1, <3>7, <3>8, BeforeIsOrder
  <2>10. Chain(S, f, l) BY <2>8, <2>9 DEF Chain
  <2>11. x \in Int /\ s.start <= x /\ x < getEnd(s) BY <1>1, <2>7, UnitOf
  <2>12. f.start <= s.start BY <2>6, <2>7, BeforeIsOrder
  <2>13. getEnd(s) <= getEnd(l)
    <3>1. s = l \/ Before(s, l) BY <2>6, <2>7, BeforeIsOrder
    <3>2. s \in S /\ l \in S BY <2>1
    <3> QED BY <1>0, <3>1, <3>2
  <2>14. f.start \in Int /\ s.start \in Int /\ getEnd(s) \in Int /\ getEnd(l) \in Int
    BY <2>7, FileSegsAre
  <2> QED BY <2>6, <2>10, <2>11, <2>12, <2>13, <2>14
<1>2. ASSUME NEW f \in Firsts(S), NEW l \in Lasts(S), Chain(S, f, l),
             x \in Int, f.start <= x, x < getEnd(l)
      PROVE  x \in Units(S)
  <2> DEFINE T == {r \in S : ~Before(l, r) /\ r.start <= x}
  <2>1. {f, l} \subseteq FileSegs /\ f \in S /\ l \in S BY DEF Firsts, Lasts
  <2>2. f \in T BY <1>2, <2>1 DEF Chain
  <2>3. PICK s \in T : \A r \in T : ~Before(s, r)
    <3>1. T \subseteq FileSegs OBVIOUS
    <3> HIDE DEF T
    <3> QED BY <2>2, <3>1, LatestExists
  <2>4. s \in S /\ ~Before(l, s) /\ s.start <= x OBVIOUS
  <2>5. x < getEnd(s)
    <3>1. CASE s = l BY <1>2, <3>1
    <3>2. CASE s # l
      <4>1. Before(s, l) BY <2>1, <2>4, <3>2, BeforeIsOrder
      <4>2. PICK t \in S : Neighbours(S, s, t) /\ ~Before(l, t) BY <2>1, <2>4, <4>1, NextExists
      <4>3. ~(t.start <= x) BY <2>3, <4>2 DEF Neighbours
      <4>4. ~Before(s, f) BY <2>2, <2>3
      <4>5. Before(f, t)
        <5>1. Before(s, t) /\ s \in FileSegs /\ t \in FileSegs BY <4>2 DEF Neighbours
        <5>2. \/ Before(f, t)
          BY <2>1, <4>4, <5>1, BeforeIsOrder
        <5> QED BY <5>2
      <4>6. t \notin Firsts(S) BY <1>2, <4>2, <4>5 DEF Chain
      <4>7. PICK p \in S : Joined(S, p, t) BY <4>6 DEF Firsts
      <4>8. p = s BY <2>4, <4>2, <4>7, OneNeighbour DEF Joined
      <4>9. getEnd(s) >= t.start BY <4>7, <4>8 DEF Joined, Touches
      <4> QED BY <1>0, <1>2, <2>4, <4>3, <4>9
    <3> QED BY <3>1, <3>2
  <2> QED BY <1>2, <2>4, <2>5, UnitsAre, UnitOf
<1> QED BY <1>1, <1>2, UnitsAre

\* A segment that overlaps none of those that are done is joined to those that it
\* touches: what is covered grows by its units, and what the bundle is told is
\* its size.
LEMMA ConsolidateAdds ==
  ASSUME NEW had, had \subseteq FileSegs, Separated(had), NEW seg \in FileSegs,
         \A t \in had : Apart(seg, t)
  PROVE  /\ Units(Consolidate(had, seg).done) = Units(had) \cup UnitsOf(seg)
         /\ Units(had) \cap UnitsOf(seg) = {}
         /\ Consolidate(had, seg).bytes = seg.size
<1> DEFINE S == had \cup {seg}
<1> DEFINE joined == {s \in S : \E t \in S : Joined(S, s, t)}
<1> DEFINE first == Earliest(joined)
<1> DEFINE next == CHOOSE t \in S : Joined(S, first, t)
<1> DEFINE chains == {c \in Firsts(S) \X Lasts(S) : Chain(S, c[1], c[2])}
<1>0. S \subseteq FileSegs OBVIOUS
<1>1. /\ Consolidate(had, seg).done = {Join(c[1], c[2]) : c \in chains}
      /\ Consolidate(had, seg).bytes =
           IF joined = {} THEN seg.size ELSE JoinedBytes(first, next, seg)
  BY DEF Consolidate
<1>2. \A s \in FileSegs : /\ s.start \in Int /\ s.size \in Int /\ getEnd(s) \in Int
                          /\ s.size >= 1 /\ getEnd(s) = s.start + s.size
  BY FileSegsAre
<1>3. \A s, t \in S : s # t => getEnd(s) <= t.start \/ getEnd(t) <= s.start
  <2> SUFFICES ASSUME NEW s \in S, NEW t \in S, s # t
               PROVE  getEnd(s) <= t.start \/ getEnd(t) <= s.start
    OBVIOUS
  <2>1. CASE s \in had /\ t \in had BY <1>2, <2>1 DEF Separated
  <2>2. CASE s = seg /\ t \in had BY <1>2, <2>2 DEF Apart
  <2>3. CASE s \in had /\ t = seg BY <1>2, <2>3 DEF Apart
  <2> QED BY <2>1, <2>2, <2>3
<1>4. \A s, t \in S : Before(s, t) => getEnd(s) <= t.start
  <2> SUFFICES ASSUME NEW s \in S, NEW t \in S, Before(s, t) PROVE getEnd(s) <= t.start
    OBVIOUS
  <2>1. s # t /\ s.start <= t.start BY <1>2 DEF Before
  <2> QED BY <1>2, <1>3, <2>1
<1>5. \A s, t \in S : Before(s, t) => getEnd(s) <= getEnd(t)
  BY <1>2, <1>4
<1>6. Units(had) \cap UnitsOf(seg) = {}
  <2> SUFFICES ASSUME NEW x \in UnitsOf(seg), NEW s \in had, x \in UnitsOf(s) PROVE FALSE
    BY UnitsAre
  <2>1. /\ x \in Int /\ seg.start <= x /\ x < getEnd(seg) /\ s.start <= x /\ x < getEnd(s)
    BY UnitOf
  <2> QED BY <1>2, <2>1 DEF Apart
<1>7. Units(S) = Units(had) \cup UnitsOf(seg) BY UnitsAre
<1> HIDE DEF S
<1>8. \A f \in Firsts(S), l \in Lasts(S) : Chain(S, f, l) =>
        /\ Join(f, l).start = f.start /\ getEnd(Join(f, l)) = getEnd(l)
        /\ \A x : x \in UnitsOf(Join(f, l)) <=> x \in Int /\ f.start <= x /\ x < getEnd(l)
  <2> SUFFICES ASSUME NEW f \in Firsts(S), NEW l \in Lasts(S)
               PROVE  /\ Join(f, l).start = f.start /\ getEnd(Join(f, l)) = getEnd(l)
                      /\ \A x : x \in UnitsOf(Join(f, l)) <=>
                                  x \in Int /\ f.start <= x /\ x < getEnd(l)
    OBVIOUS
  <2>1. /\ f.start \in Int /\ getEnd(l) \in Int BY <1>0, <1>2 DEF Firsts, Lasts
  <2>2. /\ Join(f, l).start = f.start /\ getEnd(Join(f, l)) = getEnd(l)
    <3>1. Join(f, l).start = f.start /\ Join(f, l).size = getEnd(l) - f.start
      BY DEF Join, Segment
    <3>2. getEnd(Join(f, l)) = f.start + (getEnd(l) - f.start) BY <3>1 DEF getEnd
    <3> QED BY <2>1, <3>1, <3>2
  <2> QED BY <2>1, <2>2 DEF UnitsOf
<1>9. Units(Consolidate(had, seg).done) = Units(S)
  <2>1. ASSUME NEW x
        PROVE  x \in Units({Join(c[1], c[2]) : c \in chains}) <=>
                 \E f \in Firsts(S), l \in Lasts(S) :
                   Chain(S, f, l) /\ x \in Int /\ f.start <= x /\ x < getEnd(l)
    <3>1. x \in Units({Join(c[1], c[2]) : c \in chains}) <=>
            \E c \in chains : x \in UnitsOf(Join(c[1], c[2]))
      <4> HIDE DEF chains
      <4> QED BY UnitsAre
    <3>2. ASSUME NEW f \in Firsts(S), NEW l \in Lasts(S), Chain(S, f, l)
          PROVE  \E c \in chains : c[1] = f /\ c[2] = l
      <4>1. <<f, l>> \in chains BY <3>2
      <4> QED BY <4>1
    <3>3. \A c \in chains : c[1] \in Firsts(S) /\ c[2] \in Lasts(S) /\ Chain(S, c[1], c[2])
      OBVIOUS
    <3>4. (\E c \in chains : x \in UnitsOf(Join(c[1], c[2]))) <=>
            \E f \in Firsts(S), l \in Lasts(S) : Chain(S, f, l) /\ x \in UnitsOf(Join(f, l))
      <4> HIDE DEF chains
      <4> QED BY <3>2, <3>3
    <3> HIDE DEF chains
    <3> QED BY <1>8, <3>1, <3>4
  <2>2. ASSUME NEW x
        PROVE  x \in Units(S) <=> x \in Units({Join(c[1], c[2]) : c \in chains})
    BY <1>0, <1>5, <2>1, ChainsCover
  <2> QED BY <1>1, <2>2
<1>10. ASSUME NEW s \in S, NEW t \in S, Joined(S, s, t)
       PROVE  s # t /\ (s = seg \/ t = seg) /\ getEnd(s) = t.start
  <2>1. Before(s, t) /\ getEnd(s) >= t.start BY <1>10 DEF Joined, Neighbours, Touches
  <2>2. s # t BY <1>2, <1>0, <2>1 DEF Before
  <2>3. getEnd(s) = t.start BY <1>0, <1>2, <1>4, <2>1
  <2>4. getEnd(t) > s.start BY <1>0, <1>2, <2>3
  <2>5. s = seg \/ t = seg
    <3> SUFFICES ASSUME s # seg, t # seg PROVE FALSE OBVIOUS
    <3>1. s \in had /\ t \in had BY DEF S
    <3> QED BY <1>2, <2>2, <2>3, <2>4, <3>1 DEF Separated
  <2> QED BY <2>2, <2>3, <2>5
<1>11. Consolidate(had, seg).bytes = seg.size
  <2>1. CASE joined = {} BY <1>1, <2>1
  <2>2. CASE joined # {}
    <3>1. first \in joined
      <4>1. joined \subseteq FileSegs BY <1>0
      <4> HIDE DEF joined
      <4> QED BY <2>2, <4>1, EarliestExists
    <3>2. first \in S /\ \E t \in S : Joined(S, first, t)
      <4> HIDE DEF first
      <4> QED BY <3>1
    <3> HIDE DEF first
    <3>3. next \in S /\ Joined(S, first, next) BY <3>2
    <3> HIDE DEF next
    <3>4. first # next /\ (first = seg \/ next = seg) /\ getEnd(first) = next.start
      BY <1>10, <3>2, <3>3
    <3>5. first \in FileSegs /\ next \in FileSegs BY <1>0, <3>2, <3>3
    <3>6. Join(first, next).size = getEnd(next) - first.start BY DEF Join, Segment
    <3>7. JoinedBytes(first, next, seg) =
            (getEnd(next) - first.start) - (IF first = seg THEN next.size ELSE first.size)
      BY <3>6 DEF JoinedBytes
    <3>8. JoinedBytes(first, next, seg) = seg.size BY <1>2, <3>4, <3>5, <3>7
    <3> QED BY <1>1, <2>2, <3>8
  <2> QED BY <2>1, <2>2
<1> QED BY <1>6, <1>7, <1>9, <1>11

\* The units of segments are units of the file.
LEMMA UnitsFinite ==
  ASSUME NEW S, S \subseteq FileSegs
  PROVE  Units(S) \subseteq 0..(Size - 1) /\ IsFiniteSet(Units(S))
<1>1. Units(S) \subseteq 0..(Size - 1) BY UnitsAre, UnitOf
<1>2. IsFiniteSet(0..(Size - 1)) BY FS_Interval, SegmentAssumption
<1> QED BY <1>1, <1>2, FS_Subset

\* The sum of the sizes of separate segments is the number of units that they
\* cover.
LEMMA SumIsCover ==
  ASSUME NEW S, S \subseteq FileSegs, Separated(S)
  PROVE  getDownloadedSegments(S) = Cardinality(Units(S))
<1> DEFINE P == UNION {{s} \X (1..s.size) : s \in S}
<1> DEFINE U == Units(S)
<1> DEFINE f == [p \in P |-> p[1].start + p[2] - 1]
<1>0. \A s \in S : /\ s \in FileSegs /\ s.start \in Int /\ s.size \in Int /\ getEnd(s) \in Int
                   /\ s.size >= 1 /\ getEnd(s) = s.start + s.size
  BY FileSegsAre
<1>1. \A p : p \in P <=> \E s \in S : \E i \in 1..s.size : p = <<s, i>>
  OBVIOUS
<1>2. \A s \in S : \A i \in 1..s.size : s.start + i - 1 \in UnitsOf(s)
  BY <1>0, UnitOf
<1>3. f \in [P -> U]
  <2> SUFFICES ASSUME NEW p \in P PROVE p[1].start + p[2] - 1 \in U OBVIOUS
  <2>0. PICK s \in S : \E i \in 1..s.size : p = <<s, i>> BY <1>1
  <2>1. PICK i \in 1..s.size : p = <<s, i>> BY <2>0
  <2> QED BY <1>2, <2>1, UnitsAre
<1>4. ASSUME NEW p \in P, NEW q \in P, f[p] = f[q] PROVE p = q
  <2>0. PICK s \in S : \E i \in 1..s.size : p = <<s, i>> BY <1>1
  <2>1. PICK i \in 1..s.size : p = <<s, i>> BY <2>0
  <2>9. PICK t \in S : \E j \in 1..t.size : q = <<t, j>> BY <1>1
  <2>2. PICK j \in 1..t.size : q = <<t, j>> BY <2>9
  <2>3. s.start + i - 1 = t.start + j - 1 BY <1>4, <2>1, <2>2
  <2>4. s = t
    <3>1. /\ s.start <= s.start + i - 1 /\ s.start + i - 1 < getEnd(s)
          /\ t.start <= s.start + i - 1 /\ s.start + i - 1 < getEnd(t)
      BY <1>0, <2>3
    <3> QED BY <1>0, <3>1 DEF Separated
  <2>5. i = j BY <1>0, <2>3, <2>4
  <2> QED BY <2>1, <2>2, <2>4, <2>5
<1>5. ASSUME NEW x \in U PROVE \E p \in P : f[p] = x
  <2>1. PICK s \in S : x \in UnitsOf(s) BY UnitsAre
  <2>2. x \in Int /\ s.start <= x /\ x < getEnd(s) BY <1>0, <2>1, UnitOf
  <2>3. x - s.start + 1 \in 1..s.size BY <1>0, <2>2
  <2>4. <<s, x - s.start + 1>> \in P BY <1>1, <2>3
  <2>5. f[<<s, x - s.start + 1>>] = s.start + (x - s.start + 1) - 1 BY <2>4
  <2> QED BY <1>0, <2>2, <2>4, <2>5
<1>6. f \in Bijection(P, U)
  <2> HIDE DEF P, U, f
  <2> QED BY <1>3, <1>4, <1>5, Fun_IsBij
<1>7. IsFiniteSet(U) BY UnitsFinite
<1>8. getDownloadedSegments(S) = Cardinality(P) BY DEF getDownloadedSegments
<1> HIDE DEF P, U, f
<1>9. f \in Injection(P, U) /\ f \in Surjection(P, U) BY <1>6 DEF Bijection
<1>10. Cardinality(P) = Cardinality(U) BY <1>7, <1>9, FS_Injection
<1> QED BY <1>8, <1>10 DEF U

\* A segment that is apart from the done ones adds its size to their sum.
LEMMA SumGrows ==
  ASSUME NEW had, had \subseteq FileSegs, Separated(had), NEW seg \in FileSegs,
         \A t \in had : Apart(seg, t)
  PROVE  getDownloadedSegments(Consolidate(had, seg).done) =
           getDownloadedSegments(had) + seg.size
<1> DEFINE c == Consolidate(had, seg).done
<1>1. c \subseteq FileSegs /\ Separated(c) BY ConsolidateSeparates
<1>2. /\ getDownloadedSegments(c) = Cardinality(Units(c))
      /\ getDownloadedSegments(had) = Cardinality(Units(had))
  <2> HIDE DEF c
  <2> QED BY <1>1, SumIsCover
<1>3. Units(c) = Units(had) \cup UnitsOf(seg) /\ Units(had) \cap UnitsOf(seg) = {}
  BY ConsolidateAdds
<1>4. IsFiniteSet(Units(had)) BY UnitsFinite
<1>5. /\ seg.start \in Int /\ seg.size \in Int /\ seg.size >= 1 /\ getEnd(seg) = seg.start + seg.size
  BY FileSegsAre
<1>6. IsFiniteSet(UnitsOf(seg)) /\ Cardinality(UnitsOf(seg)) = seg.size
  <2>1. UnitsOf(seg) = seg.start..(seg.start + seg.size - 1) BY <1>5 DEF UnitsOf
  <2>2. seg.start + seg.size - 1 \in Int BY <1>5
  <2>3. /\ IsFiniteSet(seg.start..(seg.start + seg.size - 1))
        /\ Cardinality(seg.start..(seg.start + seg.size - 1)) =
             IF seg.start > seg.start + seg.size - 1 THEN 0
             ELSE (seg.start + seg.size - 1) - seg.start + 1
    BY <1>5, <2>2, FS_Interval
  <2> QED BY <1>5, <2>1, <2>3
<1>7. Cardinality(Units(had) \cup UnitsOf(seg)) =
        Cardinality(Units(had)) + Cardinality(UnitsOf(seg)) - Cardinality({})
  BY <1>3, <1>4, <1>6, FS_Union
<1>8. Cardinality(Units(had)) \in Nat /\ Cardinality({}) = 0
  BY <1>4, FS_CardinalityType, FS_EmptySet
<1> HIDE DEF c
<1>9. getDownloadedSegments(c) = getDownloadedSegments(had) + seg.size
  BY <1>2, <1>3, <1>5, <1>6, <1>7, <1>8
<1> QED BY <1>9 DEF c

\* Where finished segments begin and end, one of the joined ones did.
LEMMA ConsolidateEnds ==
  ASSUME NEW had, had \subseteq FileSegs, NEW seg \in FileSegs,
         NEW s \in Consolidate(had, seg).done
  PROVE  \E f, l \in had \cup {seg} : s.start = f.start /\ getEnd(s) = getEnd(l)
<1> DEFINE S == had \cup {seg}
<1> DEFINE chains == {c \in Firsts(S) \X Lasts(S) : Chain(S, c[1], c[2])}
<1>1. Consolidate(had, seg).done = {Join(c[1], c[2]) : c \in chains}
  BY DEF Consolidate
<1>2. PICK f \in Firsts(S), l \in Lasts(S) : s = Join(f, l)
  <2>1. PICK c \in chains : s = Join(c[1], c[2]) BY <1>1
  <2> QED BY <2>1
<1>3. f \in S /\ l \in S BY DEF Firsts, Lasts
<1>4. f.start \in Int /\ getEnd(l) \in Int BY <1>3, FileSegsAre
<1>5. s.start = f.start /\ s.size = getEnd(l) - f.start BY <1>2 DEF Join, Segment
<1>6. getEnd(s) = getEnd(l) BY <1>4, <1>5 DEF getEnd
<1> QED BY <1>3, <1>5, <1>6

\* The file as one segment.
Whole == Segment(0, Size)

\* It has all units.
LEMMA WholeIs ==
  /\ Whole \in FileSegs /\ Whole.start = 0 /\ Whole.size = Size /\ getEnd(Whole) = Size
  /\ UnitsOf(Whole) = 0..(Size - 1) /\ Units({Whole}) = 0..(Size - 1) /\ Size \in Nat /\ Size > 0
<1>1. Size \in Nat /\ Size > 0 BY SegmentAssumption
<1>2. Whole \in FileSegs /\ Whole.start = 0 /\ Whole.size = Size /\ getEnd(Whole) = Size
  BY <1>1, SegmentIs DEF Whole
<1>3. UnitsOf(Whole) = 0..(Size - 1) BY <1>2 DEF UnitsOf
<1>4. Units({Whole}) = UnitsOf(Whole)
  <2>1. \A x : x \in Units({Whole}) <=> x \in UnitsOf(Whole) BY UnitsAre
  <2> QED BY <2>1
<1> QED BY <1>1, <1>2, <1>3, <1>4

\* A file with all its data is the one segment that segmentsDone looks for.
LEMMA WholeIsAll ==
  ASSUME NEW had, had \subseteq FileSegs, Separated(had)
  PROVE  segmentsDone(had) <=> Units(had) = 0..(Size - 1)
<1>1. Size \in Nat /\ Size > 0 BY WholeIs
<1>2. \A s \in had : /\ s \in FileSegs /\ s.start \in Int /\ getEnd(s) \in Int /\ s.start >= 0
                      /\ getEnd(s) <= Size /\ s.start < getEnd(s)
  BY FileSegsAre
<1>3. ASSUME Units(had) = 0..(Size - 1) PROVE had = {Whole}
  <2>1. 0 \in Units(had) BY <1>1, <1>3
  <2>2. PICK s \in had : 0 \in UnitsOf(s) BY <2>1, UnitsAre
  <2>3. s.start = 0 BY <1>2, <2>2, UnitOf
  <2>4. getEnd(s) = Size
    <3> SUFFICES ASSUME getEnd(s) < Size PROVE FALSE BY <1>1, <1>2
    <3>1. getEnd(s) \in Units(had) BY <1>1, <1>2, <1>3, <2>3
    <3>2. PICK t \in had : getEnd(s) \in UnitsOf(t) BY <3>1, UnitsAre
    <3>3. t.start <= getEnd(s) /\ getEnd(s) < getEnd(t) BY <1>2, <3>2, UnitOf
    <3> QED BY <1>2, <3>3 DEF Separated
  <2>5. s = Whole BY <1>2, <2>3, <2>4, WholeIs, SameSegment
  <2>6. ASSUME NEW t \in had PROVE t = s
    <3> SUFFICES ASSUME t # s PROVE FALSE OBVIOUS
    <3> QED BY <1>1, <1>2, <2>3, <2>4 DEF Separated
  <2> QED BY <2>5, <2>6
<1> QED BY <1>3, WholeIs DEF segmentsDone, Whole

-----------------------------------------------------------------------------
(* Positions at the ends of leaves. *)

\* A leaf of the hash tree begins or ends here.
At(n) == n = Size \/ \E k \in Nat : n = k * BlockSize
\* The segment consists of whole leaves.
Aligned(s) == At(s.start) /\ At(getEnd(s))

\* Comparison of multiples.
LEMMA Multiples ==
  ASSUME NEW b \in Nat, b > 0, NEW j \in Int, NEW k \in Int
  PROVE  /\ j * b \in Int
         /\ j * b < k * b => j + 1 <= k
         /\ j <= k => j * b <= k * b
         /\ (j + 1) * b = j * b + b
<1>1. j * b \in Int /\ k * b \in Int OBVIOUS
<1>2. (j + 1) * b = j * b + b OBVIOUS
<1>3. j <= k => j * b <= k * b OBVIOUS
<1>4. ASSUME j * b < k * b, ~(j + 1 <= k) PROVE FALSE
  <2>1. k <= j BY <1>4
  <2>2. k * b <= j * b BY <2>1
  <2> QED BY <1>1, <1>4, <2>2
<1> QED BY <1>1, <1>2, <1>3, <1>4

\* The rest of a division is less than the divisor.
LEMMA Division ==
  ASSUME NEW n \in Int, NEW b \in Nat, b > 0
  PROVE  /\ n \div b \in Int
         /\ (n \div b) * b <= n
         /\ n < (n \div b) * b + b
         /\ n >= 0 => n \div b >= 0
OBVIOUS

\* Util::roundDown returns the last multiple that is not larger.
LEMMA RoundsDown ==
  ASSUME NEW n \in Nat, NEW b \in Nat, b > 0
  PROVE  /\ roundDown(n, b) \in Nat /\ roundDown(n, b) <= n /\ n < roundDown(n, b) + b
         /\ \E k \in Nat : roundDown(n, b) = k * b
         /\ n >= b => roundDown(n, b) >= b
<1>1. PICK q \in Int : q = n \div b BY Division
<1>2. q * b <= n /\ n < q * b + b /\ q >= 0 BY <1>1, Division
<1>3. roundDown(n, b) = q * b BY <1>1 DEF roundDown
<1>4. n >= b => q >= 1
  <2> SUFFICES ASSUME n >= b, q < 1 PROVE FALSE BY <1>1
  <2>1. q = 0 BY <1>2
  <2> QED BY <1>2, <2>1
<1>5. q >= 1 => q * b >= b BY Multiples
<1>6. q * b \in Int /\ q * b >= 0 BY <1>2
<1> QED BY <1>2, <1>3, <1>4, <1>5, <1>6

\* What a segment that starts and ends with leaves overlaps it contains, if that
\* is one leaf.
LEMMA LeafApart ==
  ASSUME NEW k \in Nat, k * BlockSize < Size, NEW s \in FileSegs, Aligned(s),
         NEW b \in FileSegs, b.start = k * BlockSize,
         getEnd(b) = Size \/ getEnd(b) = k * BlockSize + BlockSize,
         getEnd(b) <= k * BlockSize + BlockSize,
         ~contains(s, b)
  PROVE  Apart(b, s)
<1>0. BlockSize \in Nat /\ BlockSize > 0 /\ Size \in Nat BY SegmentAssumption
<1>1. /\ s.start \in Int /\ getEnd(s) \in Int /\ s.start < getEnd(s) /\ getEnd(s) <= Size
      /\ b.start \in Int /\ getEnd(b) \in Int /\ getEnd(b) <= Size
  BY FileSegsAre
<1> SUFFICES ASSUME s.start < getEnd(b), b.start < getEnd(s) PROVE FALSE
  BY <1>1 DEF Apart
<1>2. s.start <= b.start
  <2>1. PICK j \in Nat : s.start = j * BlockSize BY <1>1 DEF Aligned, At
  <2>2. j * BlockSize < (k + 1) * BlockSize BY <1>0, <1>1, <2>1, Multiples
  <2>3. j + 1 <= k + 1 BY <1>0, <2>2, Multiples
  <2>4. j * BlockSize <= k * BlockSize BY <1>0, <2>3, Multiples
  <2> QED BY <2>1, <2>4
<1>3. getEnd(b) <= getEnd(s)
  <2>1. CASE getEnd(s) = Size BY <1>1, <2>1
  <2>2. CASE getEnd(s) # Size
    <3>1. PICK j \in Nat : getEnd(s) = j * BlockSize BY <2>2 DEF Aligned, At
    <3>2. k + 1 <= j BY <1>0, <3>1, Multiples
    <3>3. (k + 1) * BlockSize <= j * BlockSize BY <1>0, <3>2, Multiples
    <3>4. k * BlockSize + BlockSize <= j * BlockSize BY <1>0, <3>3, Multiples
    <3>5. k * BlockSize \in Int /\ j * BlockSize \in Int BY <1>0
    <3> QED BY <1>0, <1>1, <3>1, <3>4, <3>5
  <2> QED BY <2>1, <2>2
<1> QED BY <1>1, <1>2, <1>3 DEF contains

-----------------------------------------------------------------------------
(* What getNextSegment finds free. *)

\* The smaller and the larger of two numbers.
LEMMA MinOfTwo ==
  ASSUME NEW a \in Int, NEW b \in Int
  PROVE  /\ Min({a, b}) \in {a, b} /\ Min({a, b}) <= a /\ Min({a, b}) <= b
         /\ Max({a, b}) \in {a, b} /\ Max({a, b}) >= a /\ Max({a, b}) >= b
<1>1. \E x \in {a, b} : \A y \in {a, b} : x <= y
  <2>1. CASE a <= b BY <2>1
  <2>2. CASE b <= a BY <2>2
  <2> QED BY <2>1, <2>2
<1>2. \E x \in {a, b} : \A y \in {a, b} : x >= y
  <2>1. CASE a >= b BY <2>1
  <2>2. CASE b >= a BY <2>2
  <2> QED BY <2>1, <2>2
<1> QED BY <1>1, <1>2 DEF Min, Max

\* A block of the scan lies in the file, and begins where the scan is.
LEMMA BlockIs ==
  ASSUME NEW p \in Nat, NEW c \in Nat, p < Size, c > 0
  PROVE  /\ Block(p, c) \in FileSegs /\ Block(p, c).start = p
         /\ getEnd(Block(p, c)) \in {Size, p + c}
         /\ getEnd(Block(p, c)) <= Size /\ getEnd(Block(p, c)) <= p + c
         /\ getEnd(Block(p, c)) > p
<1>0. Size \in Nat BY SegmentAssumption
<1> DEFINE q == p + c
<1>a. q \in Int /\ Size \in Int BY <1>0
<1>b. Block(p, c) = Segment(p, Min({Size, q}) - p) BY DEF Block
<1>1. PICK e \in Int : e = Min({Size, q}) /\ e \in {Size, q} /\ e <= Size /\ e <= q
  <2> HIDE DEF q
  <2> QED BY <1>a, MinOfTwo
<1>2. /\ e \in {Size, p + c} /\ e <= Size /\ e <= p + c BY <1>1
<1>3. Block(p, c) = Segment(p, e - p)
  <2> HIDE DEF q
  <2> QED BY <1>1, <1>b
<1>4. e - p \in Int /\ e - p >= 1 /\ p + (e - p) = e BY <1>0, <1>2
<1>5. /\ Segment(p, e - p) \in FileSegs /\ Segment(p, e - p).start = p
      /\ getEnd(Segment(p, e - p)) = p + (e - p)
  BY <1>2, <1>4, SegmentIs
<1> QED BY <1>0, <1>2, <1>3, <1>4, <1>5

\* The scan goes from one leaf boundary to another.
LEMMA AtAfter ==
  ASSUME NEW p \in Nat, At(p), p < Size, NEW m \in Nat, m > 0
  PROVE  /\ At(getEnd(Block(p, m * BlockSize)))
         /\ \E k \in Nat : p = k * BlockSize
<1>0. BlockSize \in Nat /\ BlockSize > 0 /\ Size \in Nat BY SegmentAssumption
<1>1. PICK k \in Nat : p = k * BlockSize BY <1>0 DEF At
<1>2. m * BlockSize \in Nat /\ m * BlockSize > 0 BY <1>0
<1>3. p + m * BlockSize = (k + m) * BlockSize BY <1>0, <1>1
<1>4. getEnd(Block(p, m * BlockSize)) \in {Size, (k + m) * BlockSize}
  <2> DEFINE c == m * BlockSize
  <2>1. c \in Nat /\ c > 0 /\ p + c = (k + m) * BlockSize BY <1>2, <1>3
  <2> HIDE DEF c
  <2>2. getEnd(Block(p, c)) \in {Size, p + c} BY <2>1, BlockIs
  <2> QED BY <2>1, <2>2 DEF c
<1>5. k + m \in Nat OBVIOUS
<1> QED BY <1>1, <1>4, <1>5 DEF At

\* A recursion over the positions of a file that goes on from a later one each
\* time is well defined, and collects what the positions on its way give.
Onward(N, own, nx) ==
  own = [p \in 0..N |-> own[p]] /\ \A p \in 0..N : p < N => nx[p] \in (p + 1)..N
\* g is what the scan collects from each position on.
Scans(N, own, nx, g) ==
  \A p \in 0..N : g[p] = IF p = N THEN {} ELSE own[p] \cup g[nx[p]]

\* The scan is a function of the position: it always goes on.
LEMMA ScanExists ==
  ASSUME NEW N \in Nat, NEW own, NEW nx, Onward(N, own, nx)
  PROVE  \E g : g = [p \in 0..N |-> g[p]] /\ Scans(N, own, nx, g)
<1>0. \A p \in 0..N : p < N => nx[p] \in (p + 1)..N BY DEF Onward
<1> DEFINE Sat(g, k) == g = [p \in (N - k)..N |-> IF p = N THEN {} ELSE own[p] \cup g[nx[p]]]
<1> DEFINE T == {k \in 0..N : ~\E g : Sat(g, k)}
<1>1. T = {}
  <2> SUFFICES ASSUME T # {} PROVE FALSE OBVIOUS
  <2>1. PICK k \in T : \A j \in T : k <= j
    <3>1. T \subseteq Nat OBVIOUS
    <3> HIDE DEF T
    <3> QED BY <3>1, LeastNat
  <2>2. CASE k = 0
    <3> DEFINE g == [p \in N..N |-> {}]
    <3>1. g = [p \in N..N |-> IF p = N THEN {} ELSE own[p] \cup g[nx[p]]] OBVIOUS
    <3>2. Sat(g, k) BY <2>2, <3>1
    <3> HIDE DEF g, Sat
    <3> QED BY <3>2
  <2>3. CASE k # 0
    <3>0. k \in 1..N /\ k - 1 \in 0..N BY <2>3
    <3>1. k - 1 \notin T
      <4> HIDE DEF T
      <4> QED BY <2>1, <3>0
    <3>2. PICK g : Sat(g, k - 1)
      <4> HIDE DEF Sat
      <4> QED BY <3>0, <3>1
    <3>a. N - (k - 1) = N - k + 1 BY <3>0
    <3>3. g = [p \in (N - k + 1)..N |-> IF p = N THEN {} ELSE own[p] \cup g[nx[p]]]
      BY <3>2, <3>a
    <3> DEFINE h == [p \in (N - k)..N |-> IF p = N - k THEN own[p] \cup g[nx[p]] ELSE g[p]]
    <3>4. N - k < N /\ N - k \in 0..N BY <2>3
    <3>5. ASSUME NEW p \in (N - k)..N
          PROVE  h[p] = IF p = N THEN {} ELSE own[p] \cup h[nx[p]]
      <4>1. CASE p = N
        <5>1. h[p] = g[p]
          <6>1. p # N - k BY <3>4, <4>1
          <6> QED BY <6>1
        <5>2. p \in (N - k + 1)..N BY <3>4, <4>1
        <5>3. g[p] = {} BY <3>3, <4>1, <5>2
        <5> QED BY <4>1, <5>1, <5>3
      <4>2. CASE p # N
        <5>1. p \in 0..N /\ p < N BY <4>2
        <5>2. nx[p] \in (p + 1)..N BY <1>0, <5>1
        <5>3. h[nx[p]] = g[nx[p]]
          <6> DEFINE q == nx[p]
          <6>1. q \in (N - k)..N /\ q # N - k BY <5>2
          <6> HIDE DEF q
          <6>2. h[q] = g[q] BY <6>1
          <6> QED BY <6>2 DEF q
        <5>4. h[p] = own[p] \cup g[nx[p]]
          <6>1. CASE p = N - k BY <6>1
          <6>2. CASE p # N - k
            <7>1. h[p] = g[p] BY <6>2
            <7>2. p \in (N - k + 1)..N BY <6>2
            <7>3. g[p] = IF p = N THEN {} ELSE own[p] \cup g[nx[p]] BY <3>3, <7>2
            <7> QED BY <4>2, <7>1, <7>3
          <6> QED BY <6>1, <6>2
        <5> QED BY <4>2, <5>3, <5>4
      <4> QED BY <4>1, <4>2
    <3>6. h = [p \in (N - k)..N |-> h[p]] OBVIOUS
    <3>7. Sat(h, k)
      <4> HIDE DEF h
      <4> QED BY <3>5, <3>6
    <3> HIDE DEF Sat, h
    <3> QED BY <3>7
  <2> QED BY <2>2, <2>3
<1>2. \E g : Sat(g, N)
  <2> HIDE DEF Sat
  <2> QED BY <1>1
<1>3. PICK g : Sat(g, N) BY <1>2
<1>4. N - N = 0 OBVIOUS
<1>5. g = [p \in 0..N |-> IF p = N THEN {} ELSE own[p] \cup g[nx[p]]] BY <1>3, <1>4
<1>6. g = [p \in 0..N |-> g[p]] BY <1>5
<1>7. \A p \in 0..N : g[p] = IF p = N THEN {} ELSE own[p] \cup g[nx[p]] BY <1>5
<1> QED BY <1>6, <1>7 DEF Scans

\* What is collected along the way is collected in the end.
LEMMA ScanWithin ==
  ASSUME NEW N \in Nat, NEW own, NEW nx, NEW g, Scans(N, own, nx, g),
         NEW P \in SUBSET (0..N), NEW G,
         \A p \in P : p < N => nx[p] \in P /\ nx[p] > p /\ own[p] \subseteq G
  PROVE  \A p \in P : g[p] \subseteq G
<1> DEFINE T == {N - p : p \in {q \in P : ~(g[q] \subseteq G)}}
<1>1. T = {}
  <2> SUFFICES ASSUME T # {} PROVE FALSE OBVIOUS
  <2>1. PICK k \in T : \A j \in T : k <= j
    <3>1. T \subseteq Nat OBVIOUS
    <3> HIDE DEF T
    <3> QED BY <3>1, LeastNat
  <2>2. PICK p \in P : k = N - p /\ ~(g[p] \subseteq G) OBVIOUS
  <2>3. p # N BY <2>2 DEF Scans
  <2>4. p \in 0..N /\ p < N BY <2>3
  <2>5. g[p] = own[p] \cup g[nx[p]] BY <2>3, <2>4 DEF Scans
  <2>6. nx[p] \in P /\ nx[p] > p /\ own[p] \subseteq G BY <2>4
  <2>7. ~(g[nx[p]] \subseteq G) BY <2>2, <2>5, <2>6
  <2>8. N - nx[p] \in T BY <2>6, <2>7
  <2>9. nx[p] \in 0..N BY <2>6
  <2>10. k <= N - nx[p]
    <3> HIDE DEF T
    <3> QED BY <2>1, <2>8
  <2> HIDE DEF T
  <2> QED BY <2>2, <2>4, <2>6, <2>9, <2>10
<1> QED BY <1>1

\* A segment that the scan finds is a number of whole blocks that are free.
LEMMA FreeSegmentsAre ==
  ASSUME NEW n \in Nat, n > 0, NEW had, NEW busy,
         NEW b \in FreeSegments(n * BlockSize, BlockSize, had, busy)
  PROVE  \E k, m \in Nat : /\ m > 0 /\ k * BlockSize < Size
                           /\ b = Block(k * BlockSize, m * BlockSize)
                           /\ ~Taken(b, m * BlockSize, BlockSize, had, busy)
<1> DEFINE target == n * BlockSize
<1> DEFINE Blocks(p, k) == Block(p, k * BlockSize)
<1> DEFINE Free(p) == {k \in 1..(target \div BlockSize) :
                         ~Taken(Blocks(p, k), k * BlockSize, BlockSize, had, busy)}
<1> DEFINE scan[p \in 0..Size] ==
             IF p = Size THEN {}
             ELSE UNION {IF free = {} THEN scan[getEnd(Blocks(p, 1))]
                         ELSE {Blocks(p, Max(free))} \cup scan[getEnd(Blocks(p, Max(free)))] :
                           free \in {Free(p)}}
<1>1. FreeSegments(target, BlockSize, had, busy) = scan[0] BY DEF FreeSegments
<1>0. BlockSize \in Nat /\ BlockSize > 0 /\ Size \in Nat /\ Size > 0 BY SegmentAssumption
<1>2. target \in Nat /\ target >= 1 /\ target \div BlockSize \in Int
  BY <1>0, Division
<1>5. ASSUME NEW p, Free(p) # {} PROVE Max(Free(p)) \in Free(p)
  <2>1. PICK top \in Int : top = target \div BlockSize BY <1>2
  <2>2. \A c \in Free(p) : c \in Nat /\ c <= top BY <2>1
  <2> DEFINE D == {top - c : c \in Free(p)}
  <2> HIDE DEF Free, target
  <2>3. D \subseteq Nat BY <2>2
  <2>4. PICK d \in D : \A e \in D : d <= e
    <3>1. D # {} BY <1>5
    <3> HIDE DEF D
    <3> QED BY <2>3, <3>1, LeastNat
  <2>5. PICK c \in Free(p) : d = top - c OBVIOUS
  <2>6. ASSUME NEW e \in Free(p) PROVE c >= e
    <3>1. d <= top - e BY <2>4
    <3> QED BY <2>2, <2>5, <3>1
  <2>7. \E x \in Free(p) : \A y \in Free(p) : x >= y BY <2>6
  <2> QED BY <2>7 DEF Max
<1> DEFINE own == [p \in 0..Size |-> IF Free(p) = {} THEN {} ELSE {Blocks(p, Max(Free(p)))}]
<1> DEFINE step(p) == IF Free(p) = {} THEN 1 ELSE Max(Free(p))
<1> DEFINE nx == [p \in 0..Size |-> getEnd(Blocks(p, step(p)))]
<1>6. ASSUME NEW p PROVE step(p) \in Nat /\ step(p) > 0
  <2>1. \A k \in Free(p) : k \in Nat /\ k > 0 OBVIOUS
  <2> HIDE DEF Free
  <2> QED BY <1>5, <2>1
<1>7. ASSUME NEW p \in 0..Size, p < Size
      PROVE  nx[p] \in (p + 1)..Size /\ (At(p) => At(nx[p]))
  <2>1. PICK m \in Nat : m > 0 /\ step(p) = m
    <3> HIDE DEF step
    <3> QED BY <1>6
  <2>2. m * BlockSize \in Nat /\ m * BlockSize > 0 BY <1>0, <2>1
  <2>3. nx[p] = getEnd(Block(p, m * BlockSize))
    <3>1. nx[p] = getEnd(Blocks(p, step(p))) OBVIOUS
    <3> HIDE DEF nx, step
    <3> QED BY <2>1, <3>1
  <2> HIDE DEF nx, step
  <2>4. p \in Nat OBVIOUS
  <2> DEFINE c == m * BlockSize
  <2>5. getEnd(Block(p, c)) \in {Size, p + c} /\ getEnd(Block(p, c)) <= Size /\ getEnd(Block(p, c)) > p
    <3>1. c \in Nat /\ c > 0 BY <2>2
    <3> HIDE DEF c
    <3> QED BY <1>7, <2>4, <3>1, BlockIs
  <2>6. nx[p] \in (p + 1)..Size BY <1>0, <2>2, <2>3, <2>4, <2>5
  <2>7. At(p) => At(nx[p]) BY <1>7, <2>1, <2>3, <2>4, AtAfter
  <2> QED BY <2>6, <2>7
<1>8. Scans(Size, own, nx, scan)
  <2> DEFINE F(g) == [p \in 0..Size |->
             IF p = Size THEN {}
             ELSE UNION {IF free = {} THEN g[getEnd(Blocks(p, 1))]
                         ELSE {Blocks(p, Max(free))} \cup g[getEnd(Blocks(p, Max(free)))] :
                           free \in {Free(p)}}]
  <2> DEFINE H(g) == [p \in 0..Size |-> IF p = Size THEN {} ELSE own[p] \cup g[nx[p]]]
  <2>1. ASSUME NEW g PROVE F(g) = H(g)
    <3>1. ASSUME NEW p \in 0..Size PROVE F(g)[p] = H(g)[p]
      <4>1. own[p] = IF Free(p) = {} THEN {} ELSE {Blocks(p, Max(Free(p)))} OBVIOUS
      <4>2. nx[p] = getEnd(Blocks(p, IF Free(p) = {} THEN 1 ELSE Max(Free(p)))) OBVIOUS
      <4> HIDE DEF own, nx, step, Free, Blocks
      <4>3. F(g)[p] = IF p = Size THEN {}
                      ELSE IF Free(p) = {} THEN g[getEnd(Blocks(p, 1))]
                      ELSE {Blocks(p, Max(Free(p)))} \cup g[getEnd(Blocks(p, Max(Free(p))))]
        OBVIOUS
      <4>4. H(g)[p] = IF p = Size THEN {} ELSE own[p] \cup g[nx[p]] OBVIOUS
      <4> QED BY <4>1, <4>2, <4>3, <4>4
    <3> HIDE DEF own, nx, step, Free, Blocks
    <3> QED BY <3>1
  <2>2. \E g : g = H(g)
    <3>1. Onward(Size, own, nx)
      <4>1. own = [p \in 0..Size |-> own[p]] OBVIOUS
      <4>2. \A p \in 0..Size : p < Size => nx[p] \in (p + 1)..Size BY <1>7
      <4> HIDE DEF own, nx
      <4> QED BY <4>1, <4>2 DEF Onward
    <3> HIDE DEF own, nx
    <3>2. PICK g : g = [p \in 0..Size |-> g[p]] /\ Scans(Size, own, nx, g)
      BY <1>0, <3>1, ScanExists
    <3>3. g = H(g) BY <3>2 DEF Scans
    <3> HIDE DEF H
    <3> QED BY <3>3
  <2>3. \E g : g = F(g)
    <3> HIDE DEF F, H
    <3> QED BY <2>1, <2>2
  <2>4. scan = CHOOSE g : g = F(g) OBVIOUS
  <2>5. scan = F(scan)
    <3> HIDE DEF F, scan
    <3> QED BY <2>3, <2>4
  <2>6. scan = H(scan)
    <3> HIDE DEF F, H, scan
    <3> QED BY <2>1, <2>5
  <2> HIDE DEF own, nx, scan
  <2> QED BY <2>6 DEF Scans
<1> DEFINE Good(x) == \E k, m \in Nat : /\ m > 0 /\ k * BlockSize < Size
                                        /\ x = Block(k * BlockSize, m * BlockSize)
                                        /\ ~Taken(x, m * BlockSize, BlockSize, had, busy)
<1> DEFINE P == {p \in 0..Size : At(p)}
<1> DEFINE G == {x \in FileSegs : Good(x)}
<1>9. ASSUME NEW p \in P, p < Size PROVE nx[p] \in P /\ nx[p] > p /\ own[p] \subseteq G
  <2>1. nx[p] \in P /\ nx[p] > p
    <3>1. p \in 0..Size /\ At(p) BY <1>9
    <3> HIDE DEF nx
    <3>2. nx[p] \in (p + 1)..Size /\ At(nx[p]) BY <1>7, <1>9, <3>1
    <3> QED BY <1>0, <3>1, <3>2
  <2>2. own[p] \subseteq G
    <3> SUFFICES ASSUME NEW x \in own[p] PROVE x \in G OBVIOUS
    <3>1. Free(p) # {} /\ x = Blocks(p, Max(Free(p))) OBVIOUS
    <3>2. PICK m \in Nat : m > 0 /\ m \in Free(p) /\ x = Block(p, m * BlockSize)
      <4>1. PICK m : m = Max(Free(p)) OBVIOUS
      <4>2. m \in Free(p)
        <5> HIDE DEF Free
        <5> QED BY <1>5, <3>1, <4>1
      <4>3. x = Block(p, m * BlockSize)
        <5> HIDE DEF Free
        <5> QED BY <3>1, <4>1
      <4>4. m \in Nat /\ m > 0 BY <4>2
      <4> HIDE DEF Free
      <4> QED BY <4>2, <4>3, <4>4
    <3>3. ~Taken(x, m * BlockSize, BlockSize, had, busy) BY <3>2
    <3>4. PICK k \in Nat : p = k * BlockSize BY <1>0, <1>9 DEF At
    <3>5. m * BlockSize \in Nat /\ m * BlockSize > 0 BY <1>0, <3>2
    <3>6. x \in FileSegs
      <4> DEFINE c == m * BlockSize
      <4>1. c \in Nat /\ c > 0 /\ p \in Nat /\ x = Block(p, c) BY <3>2, <3>5
      <4> HIDE DEF c
      <4> QED BY <1>9, <4>1, BlockIs
    <3>7. Good(x) BY <1>9, <3>2, <3>3, <3>4
    <3> HIDE DEF Good
    <3> QED BY <3>6, <3>7
  <2> QED BY <2>1, <2>2
<1>10. 0 \in P
  <2>1. 0 = 0 * BlockSize BY <1>0
  <2>2. At(0) BY <2>1 DEF At
  <2> QED BY <1>0, <2>2
<1>11. scan[0] \subseteq G
  <2>1. P \in SUBSET (0..Size) OBVIOUS
  <2> HIDE DEF P, G, own, nx, scan
  <2>2. \A p \in P : p < Size => nx[p] \in P /\ nx[p] > p /\ own[p] \subseteq G BY <1>9
  <2>3. \A p \in P : scan[p] \subseteq G BY <1>0, <1>8, <2>1, <2>2, ScanWithin
  <2> QED BY <1>10, <2>3
<1>12. b \in G
  <2> HIDE DEF scan, G
  <2> QED BY <1>1, <1>11
<1> QED BY <1>12

\* The target is a number of whole blocks.
LEMMA TargetIs ==
  ASSUME NEW wanted \in Nat, NEW downloaded \in Nat
  PROVE  \E n \in Nat : n > 0 /\ targetSize(wanted, downloaded, BlockSize) = n * BlockSize
<1>0. BlockSize \in Nat /\ BlockSize > 0 /\ Size \in Nat /\ Size > 0 BY SegmentAssumption
<1> DEFINE left == (wanted * (Size * Size - downloaded * downloaded)) \div (Size * Size)
<1> DEFINE target == Max({wanted \div 4, left})
<1>1. targetSize(wanted, downloaded, BlockSize) =
        IF target > BlockSize THEN roundDown(target, BlockSize) ELSE BlockSize
  BY DEF targetSize
<1>2. left \in Int
  <2>1. Size * Size \in Nat /\ Size * Size > 0 BY <1>0
  <2>2. wanted * (Size * Size - downloaded * downloaded) \in Int BY <1>0
  <2> QED BY <2>1, <2>2, Division
<1>3. wanted \div 4 \in Int BY Division
<1> HIDE DEF left
<1>4. target \in Int
  <2>1. PICK w \in Int : w = wanted \div 4 BY <1>3
  <2> QED BY <1>2, <2>1, MinOfTwo
<1> HIDE DEF target
<1>5. CASE target > BlockSize
  <2>1. target \in Nat /\ target >= BlockSize BY <1>0, <1>4, <1>5
  <2>2. /\ \E k \in Nat : roundDown(target, BlockSize) = k * BlockSize
        /\ roundDown(target, BlockSize) >= BlockSize
    BY <1>0, <2>1, RoundsDown
  <2>3. PICK k \in Nat : roundDown(target, BlockSize) = k * BlockSize BY <2>2
  <2>4. k # 0 BY <1>0, <2>2, <2>3
  <2> QED BY <1>1, <1>5, <2>3, <2>4
<1>6. CASE ~(target > BlockSize)
  <2>1. BlockSize = 1 * BlockSize BY <1>0
  <2> QED BY <1>1, <1>6, <2>1
<1> QED BY <1>5, <1>6

\* What a partial source gives of a free segment lies in the segment and in one
\* of its pieces.
LEMMA PartIs ==
  ASSUME NEW s \in FileSegs, Aligned(s), NEW i \in Nat, NEW j \in Nat, i < j,
         NEW n \in Nat, n > 0,
         NEW a \in Int, a = Min({Size, i * BlockSize}),
         NEW e \in Int, e = Min({Size, j * BlockSize}),
         \/ a <= s.start /\ s.start < e
         \/ s.start <= a /\ a < getEnd(s)
  PROVE  /\ Part(s, a, e, n * BlockSize) \in FileSegs
         /\ Aligned(Part(s, a, e, n * BlockSize))
         /\ contains(s, Part(s, a, e, n * BlockSize))
         /\ i * BlockSize <= Part(s, a, e, n * BlockSize).start
         /\ getEnd(Part(s, a, e, n * BlockSize)) <= j * BlockSize
<1>0. BlockSize \in Nat /\ BlockSize > 0 /\ Size \in Nat /\ Size > 0 BY SegmentAssumption
<1>1. PICK ib \in Nat : ib = i * BlockSize
  <2>1. i * BlockSize \in Nat BY <1>0
  <2> QED BY <2>1
<1>2. PICK jb \in Nat : jb = j * BlockSize
  <2>1. j * BlockSize \in Nat BY <1>0
  <2> QED BY <2>1
<1>3. PICK nb \in Nat : nb = n * BlockSize /\ nb > 0
  <2>1. n * BlockSize \in Nat /\ n * BlockSize > 0 BY <1>0
  <2> QED BY <2>1
<1>4. ib + BlockSize <= jb
  <2>1. i + 1 <= j OBVIOUS
  <2>2. (i + 1) * BlockSize <= j * BlockSize BY <1>0, <2>1, Multiples
  <2> QED BY <1>0, <1>1, <1>2, <2>2, Multiples
<1>5. a \in {Size, ib} /\ a <= Size /\ a <= ib
  <2>1. a = Min({Size, ib}) BY <1>1
  <2>2. Size \in Int /\ ib \in Int BY <1>0
  <2> QED BY <2>1, <2>2, MinOfTwo
<1>6. e \in {Size, jb} /\ e <= Size /\ e <= jb
  <2>1. e = Min({Size, jb}) BY <1>2
  <2>2. Size \in Int /\ jb \in Int BY <1>0
  <2> QED BY <2>1, <2>2, MinOfTwo
<1>7. /\ s.start \in Int /\ getEnd(s) \in Int /\ s.start >= 0 /\ s.start < getEnd(s)
      /\ getEnd(s) <= Size
  BY FileSegsAre
<1>8. PICK st \in Int : st = Max({s.start, a}) /\ st \in {s.start, a} /\ st >= s.start /\ st >= a
  <2>1. PICK x \in Int : x = s.start BY <1>7
  <2>2. Max({x, a}) \in {x, a} /\ Max({x, a}) >= x /\ Max({x, a}) >= a BY MinOfTwo
  <2> QED BY <2>1, <2>2
<1>9. st \in {s.start, a} /\ st >= s.start /\ st >= a BY <1>8
<1>10. PICK l \in Int : l = Min({getEnd(s), e}) /\ l \in {getEnd(s), e} /\ l <= getEnd(s) /\ l <= e
  <2>1. PICK x \in Int : x = getEnd(s) BY <1>7
  <2>2. Min({x, e}) \in {x, e} /\ Min({x, e}) <= x /\ Min({x, e}) <= e BY MinOfTwo
  <2> QED BY <2>1, <2>2
<1>11. l \in {getEnd(s), e} /\ l <= getEnd(s) /\ l <= e BY <1>10
<1>12. st < l /\ st < Size /\ a = ib BY <1>0, <1>4, <1>5, <1>6, <1>7, <1>9, <1>11
<1>13. PICK r \in Int : r = l - st BY <1>12
<1>14. PICK size \in Int : size = Min({r, nb}) /\ size \in {r, nb} /\ size <= r /\ size <= nb
  <2>1. r \in Int /\ nb \in Int OBVIOUS
  <2>2. Min({r, nb}) \in {r, nb} /\ Min({r, nb}) <= r /\ Min({r, nb}) <= nb BY <2>1, MinOfTwo
  <2> QED BY <1>3, <2>2
<1>15. Part(s, a, e, n * BlockSize) = Segment(st, size)
  BY <1>3, <1>8, <1>10, <1>13, <1>14 DEF Part
<1>16. size >= 1 /\ st >= 0 /\ st + size <= l /\ st + size \in {l, st + nb}
  BY <1>3, <1>7, <1>9, <1>12, <1>13, <1>14
<1>17. /\ Segment(st, size) \in FileSegs /\ Segment(st, size).start = st
       /\ getEnd(Segment(st, size)) = st + size
  <2>1. st \in Int /\ size \in Int /\ st >= 0 /\ size >= 1 /\ st + size <= Size
    BY <1>0, <1>7, <1>11, <1>16
  <2> QED BY <2>1, SegmentIs
<1>18. At(a) /\ At(e) BY <1>1, <1>2, <1>5, <1>6 DEF At
<1>19. At(st) /\ At(l) BY <1>9, <1>11, <1>18 DEF Aligned
<1>20. At(st + size)
  <2>1. PICK k \in Nat : st = k * BlockSize BY <1>12, <1>19 DEF At
  <2>2. st + nb = (k + n) * BlockSize BY <1>0, <1>3, <2>1
  <2>3. k + n \in Nat OBVIOUS
  <2>4. At(st + nb) BY <2>2, <2>3 DEF At
  <2> QED BY <1>16, <1>19, <2>4
<1>21. ib <= st /\ st + size <= jb BY <1>6, <1>9, <1>11, <1>12, <1>16
<1>22. s.start <= st /\ getEnd(s) >= st + size BY <1>7, <1>9, <1>11, <1>16
<1> QED BY <1>1, <1>2, <1>15, <1>17, <1>19, <1>20, <1>21, <1>22 DEF Aligned, contains

\* What is cut to the parts of a source lies in a free segment and in a part.
LEMMA NeededAre ==
  ASSUME NEW free, \A s \in free : s \in FileSegs /\ Aligned(s),
         NEW pieces, \A p \in pieces : p \in Nat \X Nat /\ p[1] < p[2],
         NEW n \in Nat, n > 0,
         NEW x \in NeededParts(free, pieces, BlockSize, n * BlockSize)
  PROVE  /\ x \in FileSegs /\ Aligned(x)
         /\ \E s \in free : contains(s, x)
         /\ \E p \in pieces : p[1] * BlockSize <= x.start /\ getEnd(x) <= p[2] * BlockSize
<1> DEFINE position(k) == Min({Size, k * BlockSize})
<1> DEFINE Needed(s, p) == \/ position(p[1]) <= s.start /\ s.start < position(p[2])
                           \/ s.start <= position(p[1]) /\ position(p[1]) < getEnd(s)
<1>1. PICK s \in free, p \in pieces :
        Needed(s, p) /\ x = Part(s, position(p[1]), position(p[2]), n * BlockSize)
  <2>1. NeededParts(free, pieces, BlockSize, n * BlockSize) =
          {Part(y[1], position(y[2][1]), position(y[2][2]), n * BlockSize) :
             y \in {z \in free \X pieces : Needed(z[1], z[2])}}
    BY DEF NeededParts
  <2> HIDE DEF position, Needed
  <2>2. PICK y \in free \X pieces :
          /\ Needed(y[1], y[2])
          /\ x = Part(y[1], position(y[2][1]), position(y[2][2]), n * BlockSize)
    BY <2>1
  <2>3. y[1] \in free /\ y[2] \in pieces OBVIOUS
  <2> QED BY <2>2, <2>3
<1>0. BlockSize \in Nat /\ BlockSize > 0 /\ Size \in Nat /\ Size > 0 BY SegmentAssumption
<1>2. p[1] \in Nat /\ p[2] \in Nat /\ p[1] < p[2] OBVIOUS
<1>3. \A k \in Nat : position(k) \in Int
  <2> SUFFICES ASSUME NEW k \in Nat PROVE Min({Size, k * BlockSize}) \in Int OBVIOUS
  <2>1. PICK kb \in Int : kb = k * BlockSize
    <3>1. k * BlockSize \in Int BY <1>0
    <3> QED BY <3>1
  <2>a. Size \in Int BY <1>0
  <2>2. Min({Size, kb}) \in {Size, kb} BY <2>a, MinOfTwo
  <2> QED BY <1>0, <2>1, <2>2
<1>4. PICK a \in Int : a = position(p[1]) BY <1>2, <1>3
<1>5. PICK e \in Int : e = position(p[2]) BY <1>2, <1>3
<1>6. s \in FileSegs /\ Aligned(s) OBVIOUS
<1>7. \/ a <= s.start /\ s.start < e
      \/ s.start <= a /\ a < getEnd(s)
  <2> HIDE DEF position
  <2> QED BY <1>1, <1>4, <1>5
<1>8. x = Part(s, a, e, n * BlockSize)
  <2> HIDE DEF position
  <2> QED BY <1>1, <1>4, <1>5
<1>9. PICK i \in Nat, j \in Nat : i = p[1] /\ j = p[2] BY <1>2
<1>10. a = Min({Size, i * BlockSize}) /\ e = Min({Size, j * BlockSize}) /\ i < j
  BY <1>2, <1>4, <1>5, <1>9
<1>11. /\ x \in FileSegs /\ Aligned(x) /\ contains(s, x)
       /\ i * BlockSize <= x.start /\ getEnd(x) <= j * BlockSize
  BY <1>6, <1>7, <1>8, <1>10, PartIs
<1> QED BY <1>9, <1>11

\* A free segment begins and ends with leaves, and overlaps nothing that is
\* being downloaded or done.
LEMMA FreeAre ==
  ASSUME NEW n \in Nat, n > 0, NEW had, NEW busy,
         NEW b \in FreeSegments(n * BlockSize, BlockSize, had, busy)
  PROVE  /\ b \in FileSegs /\ Aligned(b)
         /\ \A s \in busy : ~overlaps(b, s)
         /\ (\A s \in had : s \in FileSegs /\ Aligned(s)) => \A s \in had : Apart(b, s)
<1>0. BlockSize \in Nat /\ BlockSize > 0 /\ Size \in Nat /\ Size > 0 BY SegmentAssumption
<1>1. PICK k \in Nat, m \in Nat : /\ m > 0 /\ k * BlockSize < Size
                                  /\ b = Block(k * BlockSize, m * BlockSize)
                                  /\ ~Taken(b, m * BlockSize, BlockSize, had, busy)
  BY FreeSegmentsAre
<1>2. PICK p \in Nat : p = k * BlockSize BY <1>0
<1>3. PICK c \in Nat : c = m * BlockSize /\ c > 0 BY <1>0, <1>1
<1>4. /\ b \in FileSegs /\ b.start = p /\ getEnd(b) \in {Size, p + c} /\ getEnd(b) <= Size
      /\ getEnd(b) <= p + c /\ getEnd(b) > p
  BY <1>1, <1>2, <1>3, BlockIs
<1>5. At(p) BY <1>2 DEF At
<1>6. At(getEnd(b)) BY <1>1, <1>2, <1>5, AtAfter
<1>7. \A s \in busy : ~overlaps(b, s) BY <1>1 DEF Taken
<1>8. ASSUME NEW s \in had, s \in FileSegs, Aligned(s) PROVE Apart(b, s)
  <2>1. CASE c <= BlockSize
    <3>1. ~contains(s, b) BY <1>1, <1>3, <2>1 DEF Taken
    <3>2. c = BlockSize
      <4>1. 1 * BlockSize <= m * BlockSize BY <1>0, <1>1, Multiples
      <4> QED BY <1>0, <1>3, <2>1, <4>1
    <3>3. /\ k * BlockSize < Size /\ b.start = k * BlockSize
          /\ getEnd(b) = Size \/ getEnd(b) = k * BlockSize + BlockSize
          /\ getEnd(b) <= k * BlockSize + BlockSize
      BY <1>1, <1>2, <1>4, <3>2
    <3> QED BY <1>4, <1>8, <3>1, <3>3, LeafApart
  <2>2. CASE ~(c <= BlockSize)
    <3>1. ~overlaps(b, s) BY <1>1, <1>3, <2>2 DEF Taken
    <3>2. /\ s.start \in Int /\ getEnd(s) \in Int /\ b.start \in Int /\ getEnd(b) \in Int
      BY <1>4, <1>8, FileSegsAre
    <3> QED BY <3>1, <3>2 DEF overlaps, Apart
  <2> QED BY <2>1, <2>2
<1> QED BY <1>4, <1>5, <1>6, <1>7, <1>8 DEF Aligned

\* Util::roundUp returns the first multiple that is not smaller.
LEMMA RoundsUp ==
  ASSUME NEW n \in Nat, NEW b \in Nat, b > 0
  PROVE  roundUp(n, b) \in Int /\ roundUp(n, b) >= n
<1>1. PICK m \in Int : m = n + b - 1 OBVIOUS
<1>2. PICK q \in Int : q = m \div b /\ m < q * b + b BY <1>1, Division
<1>3. roundUp(n, b) = q * b BY <1>1, <1>2 DEF roundUp
<1>4. q * b \in Int OBVIOUS
<1> QED BY <1>1, <1>2, <1>3, <1>4

\* Rounding leaves multiples alone.
LEMMA RoundsNot ==
  ASSUME NEW k \in Nat, NEW b \in Nat, b > 0
  PROVE  roundDown(k * b, b) = k * b /\ roundUp(k * b, b) = k * b
<1>1. PICK n \in Int : n = k * b
  <2>1. k * b \in Int OBVIOUS
  <2> QED BY <2>1
<1>2. ASSUME NEW m \in Int, n <= m, m < n + b PROVE m \div b = k
  <2>1. PICK q \in Int : q = m \div b /\ q * b <= m /\ m < q * b + b BY Division
  <2>2. q * b \in Int /\ (k + 1) * b = n + b /\ (q + 1) * b = q * b + b BY <1>1
  <2>3. q * b < (k + 1) * b BY <1>2, <2>1, <2>2
  <2>4. k * b < (q + 1) * b BY <1>1, <1>2, <2>1, <2>2
  <2>5. q + 1 <= k + 1 BY <2>3, Multiples
  <2>6. k + 1 <= q + 1 BY <2>4, Multiples
  <2> QED BY <2>1, <2>5, <2>6
<1>3. n \div b = k BY <1>1, <1>2
<1>4. (n + b - 1) \div b = k
  <2>1. PICK m \in Int : m = n + b - 1 BY <1>1
  <2>2. n <= m /\ m < n + b BY <1>1, <2>1
  <2> QED BY <1>2, <2>1, <2>2
<1> QED BY <1>1, <1>3, <1>4 DEF roundDown, roundUp

\* The request when the whole file is one segment stays inside the file.  In blocks
\* it is the first gap.
LEMMA UnchunkedIs ==
  ASSUME NEW had, had \subseteq FileSegs, Separated(had), NEW blk \in {BlockSize, Size}
  PROVE  /\ \E a \in Int, n \in Int : Unchunked(had, blk) = Segment(a, n)
         /\ Unchunked(had, blk).size > 0 => Unchunked(had, blk) \in FileSegs
         /\ had = {} => Unchunked(had, blk) = Whole
         /\ (\A s \in had : Aligned(s)) /\ blk = BlockSize /\ ~segmentsDone(had) =>
              /\ Unchunked(had, blk) \in FileSegs /\ Aligned(Unchunked(had, blk))
              /\ \A s \in had : Apart(Unchunked(had, blk), s)
<1>0. BlockSize \in Nat /\ BlockSize > 0 /\ Size \in Nat /\ Size > 0 /\ blk \in Nat /\ blk > 0
  BY SegmentAssumption
<1> DEFINE E == Earliest(had)
<1> DEFINE begun == had # {} /\ E.start = 0
<1> DEFINE rest == IF begun THEN had \ {E} ELSE had
<1> DEFINE start == IF begun THEN roundDown(getEnd(E), blk) ELSE 0
<1> DEFINE R == Earliest(rest)
<1> DEFINE end == IF rest = {} THEN Size ELSE roundUp(R.start, blk)
<1>1. Unchunked(had, blk) = Segment(start, Min({Size, end}) - start) BY DEF Unchunked
<1>2. had # {} => E \in had /\ E \in FileSegs BY EarliestExists
<1>3. rest \subseteq had /\ rest \subseteq FileSegs OBVIOUS
<1>4. rest # {} => R \in rest /\ \A r \in rest : ~Before(r, R)
  <2> HIDE DEF rest
  <2> QED BY <1>3, EarliestExists
<1>5. begun => /\ getEnd(E) \in Nat /\ getEnd(E) <= Size /\ getEnd(E) > 0 /\ E \in had
               /\ E.start = 0 /\ E.size = getEnd(E)
  BY <1>2, FileSegsAre
<1>6. ASSUME NEW s \in rest PROVE s.start > (IF begun THEN getEnd(E) ELSE 0) /\ s.start \in Nat
  <2>1. s \in had /\ s \in FileSegs BY <1>3
  <2>2. /\ s.start \in Int /\ s.start >= 0 /\ getEnd(s) \in Int /\ getEnd(s) > s.start
    BY <2>1, FileSegsAre
  <2>3. CASE begun
    <3>1. s # E BY <2>3
    <3>2. getEnd(E) < s.start \/ getEnd(s) < E.start BY <1>5, <2>1, <2>3, <3>1 DEF Separated
    <3> QED BY <1>5, <2>2, <2>3, <3>2
  <2>4. CASE ~begun
    <3>1. E.start # 0 /\ E \in FileSegs BY <1>2, <2>1, <2>4
    <3>2. ~Before(s, E) BY <2>1, EarliestExists
    <3>3. E.start <= s.start /\ E.start >= 0 /\ E.start \in Int
      BY <2>1, <3>1, <3>2, BeforeIsOrder, FileSegsAre
    <3> QED BY <2>2, <2>4, <3>1, <3>3
  <2> QED BY <2>3, <2>4
<1>7. PICK st \in Int : st = start /\ st >= 0 /\ st <= Size /\ (begun => st <= getEnd(E))
                        /\ (~begun => st = 0)
  <2>1. CASE begun
    <3>1. PICK e \in Nat : e = getEnd(E) /\ e <= Size BY <1>5, <2>1
    <3>2. roundDown(e, blk) \in Nat /\ roundDown(e, blk) <= e BY <1>0, RoundsDown
    <3> QED BY <1>0, <2>1, <3>1, <3>2
  <2>2. CASE ~begun BY <1>0, <2>2
  <2> QED BY <2>1, <2>2
<1>8. PICK en \in Int : en = end /\ en >= st /\ (~begun => en > st)
                        /\ (rest # {} => en >= R.start /\ R.start \in Nat /\ R.start > st)
                        /\ (rest = {} => en = Size)
  <2>1. CASE rest = {} BY <1>0, <1>7, <2>1
  <2>2. CASE rest # {}
    <3>1. R \in rest BY <1>4, <2>2
    <3>2. R.start \in Nat /\ R.start > (IF begun THEN getEnd(E) ELSE 0) BY <1>6, <3>1
    <3>3. PICK r \in Nat : r = R.start BY <3>2
    <3>4. roundUp(r, blk) \in Int /\ roundUp(r, blk) >= r BY <1>0, RoundsUp
    <3>5. end = roundUp(r, blk) BY <2>2, <3>3
    <3>6. r > st BY <1>5, <1>7, <3>2, <3>3
    <3> HIDE DEF end, rest, R, begun
    <3> QED BY <1>7, <2>2, <3>3, <3>4, <3>5, <3>6
  <2> QED BY <2>1, <2>2
<1> HIDE DEF start, end
<1>9. PICK m \in Int : m = Min({Size, en}) /\ m \in {Size, en} /\ m <= Size /\ m <= en
  <2>1. Size \in Int BY <1>0
  <2> QED BY <2>1, MinOfTwo
<1>10. PICK n \in Int : n = m - st /\ n >= 0 BY <1>7, <1>8, <1>9
<1>11. Unchunked(had, blk) = Segment(st, n) BY <1>1, <1>7, <1>8, <1>9, <1>10
<1>12. /\ Segment(st, n).start = st /\ Segment(st, n).size = n /\ getEnd(Segment(st, n)) = st + n
       /\ n >= 1 /\ st + n <= Size => Segment(st, n) \in FileSegs
  BY <1>7, SegmentIs
<1>13. st + n = m /\ st + n <= Size BY <1>9, <1>10
<1>14. \E a \in Int, k \in Int : Unchunked(had, blk) = Segment(a, k) BY <1>11
<1>15. Unchunked(had, blk).size > 0 => Unchunked(had, blk) \in FileSegs
  BY <1>11, <1>12, <1>13
<1>16. ASSUME had = {} PROVE Unchunked(had, blk) = Whole
  <2>1. ~begun /\ rest = {} BY <1>16
  <2>2. st = 0 /\ en = Size /\ m = Size /\ n = Size BY <1>0, <1>7, <1>8, <1>9, <1>10, <2>1
  <2> QED BY <1>11, <2>2 DEF Whole
<1>17. ASSUME \A s \in had : Aligned(s), blk = BlockSize, ~segmentsDone(had)
       PROVE  /\ Unchunked(had, blk) \in FileSegs /\ Aligned(Unchunked(had, blk))
              /\ \A s \in had : Apart(Unchunked(had, blk), s)
  <2>1. begun => st = getEnd(E) /\ st < Size
    <3> SUFFICES ASSUME begun PROVE st = getEnd(E) /\ st < Size OBVIOUS
    <3>1. getEnd(E) # Size
      <4> SUFFICES ASSUME getEnd(E) = Size PROVE FALSE OBVIOUS
      <4>1. E = Segment(0, Size) BY <1>2, <1>5, FileSegsAre
      <4>2. ASSUME NEW s \in had, s # E PROVE FALSE
        <5>1. s \in rest BY <4>2
        <5>2. s.start > Size BY <1>6, <5>1
        <5>3. s.start <= Size /\ s.start \in Int BY <1>0, <1>3, <5>1, FileSegsAre
        <5> QED BY <1>0, <5>2, <5>3
      <4>3. had = {E} BY <1>5, <4>2
      <4> QED BY <1>17, <4>1, <4>3 DEF segmentsDone
    <3>2. At(getEnd(E)) BY <1>5, <1>17 DEF Aligned
    <3>3. PICK k \in Nat : getEnd(E) = k * BlockSize BY <3>1, <3>2 DEF At
    <3>4. roundDown(getEnd(E), blk) = getEnd(E) BY <1>0, <1>17, <3>3, RoundsNot
    <3>5. start = getEnd(E) BY <3>4 DEF start
    <3> QED BY <1>0, <1>5, <1>7, <3>1, <3>5
  <2>2. rest # {} => en = R.start /\ en < Size /\ At(en)
    <3> SUFFICES ASSUME rest # {} PROVE en = R.start /\ en < Size /\ At(en) OBVIOUS
    <3>1. R \in had /\ R \in FileSegs BY <1>3, <1>4
    <3>2. R.start < Size /\ At(R.start)
      <4> HIDE DEF R, rest
      <4> QED BY <1>0, <1>17, <3>1, FileSegsAre DEF Aligned
    <3>a. R.start # Size BY <1>0, <1>8, <3>2
    <3>3. PICK k \in Nat : R.start = k * BlockSize
      <4> HIDE DEF R
      <4> QED BY <3>2, <3>a DEF At
    <3>4. roundUp(R.start, blk) = R.start BY <1>0, <1>17, <3>3, RoundsNot
    <3>5. end = R.start BY <3>4 DEF end
    <3> QED BY <1>8, <3>2, <3>5
  <2>3. At(st)
    <3>1. CASE begun
      <4>1. st = getEnd(E) /\ E \in had BY <1>5, <2>1, <3>1
      <4> QED BY <1>17, <4>1 DEF Aligned
    <3>2. CASE ~begun
      <4>1. st = 0 /\ 0 = 0 * BlockSize BY <1>0, <1>7, <3>2
      <4> QED BY <4>1 DEF At
    <3> QED BY <3>1, <3>2
  <2>4. At(en) /\ en <= Size /\ st < en
    <3>1. CASE rest = {}
      <4>1. en = Size BY <1>8, <3>1
      <4>2. st < Size BY <1>0, <1>7, <2>1
      <4> QED BY <1>0, <4>1, <4>2 DEF At
    <3>2. CASE rest # {} BY <1>0, <1>8, <2>2, <3>2
    <3> QED BY <3>1, <3>2
  <2>5. m = en BY <1>0, <1>9, <2>4
  <2>6. n >= 1 BY <1>10, <2>4, <2>5
  <2>7. Segment(st, n) \in FileSegs BY <1>12, <1>13, <2>6
  <2>8. Aligned(Segment(st, n)) BY <1>12, <1>13, <2>3, <2>4, <2>5 DEF Aligned
  <2>9. ASSUME NEW s \in had PROVE getEnd(s) <= st \/ en <= s.start
    <3>1. CASE s \in rest
      <4>1. R \in rest /\ ~Before(s, R) BY <1>4, <3>1
      <4>2. R \in FileSegs /\ s \in FileSegs BY <1>3, <3>1, <4>1
      <4>3. R.start <= s.start BY <4>1, <4>2, BeforeIsOrder
      <4>4. en = R.start BY <2>2, <3>1
      <4> QED BY <4>3, <4>4
    <3>2. CASE s \notin rest
      <4>1. begun /\ s = E BY <3>2
      <4> QED BY <1>5, <1>7, <2>1, <4>1
    <3> QED BY <3>1, <3>2
  <2>10. \A s \in had : Apart(Segment(st, n), s)
    BY <1>12, <1>13, <2>5, <2>9 DEF Apart
  <2> QED BY <1>11, <2>7, <2>8, <2>10
<1> QED BY <1>14, <1>15, <1>16, <1>17

\* The first free segment is one of them.
LEMMA FirstIs ==
  ASSUME NEW S, S \subseteq FileSegs, S # {}
  PROVE  First(S) \in S
<1> DEFINE A == {s.start : s \in S}
<1>1. A \subseteq Nat /\ A # {} BY FileSegsAre
<1>2. PICK a \in A : \A b \in A : a <= b
  <2> HIDE DEF A
  <2> QED BY <1>1, LeastNat
<1>3. PICK s \in S : \A t \in S : s.start <= t.start BY <1>2
<1> QED BY <1>3 DEF First

-----------------------------------------------------------------------------
(* States of the queue.                                                    *)

\* States of a connection that has a download.
Owning == {"assigned", "SND", "RUNNING", "putting"}
\* All its states.
Conns == Owning \cup {"idle", "starting", "silent"}

\* The users with an entry in QueueItem::downloads.
Entries == {downloads[i] : i \in DOMAIN downloads}

\* How a download ended.
Results == {"none", "finished", "failed", "unavailable"}
\* Where a recheck is.
Phases == {"none", "paused", "validated", "reset", "read", "end"}
\* The fields of a download.
Download == [type : {"none", "FILE", "TREE"}, seg : [start : Int, size : Int],
             over : BOOLEAN, pos : Nat, blk : {BlockSize, Size}, open : BOOLEAN,
             live : BOOLEAN, result : Results]

\* How far a download is, in each state of its connection.
DownloadIs(c, d) ==
  /\ d.seg.size > 0 => d.seg \in FileSegs
  /\ d.pos > 0 => d.pos <= d.seg.size
  /\ c \in {"assigned", "SND"} => d.pos = 0
  /\ c = "RUNNING" /\ d.type = "FILE" => d.pos < d.seg.size
  /\ c = "putting" /\ d.result = "finished" /\ d.type = "FILE" => d.seg.size > 0
  /\ c = "putting" /\ d.result # "finished" /\ d.type = "FILE" => d.pos = 0 \/ d.pos < d.seg.size

\* The file in the queue.
QueueOK ==
  /\ done \subseteq FileSegs /\ Separated(done)
  /\ finished \in Int
  /\ status \in {"QUEUED", "DOWNLOADED", "REMOVED"}
  /\ paused \subseteq {"bundle", "file"} /\ pausing \in BOOLEAN
  /\ blockSize \in {-1, BlockSize, Size} /\ tree \in BOOLEAN

\* Its sources.
SourcesOK ==
  /\ sources \subseteq Users /\ noTree \subseteq Users /\ partial \subseteq Users
  /\ parts \in [Users -> PartsInfos \cup {NoParts}]

\* Their connections.
TransfersOK ==
  /\ downloads \in Seq(Users) /\ running \in Seq(Users)
  /\ conn \in [Users -> Conns] /\ dl \in [Users -> Download]
  /\ \A u \in Users : DownloadIs(conn[u], dl[u])
  /\ disc \subseteq Users

\* The recheck.
Checks == [phase : Phases, done : SUBSET FileSegs, leaves : SUBSET Leaves, prio : BOOLEAN]

\* The disk, and the bounds of the model.
FilesOK ==
  /\ temp \in BOOLEAN /\ disk \subseteq Leaves /\ check \in Checks
  /\ fails \in 0..MaxFails /\ events \in 0..MaxEvents

\* The users with an entry are the elements of the list.
LEMMA EntriesAre == ToSet(downloads) = Entries
BY DEF ToSet, Entries

\* They are finitely many.
LEMMA EntriesFinite ==
  ASSUME downloads \in Seq(Users)
  PROVE  IsFiniteSet(Entries) /\ Entries \subseteq Users
<1>1. /\ Len(downloads) \in Nat /\ DOMAIN downloads = 1..Len(downloads)
      /\ downloads \in [1..Len(downloads) -> Users]
  OBVIOUS
<1>2. IsFiniteSet(1..Len(downloads)) BY <1>1, FS_Interval
<1>3. downloads \in Surjection(1..Len(downloads), Entries) BY <1>1 DEF Surjection, Entries
<1>4. IsFiniteSet(Entries) BY <1>2, <1>3, FS_Surjection
<1> QED BY <1>1, <1>4 DEF Entries

\* The block is a leaf or the file.
LEMMA BlockSizeIs ==
  ASSUME QueueOK
  PROVE  getBlockSize \in {BlockSize, Size}
BY DEF getBlockSize, QueueOK

\* A download does not go beyond its segment.
LEMMA PositionIs ==
  ASSUME TransfersOK, NEW u \in Users
  PROVE  /\ dl[u] \in Download /\ dl[u].pos \in 0..Size
         /\ dl[u].seg.start \in Int /\ dl[u].seg.size \in Int
         /\ dl[u].seg = Segment(dl[u].seg.start, dl[u].seg.size)
         /\ getEnd(dl[u].seg) \in Int
<1>1. dl[u] \in Download /\ DownloadIs(conn[u], dl[u]) BY DEF TransfersOK
<1>2. /\ dl[u].pos \in Nat /\ dl[u].seg \in [start : Int, size : Int] BY <1>1 DEF Download
<1>3. /\ dl[u].seg.start \in Int /\ dl[u].seg.size \in Int
      /\ dl[u].seg = Segment(dl[u].seg.start, dl[u].seg.size)
      /\ getEnd(dl[u].seg) \in Int
  BY <1>2 DEF Segment, getEnd
<1>4. dl[u].pos > 0 => dl[u].pos <= dl[u].seg.size /\ dl[u].seg \in FileSegs
  BY <1>1, <1>2, <1>3 DEF DownloadIs
<1>5. dl[u].seg \in FileSegs => dl[u].seg.size <= Size /\ Size \in Nat BY FileSegsAre
<1> QED BY <1>1, <1>2, <1>3, <1>4, <1>5, SegmentAssumption

\* What is downloaded is a number.
LEMMA DownloadedIs ==
  ASSUME TransfersOK, NEW S, S \subseteq FileSegs, Separated(S)
  PROVE  getDownloadedBytes(S) \in Nat
<1> DEFINE P == UNION {{u} \X (1..dl[u].pos) : u \in ToSet(downloads)}
<1>1. P \subseteq Entries \X (1..Size)
  <2> SUFFICES ASSUME NEW u \in Entries, NEW x \in {u} \X (1..dl[u].pos)
               PROVE  x \in Entries \X (1..Size)
    BY EntriesAre
  <2>1. u \in Users BY EntriesFinite DEF TransfersOK
  <2>2. dl[u].pos \in 0..Size BY <2>1, PositionIs
  <2> QED BY <2>2, SegmentAssumption
<1>2. IsFiniteSet(Entries \X (1..Size))
  <2>1. IsFiniteSet(1..Size) BY FS_Interval, SegmentAssumption
  <2>2. IsFiniteSet(Entries) BY EntriesFinite DEF TransfersOK
  <2> QED BY <2>1, <2>2, FS_Product
<1>3. IsFiniteSet(P)
  <2> HIDE DEF P
  <2> QED BY <1>1, <1>2, FS_Subset
<1>4. Cardinality(P) \in Nat BY <1>3, FS_CardinalityType
<1>5. getDownloadedSegments(S) \in Nat BY SumIsCover, UnitsFinite, FS_CardinalityType
<1>6. getDownloadedBytes(S) = getDownloadedSegments(S) + Cardinality(P) BY DEF getDownloadedBytes
<1> QED BY <1>4, <1>5, <1>6

\* getNextSegment returns a segment of the file, or an empty one.  Without
\* overlapping, what it returns is wanted: nobody else has been given any of it,
\* and it is not done.
LEMMA NextIs ==
  ASSUME TransfersOK, SourcesOK, NEW u \in Users, NEW S, S \subseteq FileSegs, Separated(S),
         NEW blk \in {BlockSize, Size}, NEW wanted \in Nat, NEW allow \in BOOLEAN,
         NEW r \in getNextSegment(u, S, blk, wanted, allow)
  PROVE  /\ r.seg \in [start : Int, size : Int] /\ r.over \in BOOLEAN
         /\ r.seg.size > 0 => r.seg \in FileSegs
         /\ ~OverlapSlow => ~r.over
         /\ ~OverlapSlow /\ isRunning /\ r.seg.size # 0 => r.seg.size > 0 /\ blk = BlockSize
         /\ ~OverlapSlow /\ r.seg.size > 0 =>
              /\ \A v \in Entries : Apart(r.seg, dl[v].seg)
              /\ blk = Size /\ S = {} => r.seg = Whole
              /\ blk = BlockSize /\ ~segmentsDone(S) /\ (\A s \in S : Aligned(s)) =>
                   Aligned(r.seg) /\ \A s \in S : Apart(r.seg, s)
<1> DEFINE target == targetSize(wanted, getDownloadedBytes(S), blk)
<1> DEFINE free == FreeSegments(target, blk, S, Segs)
<1> DEFINE full == parts[u] = NoParts
<1> DEFINE needed == NeededParts(free, parts[u], blk, target)
<1> DEFINE Goal(x) ==
         /\ x.seg \in [start : Int, size : Int] /\ x.over \in BOOLEAN
         /\ x.seg.size > 0 => x.seg \in FileSegs
         /\ ~OverlapSlow => ~x.over
         /\ ~OverlapSlow /\ isRunning /\ x.seg.size # 0 => x.seg.size > 0 /\ blk = BlockSize
         /\ ~OverlapSlow /\ x.seg.size > 0 =>
              /\ \A v \in Entries : Apart(x.seg, dl[v].seg)
              /\ blk = Size /\ S = {} => x.seg = Whole
              /\ blk = BlockSize /\ ~segmentsDone(S) /\ (\A s \in S : Aligned(s)) =>
                   Aligned(x.seg) /\ \A s \in S : Apart(x.seg, s)
<1> SUFFICES Goal(r) OBVIOUS
<1>0. BlockSize \in Nat /\ BlockSize > 0 /\ Size \in Nat /\ Size > 0 BY SegmentAssumption
<1>a. \A v \in Entries : v \in Users BY EntriesFinite DEF TransfersOK
<1>b. Goal(Plain(NoSegment)) /\ Goal(Plain(NotNow))
  BY DEF Plain, NoSegment, NotNow, Segment
<1>c. ASSUME NEW x \in FileSegs PROVE Plain(x).seg = x /\ ~Plain(x).over /\ Plain(x).over \in BOOLEAN
                                       /\ x \in [start : Int, size : Int]
  BY FileSegsAre DEF Plain, FileSegs
<1>1. ASSUME NEW any \in BOOLEAN, NEW x \in checkOverlaps(blk, any) PROVE Goal(x)
  <2>1. CASE x = Plain(NoSegment) BY <1>b, <2>1
  <2>2. CASE x # Plain(NoSegment)
    <3> DEFINE From(v) == roundDown(dl[v].pos, blk)
    <3>1. PICK v \in Entries :
            /\ OverlapSlow
            /\ x = [seg |-> Segment(dl[v].seg.start + From(v), dl[v].seg.size - From(v)),
                    over |-> TRUE]
      BY <1>1, <2>2, EntriesAre DEF checkOverlaps
    <3>2. v \in Users /\ dl[v].pos \in 0..Size /\ dl[v].pos \in Nat
      BY <1>0, <1>a, PositionIs
    <3>3. PICK f \in Nat : f = From(v) /\ f <= dl[v].pos
      BY <1>0, <3>2, RoundsDown
    <3>4. PICK a \in Int, n \in Int : a = dl[v].seg.start /\ n = dl[v].seg.size
      BY <3>2, PositionIs
    <3>5. x.seg = Segment(a + f, n - f) /\ x.over = TRUE BY <3>1, <3>3, <3>4
    <3>6. x.seg.start = a + f /\ x.seg.size = n - f /\ x.seg \in [start : Int, size : Int]
      BY <3>5 DEF Segment
    <3>7. ASSUME n - f > 0 PROVE x.seg \in FileSegs
      <4>1. dl[v].seg \in FileSegs BY <3>2, <3>4, <3>7 DEF TransfersOK, DownloadIs
      <4>2. a >= 0 /\ a + n <= Size BY <3>4, <4>1, FileSegsAre
      <4>3. a + f \in Int /\ n - f \in Int /\ a + f >= 0 /\ n - f >= 1 /\ (a + f) + (n - f) <= Size
        BY <3>7, <4>2
      <4> QED BY <3>5, <4>3, SegmentIs
    <3> QED BY <3>1, <3>5, <3>6, <3>7
  <2> QED BY <2>1, <2>2
<1>2. CASE ~MultiChunk \/ blk >= Size
  <2>1. r \in IF isRunning THEN checkOverlaps(blk, allow /\ full)
              ELSE {Plain(Unchunked(S, blk))}
    BY <1>2 DEF getNextSegment
  <2>2. CASE isRunning
    <3>1. (allow /\ full) \in BOOLEAN OBVIOUS
    <3> HIDE DEF Goal, full
    <3> QED BY <1>1, <2>1, <2>2, <3>1
  <2>3. CASE ~isRunning
    <3> DEFINE x == Unchunked(S, blk)
    <3>1. r = Plain(x) BY <2>1, <2>3
    <3>2. Entries = {} BY <2>3 DEF isRunning, Entries
    <3>3. /\ \E a \in Int, n \in Int : x = Segment(a, n)
          /\ x.size > 0 => x \in FileSegs
          /\ S = {} => x = Whole
          /\ (\A s \in S : Aligned(s)) /\ blk = BlockSize /\ ~segmentsDone(S) =>
               x \in FileSegs /\ Aligned(x) /\ \A s \in S : Apart(x, s)
      BY UnchunkedIs
    <3> HIDE DEF x
    <3>4. x \in [start : Int, size : Int] BY <3>3 DEF Segment
    <3>5. r.seg = x /\ r.over = FALSE BY <3>1 DEF Plain
    <3> QED BY <2>3, <3>2, <3>3, <3>4, <3>5
  <2> QED BY <2>2, <2>3
<1>3. CASE ~(~MultiChunk \/ blk >= Size)
  <2>0. blk = BlockSize /\ MultiChunk /\ blk # Size BY <1>0, <1>3
  <2>1. r \in IF isPausedPrio \/ Len(downloads) >= MaxSegments THEN {Plain(NotNow)}
              ELSE IF full /\ free # {} THEN {Plain(First(free))}
              ELSE IF ~full /\ needed # {} THEN {Plain(s) : s \in needed}
              ELSE checkOverlaps(blk, allow /\ full)
    BY <1>3 DEF getNextSegment
  <2>2. PICK n \in Nat : n > 0 /\ target = n * BlockSize
    BY <2>0, DownloadedIs, TargetIs
  <2>3. free = FreeSegments(n * BlockSize, BlockSize, S, Segs) BY <2>0, <2>2
  <2> HIDE DEF target, full
  <2>4. ASSUME NEW x \in free
        PROVE  /\ x \in FileSegs /\ Aligned(x)
               /\ \A s \in Segs : ~overlaps(x, s)
               /\ (\A s \in S : Aligned(s)) => \A s \in S : Apart(x, s)
    <3> HIDE DEF free
    <3> QED BY <2>2, <2>3, FreeAre
  <2>5. ASSUME NEW x \in free, NEW y \in FileSegs, contains(x, y), Aligned(y)
        PROVE  Goal(Plain(y))
    <3>1. /\ x \in FileSegs /\ \A s \in Segs : ~overlaps(x, s)
          /\ (\A s \in S : Aligned(s)) => \A s \in S : Apart(x, s)
      BY <2>4
    <3>2. /\ x.start \in Int /\ getEnd(x) \in Int /\ y.start \in Int /\ getEnd(y) \in Int
          /\ x.start <= y.start /\ getEnd(y) <= getEnd(x) /\ x.size \in Int /\ x.size >= 1
          /\ y.start < getEnd(y) /\ y.size >= 1
      BY <2>5, <3>1, FileSegsAre DEF contains
    <3>3. ASSUME NEW v \in Entries PROVE Apart(y, dl[v].seg)
      <4>1. dl[v].seg \in Segs BY <3>3, EntriesAre DEF Segs
      <4>2. ~overlaps(x, dl[v].seg) BY <3>1, <4>1
      <4>3. dl[v].seg.start \in Int /\ getEnd(dl[v].seg) \in Int BY <1>a, PositionIs
      <4> QED BY <3>2, <4>2, <4>3 DEF overlaps, Apart
    <3>4. ASSUME \A s \in S : Aligned(s), NEW s \in S PROVE Apart(y, s)
      <4>1. Apart(x, s) BY <3>1, <3>4
      <4>2. s.start \in Int /\ getEnd(s) \in Int /\ s.size \in Int BY FileSegsAre
      <4> QED BY <3>2, <4>1, <4>2 DEF Apart
    <3> QED BY <1>c, <2>0, <2>5, <3>2, <3>3, <3>4
  <2>6. CASE r \in {Plain(NotNow)} BY <1>b, <2>6
  <2>7. CASE free # {} /\ r = Plain(First(free))
    <3>1. free \subseteq FileSegs BY <2>4
    <3>2. First(free) \in free
      <4> HIDE DEF free
      <4> QED BY <2>7, <3>1, FirstIs
    <3>3. contains(First(free), First(free)) /\ First(free) \in FileSegs /\ Aligned(First(free))
      <4>1. First(free) \in FileSegs /\ Aligned(First(free)) BY <2>4, <3>2
      <4> HIDE DEF free
      <4> QED BY <4>1, FileSegsAre DEF contains
    <3> HIDE DEF free, Goal
    <3> QED BY <2>5, <2>7, <3>2, <3>3
  <2>8. CASE full = FALSE /\ \E s \in needed : r = Plain(s)
    <3>1. PICK s \in needed : r = Plain(s) BY <2>8
    <3>2. \A p \in parts[u] : p \in Nat \X Nat /\ p[1] < p[2]
      BY <2>8, QueueItemAssumption DEF SourcesOK, full
    <3>3. needed = NeededParts(free, parts[u], BlockSize, n * BlockSize) BY <2>0, <2>2
    <3>4. \A x \in free : x \in FileSegs /\ Aligned(x) BY <2>4
    <3> HIDE DEF free, Goal, needed
    <3>5. /\ s \in FileSegs /\ Aligned(s) /\ \E x \in free : contains(x, s)
      BY <2>2, <3>1, <3>2, <3>3, <3>4, NeededAre
    <3> QED BY <2>5, <3>1, <3>5
  <2>9. CASE r \in checkOverlaps(blk, allow /\ full)
    <3>1. (allow /\ full) \in BOOLEAN BY DEF full
    <3> HIDE DEF Goal
    <3> QED BY <1>1, <2>9, <3>1
  <2>10. full \in BOOLEAN BY DEF full
  <2> HIDE DEF free, needed, Goal
  <2> QED BY <2>1, <2>6, <2>7, <2>8, <2>9, <2>10
<1> QED BY <1>2, <1>3

-----------------------------------------------------------------------------
(* What a recheck finds. *)

\* The last leaf, and where a comparison begins.
LastLeaf == (Size - 1) \div BlockSize
NoneCompared == [done |-> done, bytes |-> 0, pos |-> 0]

\* The comparison goes from leaf to leaf.
LEMMA ComparedSteps ==
  \E g : /\ Compared = g[LastLeaf + 1] /\ g[0] = NoneCompared
         /\ \A n \in 0..LastLeaf : g[n + 1] = CompareLeaf(g[n], n)
<1> DEFINE last == LastLeaf + 1
<1> DEFINE F(g) == [n \in 0..last |-> IF n = 0 THEN NoneCompared ELSE CompareLeaf(g[n - 1], n - 1)]
<1> DEFINE leaves[n \in 0..last] ==
             IF n = 0 THEN NoneCompared ELSE CompareLeaf(leaves[n - 1], n - 1)
<1>1. Compared = leaves[last] BY DEF Compared, NoneCompared, LastLeaf
<1>2. LastLeaf \in Nat /\ last \in Nat
  <2>1. Size - 1 \in Int /\ Size - 1 >= 0 /\ BlockSize \in Nat /\ BlockSize > 0 BY SegmentAssumption
  <2> QED BY <2>1, Division DEF LastLeaf
<1> HIDE DEF last
<1> DEFINE Sat(g, k) == g = [n \in 0..k |-> IF n = 0 THEN NoneCompared ELSE CompareLeaf(g[n - 1], n - 1)]
<1> DEFINE T == {k \in 0..last : ~\E g : Sat(g, k)}
<1>3. T = {}
  <2> SUFFICES ASSUME T # {} PROVE FALSE OBVIOUS
  <2>1. PICK k \in T : \A j \in T : k <= j
    <3>1. T \subseteq Nat BY <1>2
    <3> HIDE DEF T
    <3> QED BY <3>1, LeastNat
  <2>2. k \in Nat /\ k <= last BY <1>2
  <2>3. CASE k = 0
    <3> DEFINE g == [n \in 0..0 |-> NoneCompared]
    <3>1. g = [n \in 0..0 |-> IF n = 0 THEN NoneCompared ELSE CompareLeaf(g[n - 1], n - 1)] OBVIOUS
    <3>2. Sat(g, k) BY <2>3, <3>1
    <3> HIDE DEF g, Sat
    <3> QED BY <3>2
  <2>4. CASE k # 0
    <3>1. k - 1 \in 0..last /\ k - 1 \notin T
      <4>1. k - 1 \in 0..last /\ ~(k <= k - 1) BY <1>2, <2>2, <2>4
      <4> HIDE DEF T
      <4> QED BY <2>1, <4>1
    <3>2. PICK h : Sat(h, k - 1)
      <4> HIDE DEF Sat
      <4> QED BY <3>1
    <3> DEFINE g == [n \in 0..k |-> IF n = k THEN CompareLeaf(h[k - 1], k - 1) ELSE h[n]]
    <3>3. ASSUME NEW n \in 0..k
          PROVE  g[n] = IF n = 0 THEN NoneCompared ELSE CompareLeaf(g[n - 1], n - 1)
      <4>0. g[n] = IF n = k THEN CompareLeaf(h[k - 1], k - 1) ELSE h[n] OBVIOUS
      <4>1. CASE n = k
        <5>1. k - 1 \in 0..k /\ k - 1 # k BY <2>2, <2>4
        <5>2. g[k - 1] = h[k - 1] BY <5>1
        <5> HIDE DEF g
        <5> QED BY <2>4, <4>0, <4>1, <5>2
      <4>2. CASE n # k
        <5>1. n \in 0..(k - 1) BY <2>2, <4>2
        <5>2. h[n] = IF n = 0 THEN NoneCompared ELSE CompareLeaf(h[n - 1], n - 1) BY <3>2, <5>1
        <5>3. n # 0 => n - 1 \in 0..k /\ n - 1 # k BY <2>2, <5>1
        <5>4. n # 0 => g[n - 1] = h[n - 1] BY <5>3
        <5> HIDE DEF g
        <5> QED BY <4>0, <4>2, <5>2, <5>4
      <4> QED BY <4>1, <4>2
    <3>4. g = [n \in 0..k |-> g[n]] OBVIOUS
    <3>5. Sat(g, k)
      <4> HIDE DEF g
      <4> QED BY <3>3, <3>4
    <3> HIDE DEF g, Sat
    <3> QED BY <3>5
  <2> QED BY <2>3, <2>4
<1>4. \E g : g = F(g)
  <2>1. last \in 0..last BY <1>2
  <2>2. \E g : Sat(g, last)
    <3>1. last \notin T BY <1>3
    <3> HIDE DEF Sat
    <3> QED BY <2>1, <3>1
  <2> QED BY <2>2
<1>5. leaves = CHOOSE g : g = F(g) OBVIOUS
<1>6. leaves = F(leaves)
  <2> HIDE DEF F, leaves
  <2> QED BY <1>4, <1>5
<1>7. leaves[0] = NoneCompared
  <2>1. 0 \in 0..last BY <1>2
  <2> HIDE DEF leaves
  <2> QED BY <1>6, <2>1
<1>8. ASSUME NEW n \in 0..LastLeaf PROVE leaves[n + 1] = CompareLeaf(leaves[n], n)
  <2>1. n + 1 \in 0..last /\ n + 1 # 0 /\ (n + 1) - 1 = n BY <1>2 DEF last
  <2> HIDE DEF leaves
  <2>2. leaves[n + 1] = CompareLeaf(leaves[(n + 1) - 1], (n + 1) - 1) BY <1>6, <2>1
  <2> QED BY <2>1, <2>2
<1> HIDE DEF leaves
<1> QED BY <1>1, <1>7, <1>8 DEF last

\* One step: a leaf that is right is added where the comparison is.
LeafCompared(acc, n, j, D, b, i, seg, E, c) ==
  /\ CompareLeaf(acc, n) = [done |-> E, bytes |-> c, pos |-> i * BlockSize]
  /\ i <= n + 1
  /\ seg.start = j * BlockSize /\ getEnd(seg) \in {Size, (j + 1) * BlockSize}
  /\ getEnd(seg) <= (j + 1) * BlockSize
  /\ \/ n \in check.leaves /\ i = j + 1
        /\ E = Consolidate(D, seg).done /\ c = b + Consolidate(D, seg).bytes
     \/ n \notin check.leaves /\ i \in {j, j + 1} /\ E = D /\ c = b

\* One leaf is compared: what is done stays apart and in the file.
LEMMA CompareLeafIs ==
  ASSUME NEW j \in Nat, NEW n \in 0..LastLeaf, j <= n,
         NEW D \in SUBSET FileSegs, Separated(D), NEW b \in Int,
         NEW acc, acc = [done |-> D, bytes |-> b, pos |-> j * BlockSize]
  PROVE  \E i \in Nat, seg \in FileSegs, E \in SUBSET FileSegs, c \in Int :
           LeafCompared(acc, n, j, D, b, i, seg, E, c)
<1>0. BlockSize \in Nat /\ BlockSize > 0 /\ Size \in Nat /\ Size > 0 BY SegmentAssumption
<1>1. PICK l \in Int : l = LastLeaf /\ l * BlockSize <= Size - 1 /\ n <= l /\ n \in Int
  <2>1. Size - 1 \in Int BY <1>0
  <2> QED BY <1>0, <2>1, Division DEF LastLeaf
<1>2. PICK p \in Int : p = j * BlockSize /\ p < Size /\ p >= 0
  <2>1. j * BlockSize <= l * BlockSize BY <1>0, <1>1, Multiples
  <2>2. j * BlockSize \in Int /\ l * BlockSize \in Int /\ j * BlockSize >= 0 BY <1>0
  <2> QED BY <1>0, <1>1, <2>1, <2>2
<1>3. (j + 1) * BlockSize = p + BlockSize BY <1>0, <1>2, Multiples
<1>4. PICK r \in Int : r = Size - p /\ r > 0 BY <1>0, <1>2
<1>5. PICK m \in Int : m = Min({r, BlockSize}) /\ m \in {r, BlockSize} /\ m <= r /\ m <= BlockSize
  <2>1. BlockSize \in Int BY <1>0
  <2>2. /\ Min({r, BlockSize}) \in {r, BlockSize}
        /\ Min({r, BlockSize}) <= r /\ Min({r, BlockSize}) <= BlockSize
    BY <2>1, MinOfTwo
  <2> QED BY <2>1, <2>2
<1> DEFINE seg == Segment(p, m)
<1>6. /\ seg \in FileSegs /\ seg.start = p /\ getEnd(seg) = p + m
  <2>1. p >= 0 /\ m >= 1 /\ p + m <= Size BY <1>0, <1>2, <1>4, <1>5
  <2> QED BY <2>1, SegmentIs
<1>7. seg = Segment(acc.pos, Min({Size - acc.pos, BlockSize})) BY <1>2, <1>4, <1>5
<1>8. getEnd(seg) \in {Size, (j + 1) * BlockSize} /\ getEnd(seg) <= (j + 1) * BlockSize
  BY <1>0, <1>3, <1>4, <1>5, <1>6
<1>9. acc.done = D /\ acc.bytes = b /\ acc.pos = j * BlockSize OBVIOUS
<1> HIDE DEF seg
<1> DEFINE C == Consolidate(D, seg)
<1>10. C.bytes \in Int /\ C.done \in SUBSET FileSegs BY <1>6, ConsolidateSeparates
<1>11. CompareLeaf(acc, n) =
         IF n \in check.leaves
         THEN [acc EXCEPT !.done = C.done, !.bytes = @ + C.bytes, !.pos = @ + BlockSize]
         ELSE IF inSet(seg, check.done) THEN [acc EXCEPT !.pos = @ + BlockSize] ELSE acc
  BY <1>7, <1>9 DEF CompareLeaf, blockSegment
<1> HIDE DEF C
<1>12. CASE n \in check.leaves
  <2>1. CompareLeaf(acc, n) = [done |-> C.done, bytes |-> b + C.bytes, pos |-> (j + 1) * BlockSize]
    BY <1>2, <1>3, <1>11, <1>12
  <2>2. j + 1 \in Nat /\ j + 1 <= n + 1 /\ b + C.bytes \in Int BY <1>1, <1>10
  <2>3. C.done = Consolidate(D, seg).done /\ C.bytes = Consolidate(D, seg).bytes BY DEF C
  <2>4. LeafCompared(acc, n, j, D, b, j + 1, seg, C.done, b + C.bytes)
    BY <1>2, <1>8, <1>6, <1>12, <2>1, <2>2, <2>3 DEF LeafCompared
  <2> QED BY <1>6, <1>10, <2>2, <2>4
<1>13. CASE n \notin check.leaves
  <2>1. CASE inSet(seg, check.done)
    <3>1. CompareLeaf(acc, n) = [done |-> D, bytes |-> b, pos |-> (j + 1) * BlockSize]
      BY <1>2, <1>3, <1>11, <1>13, <2>1
    <3>2. j + 1 \in Nat /\ j + 1 <= n + 1 BY <1>1
    <3>3. LeafCompared(acc, n, j, D, b, j + 1, seg, D, b)
      BY <1>2, <1>6, <1>8, <1>13, <3>1, <3>2 DEF LeafCompared
    <3> QED BY <1>6, <3>2, <3>3
  <2>2. CASE ~inSet(seg, check.done)
    <3>1. CompareLeaf(acc, n) = acc BY <1>11, <1>13, <2>2
    <3>2. j <= n + 1 BY <1>1
    <3>3. LeafCompared(acc, n, j, D, b, j, seg, D, b)
      BY <1>2, <1>6, <1>8, <1>13, <3>1, <3>2 DEF LeafCompared
    <3> QED BY <1>6, <3>3
  <2> QED BY <2>1, <2>2
<1> QED BY <1>12, <1>13

\* The file stays consistent.  When nothing was done before, what is found is in
\* leaves and counted right; if all leaves are right, it is the whole file.
ComparesAs(acc, n, j, D, b) ==
    /\ acc = [done |-> D, bytes |-> b, pos |-> j * BlockSize] /\ j <= n
    /\ D \subseteq FileSegs /\ Separated(D)
    /\ done = {} =>
         /\ \A s \in D : Aligned(s) /\ getEnd(s) <= j * BlockSize
         /\ b = getDownloadedSegments(D)
         /\ check.leaves = Leaves =>
              j = n /\ \A x \in 0..(Size - 1) : x \in Units(D) <=> x < n * BlockSize
\* acc is what the comparison of the first n leaves of a file without
\* done segments leaves behind.
Compares(acc, n) ==
  \E j \in Nat, D \in SUBSET FileSegs, b \in Int : ComparesAs(acc, n, j, D, b)

\* One leaf more.
LEMMA ComparesOn ==
  ASSUME NEW n \in 0..LastLeaf, NEW acc, Compares(acc, n)
  PROVE  Compares(CompareLeaf(acc, n), n + 1)
<1>0. BlockSize \in Nat /\ BlockSize > 0 /\ Size \in Nat /\ Size > 0 BY SegmentAssumption
<1>1. PICK j \in Nat, D \in SUBSET FileSegs, b \in Int :
        /\ acc = [done |-> D, bytes |-> b, pos |-> j * BlockSize] /\ j <= n
        /\ D \subseteq FileSegs /\ Separated(D)
        /\ done = {} =>
             /\ \A s \in D : Aligned(s) /\ getEnd(s) <= j * BlockSize
             /\ b = getDownloadedSegments(D)
             /\ check.leaves = Leaves =>
                  j = n /\ \A x \in 0..(Size - 1) : x \in Units(D) <=> x < n * BlockSize
  BY DEF Compares, ComparesAs
<1>a. PICK i \in Nat, seg \in FileSegs, E \in SUBSET FileSegs, c \in Int :
        LeafCompared(acc, n, j, D, b, i, seg, E, c)
  BY <1>1, CompareLeafIs
<1>2. /\ CompareLeaf(acc, n) = [done |-> E, bytes |-> c, pos |-> i * BlockSize]
      /\ i <= n + 1
      /\ seg.start = j * BlockSize /\ getEnd(seg) \in {Size, (j + 1) * BlockSize}
      /\ getEnd(seg) <= (j + 1) * BlockSize
      /\ \/ n \in check.leaves /\ i = j + 1
            /\ E = Consolidate(D, seg).done /\ c = b + Consolidate(D, seg).bytes
         \/ n \notin check.leaves /\ i \in {j, j + 1} /\ E = D /\ c = b
  BY <1>a DEF LeafCompared
<1>3. n \in Leaves BY DEF Leaves, LastLeaf
<1>4. PICK p \in Int, q \in Int : /\ p = j * BlockSize /\ q = (j + 1) * BlockSize /\ q = p + BlockSize
                                  /\ j + 1 \in Nat
  <2>1. j * BlockSize \in Int /\ (j + 1) * BlockSize \in Int BY <1>0
  <2>2. (j + 1) * BlockSize = j * BlockSize + BlockSize BY <1>0, Multiples
  <2> QED BY <2>1, <2>2
<1>5. CASE n \in check.leaves
  <2>1. i = j + 1 /\ E = Consolidate(D, seg).done /\ c = b + Consolidate(D, seg).bytes
    BY <1>2, <1>5
  <2>2. E \subseteq FileSegs /\ Separated(E) BY <1>1, <2>1, ConsolidateSeparates
  <2>3. ASSUME done = {}
        PROVE  /\ \A s \in E : Aligned(s) /\ getEnd(s) <= i * BlockSize
               /\ c = getDownloadedSegments(E)
               /\ check.leaves = Leaves =>
                    i = n + 1 /\ \A x \in 0..(Size - 1) : x \in Units(E) <=> x < (n + 1) * BlockSize
    <3>1. /\ \A s \in D : Aligned(s) /\ getEnd(s) <= p
          /\ b = getDownloadedSegments(D)
      BY <1>1, <1>4, <2>3
    <3>2. \A t \in D : Apart(seg, t) BY <1>2, <1>4, <3>1 DEF Apart
    <3>3. At(seg.start) /\ At(getEnd(seg)) BY <1>2, <1>4 DEF At
    <3>4. ASSUME NEW s \in E PROVE Aligned(s) /\ getEnd(s) <= i * BlockSize
      <4>1. PICK f \in D \cup {seg}, l \in D \cup {seg} :
              s.start = f.start /\ getEnd(s) = getEnd(l)
        BY <1>1, <2>1, ConsolidateEnds
      <4>2. Aligned(s) BY <3>1, <3>3, <4>1 DEF Aligned
      <4>3. getEnd(l) <= q
        <5>1. CASE l = seg BY <1>2, <1>4, <5>1
        <5>2. CASE l \in D
          <6>1. getEnd(l) \in Int /\ getEnd(l) <= p BY <1>1, <3>1, <5>2, FileSegsAre
          <6> QED BY <1>0, <1>4, <6>1
        <5> QED BY <5>1, <5>2
      <4> QED BY <1>4, <2>1, <4>1, <4>2, <4>3
    <3>5. /\ Units(E) = Units(D) \cup UnitsOf(seg)
          /\ Consolidate(D, seg).bytes = seg.size
      BY <1>1, <2>1, <3>2, ConsolidateAdds
    <3>6. getDownloadedSegments(E) = getDownloadedSegments(D) + seg.size
      BY <1>1, <2>1, <3>2, SumGrows
    <3>7. c = getDownloadedSegments(E) BY <2>1, <3>1, <3>5, <3>6
    <3>8. ASSUME check.leaves = Leaves
          PROVE  i = n + 1 /\ \A x \in 0..(Size - 1) : x \in Units(E) <=> x < (n + 1) * BlockSize
      <4>1. j = n /\ \A x \in 0..(Size - 1) : x \in Units(D) <=> x < p BY <1>1, <1>4, <2>3, <3>8
      <4>2. ASSUME NEW x \in 0..(Size - 1) PROVE x \in UnitsOf(seg) <=> p <= x /\ x < q
        <5>1. x \in UnitsOf(seg) <=> x \in Int /\ seg.start <= x /\ x < getEnd(seg) BY UnitOf
        <5>2. seg.start = p /\ getEnd(seg) \in {Size, q} /\ getEnd(seg) <= q BY <1>2, <1>4
        <5>3. x \in Int /\ x < Size BY <1>0
        <5>4. x < q => x < getEnd(seg) BY <5>2, <5>3
        <5>5. x < getEnd(seg) => x < q
          <6>1. PICK e \in Int : e = getEnd(seg) BY FileSegsAre
          <6> QED BY <1>4, <5>2, <5>3, <6>1
        <5> QED BY <5>1, <5>2, <5>3, <5>4, <5>5
      <4>3. ASSUME NEW x \in 0..(Size - 1) PROVE x \in Units(E) <=> x < q
        BY <1>0, <1>4, <3>5, <4>1, <4>2
      <4> QED BY <1>4, <2>1, <4>1, <4>3
    <3> QED BY <3>4, <3>7, <3>8
  <2>4. ComparesAs(CompareLeaf(acc, n), n + 1, i, E, c) BY <1>2, <2>2, <2>3 DEF ComparesAs
  <2> QED BY <2>4 DEF Compares
<1>6. CASE n \notin check.leaves
  <2>1. i \in {j, j + 1} /\ E = D /\ c = b BY <1>2, <1>6
  <2>2. check.leaves # Leaves BY <1>3, <1>6
  <2>3. p <= i * BlockSize BY <1>0, <1>4, <2>1
  <2>4. ASSUME done = {}, NEW s \in E PROVE Aligned(s) /\ getEnd(s) <= i * BlockSize
    <3>1. Aligned(s) /\ getEnd(s) <= p /\ getEnd(s) \in Int BY <1>1, <1>4, <2>1, <2>4, FileSegsAre
    <3>2. i * BlockSize \in Int BY <1>0
    <3> QED BY <2>3, <3>1, <3>2
  <2>5. ComparesAs(CompareLeaf(acc, n), n + 1, i, E, c)
    BY <1>1, <1>2, <2>1, <2>2, <2>4 DEF ComparesAs
  <2> QED BY <2>5 DEF Compares
<1> QED BY <1>5, <1>6

\* What the comparison of all leaves leaves behind.
LEMMA ComparedIs ==
  ASSUME QueueOK
  PROVE  /\ Compared.done \subseteq FileSegs /\ Separated(Compared.done) /\ Compared.bytes \in Int
         /\ done = {} => /\ \A s \in Compared.done : Aligned(s)
                         /\ Compared.bytes = getDownloadedSegments(Compared.done)
                         /\ check.leaves = Leaves => segmentsDone(Compared.done)
<1>0. BlockSize \in Nat /\ BlockSize > 0 /\ Size \in Nat /\ Size > 0 BY SegmentAssumption
<1>1. PICK g : /\ Compared = g[LastLeaf + 1] /\ g[0] = NoneCompared
               /\ \A n \in 0..LastLeaf : g[n + 1] = CompareLeaf(g[n], n)
  BY ComparedSteps
<1>2. PICK l \in Nat : l = LastLeaf /\ Size <= (l + 1) * BlockSize
  <2>1. Size - 1 \in Int /\ Size - 1 >= 0 BY <1>0
  <2>2. PICK l \in Nat : l = (Size - 1) \div BlockSize /\ Size - 1 < l * BlockSize + BlockSize
    BY <1>0, <2>1, Division
  <2>3. (l + 1) * BlockSize = l * BlockSize + BlockSize BY <1>0, Multiples
  <2>4. l * BlockSize + BlockSize \in Int BY <1>0
  <2> QED BY <1>0, <2>2, <2>3, <2>4 DEF LastLeaf
<1>3. Compares(g[0], 0)
  <2>1. g[0] = [done |-> done, bytes |-> 0, pos |-> 0 * BlockSize]
    BY <1>0, <1>1 DEF NoneCompared
  <2>2. done = {} => getDownloadedSegments(done) = 0 /\ Units(done) = {}
    BY FS_EmptySet DEF getDownloadedSegments, Units
  <2>3. \A x \in 0..(Size - 1) : ~(x < 0 * BlockSize) BY <1>0
  <2>4. done \subseteq FileSegs /\ Separated(done) BY DEF QueueOK
  <2>5. 0 \in Nat /\ 0 <= 0 /\ 0 \in Int OBVIOUS
  <2>6. done = {} => /\ \A s \in done : Aligned(s) /\ getEnd(s) <= 0 * BlockSize
                     /\ 0 = getDownloadedSegments(done)
                     /\ check.leaves = Leaves =>
                          0 = 0 /\ \A x \in 0..(Size - 1) : x \in Units(done) <=> x < 0 * BlockSize
    BY <2>2, <2>3
  <2>7. ComparesAs(g[0], 0, 0, done, 0) BY <2>1, <2>4, <2>5, <2>6 DEF ComparesAs
  <2> QED BY <2>4, <2>7 DEF Compares
<1> DEFINE T == {n \in 0..(l + 1) : ~Compares(g[n], n)}
<1>4. T = {}
  <2> SUFFICES ASSUME T # {} PROVE FALSE OBVIOUS
  <2>1. PICK k \in T : \A n \in T : k <= n
    <3>1. T \subseteq Nat OBVIOUS
    <3> HIDE DEF T
    <3> QED BY <3>1, LeastNat
  <2>2. k \in Nat /\ k <= l + 1 /\ ~Compares(g[k], k) OBVIOUS
  <2>3. k # 0 BY <1>3, <2>2
  <2>4. PICK n \in Nat : n = k - 1 /\ n \in 0..l /\ n \in 0..(l + 1) /\ ~(k <= n) BY <2>2, <2>3
  <2>5. n \notin T
    <3> HIDE DEF T
    <3> QED BY <2>1, <2>4
  <2>6. Compares(g[n], n) BY <2>4, <2>5
  <2>7. g[n + 1] = CompareLeaf(g[n], n) /\ n \in 0..LastLeaf BY <1>1, <1>2, <2>4
  <2>8. Compares(g[n + 1], n + 1) BY <2>6, <2>7, ComparesOn
  <2>9. n + 1 = k BY <2>2, <2>4
  <2> QED BY <2>2, <2>8, <2>9
<1>5. Compares(Compared, l + 1)
  <2>1. l + 1 \in 0..(l + 1) OBVIOUS
  <2>2. Compares(g[l + 1], l + 1) BY <1>4, <2>1
  <2> QED BY <1>1, <1>2, <2>2
<1>6. PICK j \in Nat, D \in SUBSET FileSegs, b \in Int :
        /\ Compared = [done |-> D, bytes |-> b, pos |-> j * BlockSize]
        /\ D \subseteq FileSegs /\ Separated(D)
        /\ done = {} =>
             /\ \A s \in D : Aligned(s)
             /\ b = getDownloadedSegments(D)
             /\ check.leaves = Leaves =>
                  \A x \in 0..(Size - 1) : x \in Units(D) <=> x < (l + 1) * BlockSize
  BY <1>5 DEF Compares, ComparesAs
<1>7. Compared.done = D /\ Compared.bytes = b BY <1>6
<1>8. ASSUME done = {}, check.leaves = Leaves PROVE segmentsDone(D)
  <2>1. PICK n \in Int : n = (l + 1) * BlockSize
    <3>1. (l + 1) * BlockSize \in Int BY <1>0
    <3> QED BY <3>1
  <2>2. \A x \in 0..(Size - 1) : x \in Units(D)
    <3> SUFFICES ASSUME NEW x \in 0..(Size - 1) PROVE x \in Units(D) OBVIOUS
    <3>1. x < n BY <1>0, <1>2, <2>1
    <3> QED BY <1>6, <1>8, <2>1, <3>1
  <2>3. Units(D) \subseteq 0..(Size - 1) BY <1>6, UnitsFinite
  <2> QED BY <1>6, <2>2, <2>3, WholeIsAll
<1> QED BY <1>6, <1>7, <1>8

-----------------------------------------------------------------------------
(* Types, and segments inside the file, for any settings and events. *)

\* The types, and what depends on no setting.
Base == QueueOK /\ SourcesOK /\ TransfersOK /\ FilesOK

\* The elements of a list of users are users.
LEMMA ToSetOf ==
  ASSUME NEW s \in Seq(Users)
  PROVE  ToSet(s) \subseteq Users
BY DEF ToSet

\* The positions that remain are finitely many.
LEMMA PositionsFinite ==
  ASSUME NEW S, NEW s \in Seq(S), NEW K
  PROVE  /\ Remaining(s, K) \in SUBSET (1..Len(s))
         /\ IsFiniteSet(Remaining(s, K)) /\ Cardinality(Remaining(s, K)) \in Nat
         /\ Cardinality(Remaining(s, K)) <= Len(s)
<1>1. Remaining(s, K) \in SUBSET (1..Len(s)) BY DEF Remaining
<1>2. IsFiniteSet(1..Len(s)) /\ Cardinality(1..Len(s)) = Len(s)
  <2>1. Len(s) \in Int /\ Len(s) >= 0 /\ 1 \in Int OBVIOUS
  <2>2. /\ IsFiniteSet(1..Len(s))
        /\ Cardinality(1..Len(s)) = IF 1 > Len(s) THEN 0 ELSE Len(s) - 1 + 1
    BY <2>1, FS_Interval
  <2> QED BY <2>1, <2>2
<1> QED BY <1>1, <1>2, FS_Subset, FS_CardinalityType

\* The rank of a position grows from 1 to the number of positions.
LEMMA RankProperties ==
  ASSUME NEW n \in Nat, NEW I \in SUBSET (1..n), IsFiniteSet(I)
  PROVE  /\ \A i \in I : Rank(I, i) \in 1..Cardinality(I)
         /\ \A i, j \in I : Rank(I, i) = Rank(I, j) => i = j
<1> DEFINE Upto(i) == {j \in I : j <= i}
<1>0. \A i \in I : i \in Nat OBVIOUS
<1>1. ASSUME NEW i \in I
      PROVE  /\ Upto(i) \in SUBSET I /\ IsFiniteSet(Upto(i))
             /\ Cardinality(Upto(i)) \in 1..Cardinality(I)
             /\ Rank(I, i) = Cardinality(Upto(i))
  <2>1. Upto(i) \in SUBSET I OBVIOUS
  <2>2. i \in Upto(i) BY <1>0
  <2>3. IsFiniteSet(Upto(i)) /\ Cardinality(Upto(i)) <= Cardinality(I)
    BY <2>1, FS_Subset
  <2>4. Cardinality(Upto(i)) \in Nat /\ Cardinality(I) \in Nat
    BY <2>3, FS_CardinalityType
  <2>5. Cardinality(Upto(i)) # 0 BY <2>2, <2>3, FS_EmptySet
  <2>6. Rank(I, i) = Cardinality(Upto(i)) BY DEF Rank
  <2> HIDE DEF Upto
  <2> QED BY <2>1, <2>3, <2>4, <2>5, <2>6
<1>2. ASSUME NEW i \in I, NEW j \in I, i < j PROVE Rank(I, i) # Rank(I, j)
  <2>0. \A k \in I : k <= i => k <= j BY <1>0, <1>2
  <2>1. Upto(i) \in SUBSET Upto(j) BY <2>0
  <2>2. j \in Upto(j) /\ j \notin Upto(i) BY <1>0, <1>2
  <2>3. Upto(i) # Upto(j) BY <2>2
  <2>4. IsFiniteSet(Upto(j)) BY <1>1
  <2> HIDE DEF Upto
  <2>5. Cardinality(Upto(j)) # Cardinality(Upto(i)) BY <2>1, <2>3, <2>4, FS_Subset
  <2> QED BY <1>1, <2>5
<1>3. \A i, j \in I : Rank(I, i) = Rank(I, j) => i = j
  <2> SUFFICES ASSUME NEW i \in I, NEW j \in I, i # j PROVE Rank(I, i) # Rank(I, j)
    OBVIOUS
  <2>1. i < j \/ j < i BY <1>0
  <2> QED BY <1>2, <2>1
<1> QED BY <1>1, <1>3

\* The k-th entry of the result stands at the k-th of the remaining positions:
\* the result has every entry to keep, and no other.
LEMMA FilterPositions ==
  ASSUME NEW S, NEW s \in Seq(S), NEW K
  PROVE  \E at \in [1..Cardinality(Remaining(s, K)) -> Remaining(s, K)] :
           /\ Filter(s, K) = [k \in 1..Cardinality(Remaining(s, K)) |-> s[at[k]]]
           /\ \A i \in Remaining(s, K) : \E k \in DOMAIN at : at[k] = i
<1> DEFINE I == Remaining(s, K)
           n == Cardinality(I)
           rank == [i \in I |-> Rank(I, i)]
           at == [k \in 1..n |-> CHOOSE i \in I : Rank(I, i) = k]
<1>0. I \in SUBSET (1..Len(s)) /\ IsFiniteSet(I) /\ n \in Nat /\ Len(s) \in Nat
  BY PositionsFinite
<1>1. Filter(s, K) = [k \in 1..n |-> s[at[k]]] BY DEF Filter
<1> HIDE DEF I
<1>2. /\ \A i \in I : Rank(I, i) \in 1..n
      /\ \A i, j \in I : Rank(I, i) = Rank(I, j) => i = j
  BY <1>0, RankProperties
<1>3. rank \in Injection(I, 1..n)
  <2>1. rank \in [I -> 1..n] BY <1>2
  <2>2. \A i, j \in I : rank[i] = rank[j] => i = j BY <1>2
  <2> HIDE DEF rank, n
  <2> QED BY <2>1, <2>2 DEF Injection, IsInjective
<1>4. IsFiniteSet(1..n) /\ Cardinality(1..n) = n
  <2> HIDE DEF n
  <2> QED BY <1>0, FS_Interval
<1>5. rank \in Surjection(I, 1..n)
  <2>1. Cardinality(I) = Cardinality(1..n) BY <1>4
  <2> HIDE DEF rank, n
  <2> QED BY <1>3, <1>4, <2>1, FS_Injection
<1>6. ASSUME NEW k \in 1..n PROVE \E i \in I : Rank(I, i) = k
  <2>1. \E i \in I : rank[i] = k
    <3> HIDE DEF rank, n
    <3> QED BY <1>5, <1>6 DEF Surjection
  <2> QED BY <2>1
<1>7. ASSUME NEW k \in 1..n PROVE at[k] \in I /\ Rank(I, at[k]) = k
  BY <1>6
<1>8. at \in [1..n -> I] /\ DOMAIN at = 1..n BY <1>7
<1>9. \A i \in I : \E k \in 1..n : at[k] = i
  <2> TAKE i \in I
  <2>1. Rank(I, i) \in 1..n BY <1>2
  <2>2. at[Rank(I, i)] \in I /\ Rank(I, at[Rank(I, i)]) = Rank(I, i) BY <1>7, <2>1
  <2> HIDE DEF at, n
  <2>3. at[Rank(I, i)] = i BY <1>2, <2>2
  <2> QED BY <2>1, <2>3
<1>10. /\ Filter(s, K) = [k \in 1..n |-> s[at[k]]]
       /\ \A i \in I : \E k \in DOMAIN at : at[k] = i
  <2> HIDE DEF at, n
  <2> QED BY <1>1, <1>8, <1>9
<1> HIDE DEF at, n
<1>11. \E a \in [1..n -> I] :
         /\ Filter(s, K) = [k \in 1..n |-> s[a[k]]]
         /\ \A i \in I : \E k \in DOMAIN a : a[k] = i
  BY <1>8, <1>10
<1> QED BY <1>11 DEF I, n

\* The type and the entries of the result.
LEMMA FilterProperties ==
  ASSUME NEW S, NEW s \in Seq(S), NEW K
  PROVE  /\ Filter(s, K) \in Seq(S)
         /\ \A k \in DOMAIN Filter(s, K) : Filter(s, K)[k] \in K
         /\ \A k \in DOMAIN Filter(s, K) : \E i \in DOMAIN s : Filter(s, K)[k] = s[i]
         /\ \A i \in DOMAIN s : s[i] \in K => \E k \in DOMAIN Filter(s, K) : Filter(s, K)[k] = s[i]
<1> DEFINE I == Remaining(s, K)
           n == Cardinality(I)
           F == Filter(s, K)
<1>0. /\ I \in SUBSET (1..Len(s)) /\ n \in Nat /\ Len(s) \in Nat
      /\ DOMAIN s = 1..Len(s) /\ \A i \in 1..Len(s) : s[i] \in S
  BY PositionsFinite
<1>1. \A i : i \in I <=> i \in DOMAIN s /\ s[i] \in K BY DEF Remaining
<1>2. PICK at \in [1..n -> I] :
        /\ F = [k \in 1..n |-> s[at[k]]]
        /\ \A i \in I : \E k \in DOMAIN at : at[k] = i
  BY FilterPositions
<1> HIDE DEF I, n, F
<1>3. /\ DOMAIN F = 1..n /\ DOMAIN at = 1..n
      /\ \A k \in 1..n : F[k] = s[at[k]] /\ at[k] \in DOMAIN s /\ F[k] \in K /\ F[k] \in S
  BY <1>0, <1>1, <1>2
<1>4. F \in Seq(S) BY <1>0, <1>2, <1>3
<1>5. \A k \in DOMAIN F : \E i \in DOMAIN s : F[k] = s[i] BY <1>3
<1>6. \A i \in DOMAIN s : s[i] \in K => \E k \in DOMAIN F : F[k] = s[i]
  BY <1>1, <1>2, <1>3
<1> QED BY <1>3, <1>4, <1>5, <1>6 DEF F

\* erase_if leaves the entries of the others.
LEMMA WithoutEntries ==
  ASSUME NEW s \in Seq(Users), NEW U
  PROVE  /\ Without(s, U) \in Seq(Users)
         /\ \A k \in DOMAIN Without(s, U) :
              /\ Without(s, U)[k] \notin U
              /\ \E i \in DOMAIN s : Without(s, U)[k] = s[i]
         /\ \A i \in DOMAIN s : s[i] \notin U => \E k \in DOMAIN Without(s, U) : Without(s, U)[k] = s[i]
<1>0. PICK K : K = Users \ U OBVIOUS
<1>1. PICK F : F = Filter(s, K) OBVIOUS
<1>2. /\ F \in Seq(Users) /\ \A k \in DOMAIN F : F[k] \in K
      /\ \A k \in DOMAIN F : \E i \in DOMAIN s : F[k] = s[i]
      /\ \A i \in DOMAIN s : s[i] \in K => \E k \in DOMAIN F : F[k] = s[i]
  BY <1>1, FilterProperties
<1>3. Without(s, U) = F BY <1>0, <1>1 DEF Without
<1>4. \A i \in DOMAIN s : s[i] \in Users OBVIOUS
<1> QED BY <1>0, <1>2, <1>3, <1>4

\* Two downloads that differ in their flags only.
Same(d, e) ==
  d.type = e.type /\ d.seg = e.seg /\ d.pos = e.pos /\ d.blk = e.blk /\ d.result = e.result

\* A connection without a download.
LEMMA NoDownloadIs ==
  /\ NoDownload \in Download /\ NoDownload.pos = 0 /\ NoDownload.seg.size = 0
  /\ NoDownload.type = "none" /\ NoDownload.result = "none"
  /\ \A c : DownloadIs(c, NoDownload)
BY SegmentAssumption DEF NoDownload, Download, DownloadIs, NoSegment, Segment, Results

\* One connection changes, the other downloads change their flags at most.
LEMMA OneChanges ==
  ASSUME TransfersOK, NEW u \in Users,
         downloads' \in Seq(Users), running' \in Seq(Users), disc' \subseteq Users,
         conn' \in [Users -> Conns], dl' \in [Users -> Download],
         \A v \in Users : v # u => conn'[v] = conn[v] /\ Same(dl'[v], dl[v]),
         DownloadIs(conn'[u], dl'[u])
  PROVE  TransfersOK'
<1> SUFFICES ASSUME NEW v \in Users PROVE DownloadIs(conn'[v], dl'[v]) BY DEF TransfersOK
<1>1. CASE v = u BY <1>1
<1>2. CASE v # u
  <2>1. conn'[v] = conn[v] /\ Same(dl'[v], dl[v]) /\ DownloadIs(conn[v], dl[v])
    BY <1>2 DEF TransfersOK
  <2> QED BY <2>1 DEF Same, DownloadIs
<1> QED BY <1>1, <1>2

\* Nobody's connection changes.
LEMMA NoneChanges ==
  ASSUME TransfersOK, downloads' \in Seq(Users), running' \in Seq(Users), disc' \subseteq Users,
         conn' = conn, dl' \in [Users -> Download], \A v \in Users : Same(dl'[v], dl[v])
  PROVE  TransfersOK'
<1> SUFFICES ASSUME NEW v \in Users PROVE DownloadIs(conn'[v], dl'[v]) BY DEF TransfersOK
<1>1. Same(dl'[v], dl[v]) /\ DownloadIs(conn[v], dl[v]) BY DEF TransfersOK
<1> QED BY <1>1 DEF Same, DownloadIs

\* removeDownload and the first half of putDownloadHooked keep the types.
LEMMA ReturnIs ==
  ASSUME TransfersOK, NEW u \in Users, NEW d \in Download,
         NEW result \in {"finished", "failed", "unavailable"}, Return(u, d, result),
         d.seg.size > 0 => d.seg \in FileSegs,
         d.pos > 0 => d.pos <= d.seg.size,
         result = "finished" /\ d.type = "FILE" => d.seg.size > 0,
         result # "finished" /\ d.type = "FILE" => d.pos = 0 \/ d.pos < d.seg.size,
         downloads' = downloads, disc' \subseteq Users
  PROVE  TransfersOK'
<1>1. running' \in Seq(Users) BY WithoutEntries DEF Return, TransfersOK
<1>2. downloads' \in Seq(Users) BY DEF TransfersOK
<1>3. CASE status = "QUEUED"
  <2> DEFINE e == [d EXCEPT !.result = result]
  <2>1. conn' = [conn EXCEPT ![u] = "putting"] /\ dl' = [dl EXCEPT ![u] = e]
    BY <1>3 DEF Return
  <2>2. /\ e \in Download /\ e.type = d.type /\ e.seg = d.seg /\ e.pos = d.pos
        /\ e.result = result
    BY DEF Download, Results
  <2> HIDE DEF e
  <2>3. DownloadIs("putting", e) BY <2>2 DEF DownloadIs
  <2>4. "putting" \in Conns BY DEF Conns, Owning
  <2>5. /\ conn' \in [Users -> Conns] /\ dl' \in [Users -> Download]
        /\ conn'[u] = "putting" /\ dl'[u] = e
        /\ \A v \in Users : v # u => conn'[v] = conn[v] /\ dl'[v] = dl[v]
    BY <2>1, <2>2, <2>4 DEF TransfersOK
  <2> QED BY <1>1, <1>2, <2>3, <2>5, OneChanges DEF Same
<1>4. CASE status # "QUEUED"
  <2>1. conn' = [conn EXCEPT ![u] = After(result)] /\ dl' = [dl EXCEPT ![u] = NoDownload]
    BY <1>4 DEF Return
  <2>2. After(result) \in Conns BY DEF After, Conns
  <2>3. /\ conn' \in [Users -> Conns] /\ dl' \in [Users -> Download] /\ dl'[u] = NoDownload
        /\ \A v \in Users : v # u => conn'[v] = conn[v] /\ dl'[v] = dl[v]
    BY <2>1, <2>2, NoDownloadIs DEF TransfersOK
  <2> QED BY <1>1, <1>2, <2>3, OneChanges, NoDownloadIs DEF Same
<1> QED BY <1>3, <1>4

\* The download that is assigned.
LEMMA NewDownloadIs ==
  ASSUME TransfersOK, SourcesOK, NEW u \in Users, NEW S, S \subseteq FileSegs, Separated(S),
         NEW wanted \in Nat, NEW d \in NewDownloads(u, S, wanted)
  PROVE  /\ d \in Download /\ d.pos = 0 /\ d.result = "none"
         /\ d.type \in {"FILE", "TREE"}
         /\ d.seg.size > 0 => d.seg \in FileSegs
         /\ ~OverlapSlow => ~d.over
         /\ ~OverlapSlow /\ d.seg.size > 0 /\ ~segmentsDone(S) /\ (\A s \in S : Aligned(s))
             /\ (~tree => S = {}) =>
              /\ \A v \in Entries : Apart(d.seg, dl[v].seg)
              /\ \A s \in S : Apart(d.seg, s)
              /\ \/ tree /\ d.blk = BlockSize /\ Aligned(d.seg)
                 \/ ~tree /\ d.blk = Size /\ d.seg = Whole
<1>0. BlockSize \in {BlockSize, Size} /\ Size \in {BlockSize, Size} OBVIOUS
<1>1. ASSUME NEW blk \in {BlockSize, Size}, NEW w \in Nat, NEW allow \in BOOLEAN,
             NEW r \in getNextSegment(u, S, blk, w, allow),
             d = [NoDownload EXCEPT !.type = "FILE", !.seg = r.seg, !.over = r.over, !.blk = blk]
      PROVE  /\ d \in Download /\ d.pos = 0 /\ d.result = "none" /\ d.type = "FILE"
             /\ d.seg.size > 0 => d.seg \in FileSegs
             /\ ~OverlapSlow => ~d.over
             /\ d.blk = blk
             /\ ~OverlapSlow /\ d.seg.size > 0 =>
                  /\ \A v \in Entries : Apart(d.seg, dl[v].seg)
                  /\ blk = Size /\ S = {} => d.seg = Whole
                  /\ blk = BlockSize /\ ~segmentsDone(S) /\ (\A s \in S : Aligned(s)) =>
                       Aligned(d.seg) /\ \A s \in S : Apart(d.seg, s)
  <2>1. /\ r.seg \in [start : Int, size : Int] /\ r.over \in BOOLEAN
        /\ r.seg.size > 0 => r.seg \in FileSegs
        /\ ~OverlapSlow => ~r.over
        /\ ~OverlapSlow /\ r.seg.size > 0 =>
             /\ \A v \in Entries : Apart(r.seg, dl[v].seg)
             /\ blk = Size /\ S = {} => r.seg = Whole
             /\ blk = BlockSize /\ ~segmentsDone(S) /\ (\A s \in S : Aligned(s)) =>
                  Aligned(r.seg) /\ \A s \in S : Apart(r.seg, s)
    BY <1>1, NextIs
  <2>2. /\ d.seg = r.seg /\ d.over = r.over /\ d.blk = blk /\ d.type = "FILE"
        /\ d.pos = 0 /\ d.result = "none"
    BY <1>1 DEF NoDownload
  <2>3. d \in Download BY <1>1, <2>1 DEF NoDownload, Download, Results
  <2> QED BY <2>1, <2>2, <2>3
<1>2. CASE tree
  <2>1. PICK r \in getNextSegment(u, S, BlockSize, wanted, TRUE) :
          d = [NoDownload EXCEPT !.type = "FILE", !.seg = r.seg, !.over = r.over, !.blk = BlockSize]
    BY <1>2 DEF NewDownloads
  <2> QED BY <1>0, <1>1, <1>2, <2>1
<1>3. CASE ~tree /\ u \notin noTree
  <2>1. d = [NoDownload EXCEPT !.type = "TREE", !.seg = Segment(0, -1)]
    BY <1>3 DEF NewDownloads
  <2>2. /\ d.seg = Segment(0, -1) /\ d.type = "TREE" /\ d.pos = 0 /\ d.result = "none" /\ ~d.over
    BY <2>1 DEF NoDownload
  <2>3. d.seg.size = -1 /\ d.seg \in [start : Int, size : Int] BY <2>2 DEF Segment
  <2>4. d \in Download BY <2>1, <2>2, <2>3 DEF NoDownload, Download, Results
  <2> QED BY <2>2, <2>3, <2>4
<1>4. CASE ~tree /\ u \in noTree
  <2>1. PICK r \in getNextSegment(u, S, Size, 0, FALSE) :
          d = [NoDownload EXCEPT !.type = "FILE", !.seg = r.seg, !.over = r.over, !.blk = Size]
    BY <1>4 DEF NewDownloads
  <2> QED BY <1>0, <1>1, <1>4, <2>1
<1> QED BY <1>2, <1>3, <1>4

\* The choice of a segment keeps the types.
LEMMA AssignTransfers ==
  ASSUME Base, NEW u \in Users,
         startDownload(u) \/ NoNeededPart(u) \/ getDownload(u) \/ Requesting(u)
  PROVE  TransfersOK'
<1>0. /\ TransfersOK /\ downloads \in Seq(Users) /\ running \in Seq(Users) /\ disc \subseteq Users
      /\ conn \in [Users -> Conns] /\ dl \in [Users -> Download] /\ DownloadIs(conn[u], dl[u])
  BY DEF Base, TransfersOK
<1>1. CASE startDownload(u)
  <2>1. /\ conn' = [conn EXCEPT ![u] = "starting"] /\ dl' = dl
        /\ downloads' = downloads /\ running' = running /\ disc' = disc /\ conn[u] = "idle"
    BY <1>1 DEF startDownload
  <2>2. /\ conn' \in [Users -> Conns] /\ conn'[u] = "starting"
        /\ \A v \in Users : v # u => conn'[v] = conn[v]
    BY <1>0, <2>1 DEF Conns
  <2>3. DownloadIs(conn'[u], dl'[u]) BY <1>0, <2>1, <2>2 DEF DownloadIs
  <2> QED BY <1>0, <2>1, <2>2, <2>3, OneChanges DEF Same
<1>2. CASE NoNeededPart(u)
  <2>1. /\ conn' = [conn EXCEPT ![u] = "idle"] /\ dl' = dl
        /\ downloads' = downloads /\ running' = running /\ disc' = disc
    BY <1>2 DEF NoNeededPart
  <2>2. /\ conn' \in [Users -> Conns] /\ conn'[u] = "idle"
        /\ \A v \in Users : v # u => conn'[v] = conn[v]
    BY <1>0, <2>1 DEF Conns
  <2>3. DownloadIs(conn'[u], dl'[u]) BY <1>0, <2>1, <2>2 DEF DownloadIs
  <2> QED BY <1>0, <2>1, <2>2, <2>3, OneChanges DEF Same
<1>3. CASE getDownload(u)
  <2>0. PICK wanted \in WantedSizes :
          \E d \in NewDownloads(u, IF TempGone THEN {} ELSE done, wanted) :
            dl' = [initOverlapped(d) EXCEPT ![u] = d]
    BY <1>3 DEF getDownload
  <2>1. PICK d \in NewDownloads(u, IF TempGone THEN {} ELSE done, wanted) :
          dl' = [initOverlapped(d) EXCEPT ![u] = d]
    BY <2>0
  <2>2. /\ conn' = [conn EXCEPT ![u] = "assigned"] /\ downloads' = Append(downloads, u)
        /\ running' = running /\ disc' = disc
    BY <1>3 DEF getDownload
  <2>3. PICK S : S = IF TempGone THEN {} ELSE done OBVIOUS
  <2>4. S \subseteq FileSegs /\ Separated(S) BY <2>3 DEF Base, QueueOK, Separated
  <2>5. wanted \in Nat /\ SourcesOK BY QueueItemAssumption DEF Base
  <2>6. /\ d \in Download /\ d.pos = 0 /\ d.result = "none" /\ d.type \in {"FILE", "TREE"}
        /\ d.seg.size > 0 => d.seg \in FileSegs
    BY <1>0, <2>1, <2>3, <2>4, <2>5, NewDownloadIs
  <2>7. /\ initOverlapped(d) \in [Users -> Download]
        /\ \A v \in Users : Same(initOverlapped(d)[v], dl[v])
    <3> DEFINE hit == SelectInSeq(downloads, LAMBDA v : contains(dl[v].seg, d.seg))
    <3>1. initOverlapped(d) = IF d.over /\ hit # 0 THEN [dl EXCEPT ![downloads[hit]].over = TRUE] ELSE dl
      BY DEF initOverlapped
    <3> HIDE DEF hit
    <3>2. PICK w : w = downloads[hit] OBVIOUS
    <3>3. [dl EXCEPT ![w].over = TRUE] \in [Users -> Download] BY <1>0 DEF Download
    <3>4. \A v \in Users : Same([dl EXCEPT ![w].over = TRUE][v], dl[v])
      BY <1>0 DEF Download, Same
    <3> QED BY <1>0, <3>1, <3>2, <3>3, <3>4 DEF Same
  <2>8. PICK o : o = initOverlapped(d) OBVIOUS
  <2>9. /\ dl' \in [Users -> Download] /\ dl'[u] = d
        /\ \A v \in Users : v # u => Same(dl'[v], dl[v])
    BY <2>1, <2>6, <2>7, <2>8
  <2>10. /\ conn' \in [Users -> Conns] /\ conn'[u] = "assigned"
         /\ \A v \in Users : v # u => conn'[v] = conn[v]
    BY <1>0, <2>2 DEF Conns, Owning
  <2>11. DownloadIs(conn'[u], dl'[u]) BY <2>6, <2>9, <2>10 DEF DownloadIs
  <2>12. downloads' \in Seq(Users) /\ running' \in Seq(Users) /\ disc' \subseteq Users
    BY <1>0, <2>2
  <2> QED BY <1>0, <2>9, <2>10, <2>11, <2>12, OneChanges
<1>4. CASE Requesting(u)
  <2>1. /\ conn' = [conn EXCEPT ![u] = "SND"] /\ dl' = dl /\ conn[u] = "assigned"
        /\ downloads' = downloads /\ running' = Append(running, u) /\ disc' = disc
    BY <1>4 DEF Requesting
  <2>2. /\ conn' \in [Users -> Conns] /\ conn'[u] = "SND"
        /\ \A v \in Users : v # u => conn'[v] = conn[v]
    BY <1>0, <2>1 DEF Conns, Owning
  <2>3. DownloadIs(conn'[u], dl'[u]) BY <1>0, <2>1, <2>2 DEF DownloadIs
  <2>4. running' \in Seq(Users) BY <1>0, <2>1
  <2> QED BY <1>0, <2>1, <2>2, <2>3, <2>4, OneChanges DEF Same
<1> QED BY <1>1, <1>2, <1>3, <1>4

\* The first of the running downloads with the property, or none.
LEMMA SelectedIs ==
  ASSUME running \in Seq(Users), NEW u
  PROVE  disconnectOverlapped(u) \in {0} \cup DOMAIN running
<1> DEFINE I == {i \in 1..Len(running) : running[i] # u /\ contains(dl[running[i]].seg, dl[u].seg)}
<1>1. disconnectOverlapped(u) = IF I # {} THEN Min(I) ELSE 0
  BY DEF disconnectOverlapped, SelectInSeq
<1>2. I \subseteq Nat /\ I \subseteq DOMAIN running OBVIOUS
<1>3. I # {} => Min(I) \in I
  <2> HIDE DEF I
  <2>1. I # {} => \E x \in I : \A y \in I : x <= y BY <1>2, LeastNat
  <2> QED BY <2>1 DEF Min
<1> QED BY <1>1, <1>2, <1>3

\* The transfer keeps the types.
LEMMA TransferTransfers ==
  ASSUME Base, NEW u \in Users,
         SND(u) \/ FileNotAvailable(u) \/ Data(u) \/ TreeData(u) \/ Failed(u) \/ FailedIdle(u)
  PROVE  TransfersOK'
<1>0. /\ TransfersOK /\ downloads \in Seq(Users) /\ running \in Seq(Users) /\ disc \subseteq Users
      /\ conn \in [Users -> Conns] /\ dl \in [Users -> Download] /\ DownloadIs(conn[u], dl[u])
      /\ dl[u] \in Download
  BY DEF Base, TransfersOK
<1>a. /\ dl[u].seg.size > 0 => dl[u].seg \in FileSegs
      /\ dl[u].pos > 0 => dl[u].pos <= dl[u].seg.size
  BY <1>0 DEF DownloadIs
<1>b. conn[u] \in {"SND", "RUNNING"} /\ dl[u].type = "FILE" => dl[u].pos = 0 \/ dl[u].pos < dl[u].seg.size
  BY <1>0 DEF DownloadIs
<1>1. CASE SND(u)
  <2>0. downloads' = downloads /\ conn[u] = "SND" BY <1>1 DEF SND, queue
  <2>1. CASE /\ dl[u].type = "TREE" /\ conn' = [conn EXCEPT ![u] = "RUNNING"]
             /\ running' = running /\ dl' = dl /\ disc' = disc
    <3>1. /\ conn' \in [Users -> Conns] /\ conn'[u] = "RUNNING"
          /\ \A v \in Users : v # u => conn'[v] = conn[v]
      BY <1>0, <2>1 DEF Conns, Owning
    <3>2. DownloadIs(conn'[u], dl'[u]) BY <1>0, <2>1, <3>1 DEF DownloadIs
    <3> QED BY <1>0, <2>0, <2>1, <3>1, <3>2, OneChanges DEF Same
  <2>2. CASE /\ dl[u].type = "FILE" /\ open(u) /\ conn' = [conn EXCEPT ![u] = "RUNNING"]
             /\ running' = running
    <3>1. dl[u].seg.size > 0 /\ dl[u].pos = 0 BY <1>0, <1>1, <2>0, <2>2 DEF SND, DownloadIs
    <3>2. PICK l \in BOOLEAN : l = ~SharedHandleGone OBVIOUS
    <3> DEFINE e == [dl[u] EXCEPT !.over = FALSE, !.open = TRUE, !.live = l]
    <3>3. dl' = [dl EXCEPT ![u] = e] BY <2>2, <3>2 DEF open
    <3>4. e \in Download /\ Same(e, dl[u]) BY <1>0 DEF Download, Same
    <3> HIDE DEF e
    <3>5. /\ dl' \in [Users -> Download] /\ dl'[u] = e
          /\ \A v \in Users : v # u => dl'[v] = dl[v]
      BY <1>0, <3>3, <3>4
    <3>6. /\ conn' \in [Users -> Conns] /\ conn'[u] = "RUNNING"
          /\ \A v \in Users : v # u => conn'[v] = conn[v]
      BY <1>0, <2>2 DEF Conns, Owning
    <3>7. DownloadIs("RUNNING", e) BY <1>0, <3>1, <3>4 DEF DownloadIs, Same
    <3>8. disc' \subseteq Users
      <4>1. PICK slow : slow = disconnectOverlapped(u) OBVIOUS
      <4>2. disc' = disc \/ (slow # 0 /\ disc' = disc \cup {running[slow]})
        BY <2>2, <4>1 DEF open
      <4>3. slow \in {0} \cup DOMAIN running BY <1>0, <4>1, SelectedIs
      <4> QED BY <1>0, <4>2, <4>3
    <3> QED BY <1>0, <2>0, <2>2, <3>5, <3>6, <3>7, <3>8, OneChanges DEF Same
  <2>3. CASE Return(u, [dl[u] EXCEPT !.over = FALSE], "failed") /\ disc' = disc
    <3> DEFINE e == [dl[u] EXCEPT !.over = FALSE]
    <3>1. e \in Download /\ e.seg = dl[u].seg /\ e.pos = dl[u].pos /\ e.type = dl[u].type
      BY <1>0 DEF Download
    <3>2. Return(u, e, "failed") BY <2>3
    <3> HIDE DEF e
    <3> QED BY <1>0, <1>a, <1>b, <2>0, <2>3, <3>1, <3>2, ReturnIs
  <2>4. \/ /\ dl[u].type = "TREE" /\ conn' = [conn EXCEPT ![u] = "RUNNING"]
           /\ running' = running /\ dl' = dl /\ disc' = disc
        \/ /\ dl[u].type = "FILE" /\ open(u) /\ conn' = [conn EXCEPT ![u] = "RUNNING"]
           /\ running' = running
        \/ Return(u, [dl[u] EXCEPT !.over = FALSE], "failed") /\ disc' = disc
    BY <1>1 DEF SND
  <2> QED BY <2>1, <2>2, <2>3, <2>4
<1>2. CASE FileNotAvailable(u)
  <2>1. /\ Return(u, dl[u], "unavailable") /\ downloads' = downloads /\ disc' = disc
        /\ conn[u] = "SND"
    BY <1>2 DEF FileNotAvailable
  <2> QED BY <1>0, <1>a, <1>b, <2>1, ReturnIs
<1>3. CASE Data(u)
  <2> DEFINE received == [dl[u] EXCEPT !.pos = @ + 1]
  <2>1. /\ downloads' = downloads /\ disc' = disc /\ conn[u] = "RUNNING" /\ dl[u].type = "FILE"
        /\ \/ Return(u, dl[u], "failed")
           \/ received.pos = dl[u].seg.size /\ Return(u, received, "finished")
           \/ /\ received.pos # dl[u].seg.size /\ dl' = [dl EXCEPT ![u] = received]
              /\ running' = running /\ conn' = conn
    BY <1>3 DEF Data
  <2>2. /\ received \in Download /\ received.pos = dl[u].pos + 1 /\ received.seg = dl[u].seg
        /\ received.type = dl[u].type /\ dl[u].pos \in Nat
    <3>1. PICK p \in Nat : p = dl[u].pos BY <1>0 DEF Download
    <3>2. received = [dl[u] EXCEPT !.pos = p + 1] BY <3>1
    <3>3. p + 1 \in Nat BY <3>1
    <3> HIDE DEF received
    <3> QED BY <1>0, <3>1, <3>2, <3>3 DEF Download
  <2>3. dl[u].pos < dl[u].seg.size /\ dl[u].seg.size \in Int
    BY <1>0, <2>1, PositionIs DEF DownloadIs
  <2> HIDE DEF received
  <2>4. CASE Return(u, dl[u], "failed") BY <1>0, <1>a, <1>b, <2>1, <2>4, ReturnIs
  <2>5. CASE Return(u, received, "finished")
    <3>1. received.seg.size > 0 /\ received.pos <= received.seg.size BY <2>2, <2>3
    <3>2. received.seg \in FileSegs BY <1>a, <2>2, <3>1
    <3> QED BY <1>0, <2>1, <2>2, <2>5, <3>1, <3>2, ReturnIs
  <2>6. CASE /\ received.pos # dl[u].seg.size /\ dl' = [dl EXCEPT ![u] = received]
             /\ running' = running /\ conn' = conn
    <3>1. /\ dl' \in [Users -> Download] /\ dl'[u] = received
          /\ \A v \in Users : v # u => dl'[v] = dl[v]
      BY <1>0, <2>2, <2>6
    <3>2. received.pos < received.seg.size /\ received.seg.size > 0 BY <2>2, <2>3, <2>6
    <3>3. DownloadIs("RUNNING", received) BY <1>a, <2>1, <2>2, <2>3, <3>2 DEF DownloadIs
    <3>4. conn'[u] = "RUNNING" BY <2>1, <2>6
    <3> QED BY <1>0, <2>1, <2>6, <3>1, <3>3, <3>4, OneChanges DEF Same
  <2> QED BY <2>1, <2>4, <2>5, <2>6
<1>4. CASE TreeData(u)
  <2>1. /\ downloads' = downloads /\ disc' = disc /\ dl[u].type = "TREE"
        /\ Return(u, dl[u], "finished") \/ Return(u, dl[u], "failed")
    BY <1>4 DEF TreeData
  <2> QED BY <1>0, <1>a, <2>1, ReturnIs
<1>5. CASE Failed(u)
  <2>1. /\ Return(u, dl[u], "failed") /\ downloads' = downloads /\ disc' = disc
        /\ conn[u] \in {"SND", "RUNNING"}
    BY <1>5 DEF Failed
  <2> QED BY <1>0, <1>a, <1>b, <2>1, ReturnIs
<1>6. CASE FailedIdle(u)
  <2>1. /\ conn' = [conn EXCEPT ![u] = "idle"] /\ dl' = dl
        /\ downloads' = downloads /\ running' = running /\ disc' = disc \ {u}
    BY <1>6 DEF FailedIdle
  <2>2. /\ conn' \in [Users -> Conns] /\ conn'[u] = "idle"
        /\ \A v \in Users : v # u => conn'[v] = conn[v]
    BY <1>0, <2>1 DEF Conns
  <2>3. DownloadIs(conn'[u], dl'[u]) BY <1>0, <2>1, <2>2 DEF DownloadIs
  <2>4. disc' \subseteq Users BY <1>0, <2>1
  <2> QED BY <1>0, <2>1, <2>2, <2>3, <2>4, OneChanges DEF Same
<1> QED BY <1>1, <1>2, <1>3, <1>4, <1>5, <1>6

\* The return of a download keeps the types.
LEMMA PutTransfers ==
  ASSUME Base, NEW u \in Users,
         onDownloadFailed(u) \/ onTreeDownloadCompleted(u) \/ onFileDownloadCompleted(u)
  PROVE  TransfersOK'
<1>0. /\ TransfersOK /\ downloads \in Seq(Users) /\ running \in Seq(Users) /\ disc \subseteq Users
      /\ conn \in [Users -> Conns] /\ dl \in [Users -> Download]
  BY DEF Base, TransfersOK
<1>1. /\ running' = running
      /\ \E U : downloads' = Without(downloads, U)
      /\ \E c \in {"idle", "silent"} : conn' = [conn EXCEPT ![u] = c]
      /\ disc' \in {disc, disc \ {u}, disc \cup (ToSet(downloads) \ {u})}
  BY DEF onDownloadFailed, onTreeDownloadCompleted, onFileDownloadCompleted, After
<1>2. downloads' \in Seq(Users) /\ running' \in Seq(Users) /\ disc' \subseteq Users
  <2>1. ToSet(downloads) \subseteq Users BY <1>0, ToSetOf
  <2>2. downloads' \in Seq(Users) BY <1>0, <1>1, WithoutEntries
  <2> QED BY <1>0, <1>1, <2>1, <2>2
<1>3. /\ dl' \in [Users -> Download] /\ dl'[u] = NoDownload
      /\ \A v \in Users : v # u => Same(dl'[v], dl[v])
  <2>1. CASE dl' = [dl EXCEPT ![u] = NoDownload]
    BY <1>0, <2>1, NoDownloadIs DEF Same
  <2>2. ASSUME NEW deletes \in BOOLEAN,
               dl' = [v \in Users |-> IF v = u THEN NoDownload
                                      ELSE [dl[v] EXCEPT !.live = @ /\ ~deletes]]
        PROVE  /\ dl' \in [Users -> Download] /\ dl'[u] = NoDownload
               /\ \A v \in Users : v # u => Same(dl'[v], dl[v])
    <3>1. ASSUME NEW v \in Users
          PROVE  /\ [dl[v] EXCEPT !.live = @ /\ ~deletes] \in Download
                 /\ Same([dl[v] EXCEPT !.live = @ /\ ~deletes], dl[v])
      <4>1. PICK b \in BOOLEAN : b = (dl[v].live /\ ~deletes) OBVIOUS
      <4>2. [dl[v] EXCEPT !.live = @ /\ ~deletes] = [dl[v] EXCEPT !.live = b] BY <4>1
      <4>3. dl[v] \in Download BY <1>0
      <4> QED BY <4>2, <4>3 DEF Download, Same
    <3> QED BY <2>2, <3>1, NoDownloadIs
  <2>3. \/ dl' = [dl EXCEPT ![u] = NoDownload]
        \/ dl' = [v \in Users |-> IF v = u THEN NoDownload
                                  ELSE [dl[v] EXCEPT !.live = @ /\ ~DeletesTemp(u)]]
    BY DEF onDownloadFailed, onTreeDownloadCompleted, onFileDownloadCompleted
  <2>4. PICK deletes \in BOOLEAN : deletes = DeletesTemp(u) BY DEF DeletesTemp
  <2> QED BY <2>1, <2>2, <2>3, <2>4
<1>4. /\ conn' \in [Users -> Conns] /\ \A v \in Users : v # u => conn'[v] = conn[v]
  BY <1>0, <1>1 DEF Conns
<1>5. DownloadIs(conn'[u], dl'[u]) BY <1>3, NoDownloadIs
<1> QED BY <1>0, <1>2, <1>3, <1>4, <1>5, OneChanges

\* Other threads keep the types of the transfers.
LEMMA OtherTransfers ==
  ASSUME Base,
         \/ \E u \in Users : removeFileSource(u)
         \/ \E u \in Users, info \in PartsInfos : addPartialSource(u, info)
         \/ removeQI \/ setBundlePriority \/ DeleteTemp
         \/ \E what \in {"bundle", "file"} : Resume(what)
         \/ \E b \in Damaged : Damage(b)
         \/ recheckFiles \/ Recheck
  PROVE  TransfersOK'
<1>0. /\ TransfersOK /\ downloads \in Seq(Users) /\ running \in Seq(Users) /\ disc \subseteq Users
      /\ conn \in [Users -> Conns] /\ dl \in [Users -> Download]
  BY DEF Base, TransfersOK
<1>1. ToSet(downloads) \subseteq Users /\ ToSet(running) \subseteq Users BY <1>0, ToSetOf
<1>2. \A U : Without(downloads, U) \in Seq(Users) BY <1>0, WithoutEntries
<1>3. CASE DeleteTemp
  <2>1. /\ dl' = [u \in Users |-> [dl[u] EXCEPT !.live = FALSE]]
        /\ downloads' = downloads /\ running' = running /\ conn' = conn /\ disc' = disc
    BY <1>3 DEF DeleteTemp
  <2>2. ASSUME NEW v \in Users
        PROVE  /\ [dl[v] EXCEPT !.live = FALSE] \in Download
               /\ Same([dl[v] EXCEPT !.live = FALSE], dl[v])
    BY <1>0 DEF Download, Same
  <2>3. dl' \in [Users -> Download] /\ \A v \in Users : Same(dl'[v], dl[v]) BY <2>1, <2>2
  <2> QED BY <1>0, <2>1, <2>3, NoneChanges
<1>4. CASE /\ conn' = conn /\ dl' = dl /\ running' = running
           /\ downloads' = downloads \/ \E U : downloads' = Without(downloads, U)
           /\ disc' \subseteq disc \cup ToSet(downloads) \cup ToSet(running)
  <2>1. downloads' \in Seq(Users) /\ running' \in Seq(Users) /\ disc' \subseteq Users
    BY <1>0, <1>1, <1>2, <1>4
  <2> QED BY <1>0, <1>4, <2>1, NoneChanges DEF Same
<1>5. CASE \E u \in Users : removeFileSource(u)
  <2>1. PICK u \in Users : removeFileSource(u) BY <1>5
  <2> QED BY <1>4, <2>1 DEF removeFileSource
<1>6. CASE \E u \in Users, info \in PartsInfos : addPartialSource(u, info)
  <2>1. transfers' = transfers BY <1>6 DEF addPartialSource
  <2> QED BY <1>4, <2>1 DEF transfers
<1>7. CASE removeQI BY <1>4, <1>7 DEF removeQI
<1>8. CASE setBundlePriority BY <1>4, <1>8 DEF setBundlePriority
<1>9. CASE \E what \in {"bundle", "file"} : Resume(what)
  <2>1. transfers' = transfers BY <1>9 DEF Resume
  <2> QED BY <1>4, <2>1 DEF transfers
<1>10. CASE \E b \in Damaged : Damage(b)
  <2>1. transfers' = transfers BY <1>10 DEF Damage
  <2> QED BY <1>4, <2>1 DEF transfers
<1>11. CASE recheckFiles BY <1>4, <1>11 DEF recheckFiles
<1>12. CASE RecheckValidate \/ RecheckReset \/ RecheckRead \/ RecheckEnd
  <2>1. transfers' = transfers
    BY <1>12 DEF RecheckValidate, RecheckReset, RecheckRead, RecheckEnd
  <2> QED BY <1>4, <2>1 DEF transfers
<1>13. CASE RecheckApply BY <1>4, <1>13 DEF RecheckApply
<1> QED BY <1>3, <1>5, <1>6, <1>7, <1>8, <1>9, <1>10, <1>11, <1>12, <1>13 DEF Recheck

\* What is kept of an interrupted segment is the beginning of it.
LEMMA KeptIs ==
  ASSUME TransfersOK, NEW u \in Users, Kept(dl[u]) > 0
  PROVE  /\ dl[u].seg \in FileSegs /\ Kept(dl[u]) \in Int /\ Kept(dl[u]) <= dl[u].pos
         /\ dl[u].pos <= dl[u].seg.size
         /\ Segment(dl[u].seg.start, Kept(dl[u])) \in FileSegs
<1>0. BlockSize \in Nat /\ BlockSize > 0 /\ Size \in Nat /\ Size > 0 BY SegmentAssumption
<1>1. /\ dl[u] \in Download /\ DownloadIs(conn[u], dl[u]) /\ dl[u].pos \in Nat
      /\ dl[u].blk \in {BlockSize, Size} /\ dl[u].seg.size \in Int
  BY PositionIs DEF TransfersOK, Download
<1>2. dl[u].blk \in Nat /\ dl[u].blk > 0 BY <1>0, <1>1
<1>3. PICK k \in Int : k = Kept(dl[u]) /\ k <= dl[u].pos
  <2>1. PICK p \in Nat, b \in Nat : p = dl[u].pos /\ b = dl[u].blk /\ b > 0 BY <1>1, <1>2
  <2>2. roundDown(p, b) \in Nat /\ roundDown(p, b) <= p BY <2>1, RoundsDown
  <2>3. Kept(dl[u]) = roundDown(p, b) BY <2>1 DEF Kept
  <2> QED BY <2>1, <2>2, <2>3
<1>4. dl[u].pos > 0 /\ k >= 1 BY <1>1, <1>3
<1>5. dl[u].pos <= dl[u].seg.size /\ dl[u].seg.size > 0 BY <1>1, <1>4 DEF DownloadIs
<1>6. dl[u].seg \in FileSegs BY <1>1, <1>5 DEF DownloadIs
<1>7. PICK a \in Int : a = dl[u].seg.start BY <1>6, FileSegsAre
<1>8. a >= 0 /\ a + dl[u].seg.size <= Size BY <1>6, <1>7, FileSegsAre
<1>9. a + k <= Size BY <1>0, <1>1, <1>3, <1>5, <1>8
<1>10. Segment(a, k) \in FileSegs BY <1>4, <1>8, <1>9, SegmentIs
<1> QED BY <1>3, <1>5, <1>6, <1>7, <1>10

\* addFinishedSegment keeps the segments in the file and apart.
LEMMA FinishedIs ==
  ASSUME QueueOK, NEW seg \in FileSegs, addFinishedSegment(seg)
  PROVE  done' \subseteq FileSegs /\ Separated(done') /\ finished' \in Int
<1>1. /\ Consolidate(done, seg).done \subseteq FileSegs
      /\ Separated(Consolidate(done, seg).done)
      /\ Consolidate(done, seg).bytes \in Int
  BY ConsolidateSeparates DEF QueueOK
<1>2. done' = Consolidate(done, seg).done /\ finished' = finished + Consolidate(done, seg).bytes
  BY DEF addFinishedSegment
<1> QED BY <1>1, <1>2 DEF QueueOK

\* The sum of the sizes is a number.
LEMMA SumIs ==
  ASSUME NEW S, S \subseteq FileSegs, Separated(S)
  PROVE  getDownloadedSegments(S) \in Nat
BY SumIsCover, UnitsFinite, FS_CardinalityType

\* Without segments nothing is done.
LEMMA ResetIs ==
  ASSUME QueueOK, resetDownloaded
  PROVE  done' \subseteq FileSegs /\ Separated(done') /\ finished' \in Int
<1>1. done' = {} /\ finished' = finished - getDownloadedSegments(done) BY DEF resetDownloaded
<1>2. getDownloadedSegments(done) \in Nat BY SumIs DEF QueueOK
<1> QED BY <1>1, <1>2 DEF QueueOK, Separated

\* The queue's part, step by step.
LEMMA ConnectionQueue ==
  ASSUME Base, NEW u \in Users, Connection(u)
  PROVE  QueueOK'
<1>0. QueueOK /\ TransfersOK BY DEF Base
<1>a. getBlockSize \in {-1, BlockSize, Size} BY <1>0, BlockSizeIs
<1>1. CASE /\ done' = done /\ finished' = finished /\ status' = status /\ paused' = paused
           /\ pausing' = pausing /\ blockSize' \in {blockSize, getBlockSize}
           /\ tree' \in BOOLEAN
  BY <1>0, <1>1, <1>a DEF QueueOK
<1>2. CASE Requesting(u) \/ SND(u) \/ FileNotAvailable(u) \/ Failed(u) \/ FailedIdle(u)
  <2>1. queue' = queue /\ tree' = tree
    BY <1>2 DEF Requesting, SND, FileNotAvailable, Failed, FailedIdle
  <2> QED BY <1>0, <1>1, <2>1 DEF queue, QueueOK
<1>3. CASE startDownload(u) \/ NoNeededPart(u)
  BY <1>0, <1>1, <1>3 DEF startDownload, NoNeededPart, QueueOK
<1>4. CASE TreeData(u) \/ onTreeDownloadCompleted(u)
  <2>1. queue' = queue /\ tree' \in {tree, TRUE} BY <1>4 DEF TreeData, onTreeDownloadCompleted
  <2> QED BY <1>0, <1>1, <2>1 DEF queue, QueueOK
<1>5. CASE Data(u)
  <2>1. /\ done' = done /\ finished' = finished /\ status' = status /\ paused' \in {paused, paused \cup {"bundle"}}
        /\ pausing' \in BOOLEAN /\ blockSize' = blockSize /\ tree' = tree
    BY <1>0, <1>5 DEF Data, queue, QueueOK
  <2> QED BY <1>0, <2>1 DEF QueueOK
<1>6. CASE getDownload(u)
  <2>1. PICK wanted \in WantedSizes :
          \E d \in NewDownloads(u, IF TempGone THEN {} ELSE done, wanted) :
            blockSize' = IF tree THEN BlockSize ELSE IF u \in partial THEN getBlockSize ELSE blockSize
    BY <1>6 DEF getDownload
  <2>2. blockSize' \in {-1, BlockSize, Size} BY <1>0, <1>a, <2>1 DEF QueueOK
  <2>3. /\ resetDownloaded \/ (done' = done /\ finished' = finished)
        /\ status' = status /\ paused' = paused /\ pausing' = pausing /\ tree' = tree
    BY <1>6 DEF getDownload
  <2>4. done' \subseteq FileSegs /\ Separated(done') /\ finished' \in Int
    BY <1>0, <2>3, ResetIs DEF QueueOK, Separated
  <2> QED BY <1>0, <2>2, <2>3, <2>4 DEF QueueOK
<1>7. CASE onDownloadFailed(u)
  <2>1. /\ \/ Kept(dl[u]) > 0 /\ addFinishedSegment(Segment(dl[u].seg.start, Kept(dl[u])))
           \/ done' = done /\ finished' = finished
        /\ status' = status /\ paused' = paused /\ pausing' = pausing /\ tree' = tree
        /\ blockSize' = blockSize
    BY <1>7 DEF onDownloadFailed
  <2>2. done' \subseteq FileSegs /\ Separated(done') /\ finished' \in Int
    BY <1>0, <2>1, KeptIs, FinishedIs DEF QueueOK, Separated
  <2> QED BY <1>0, <2>1, <2>2 DEF QueueOK
<1>8. CASE onFileDownloadCompleted(u)
  <2>1. /\ addFinishedSegment(dl[u].seg)
        /\ status' \in {status, "DOWNLOADED"} /\ paused' = paused /\ pausing' = pausing
        /\ tree' = tree /\ blockSize' = blockSize
        /\ conn[u] = "putting" /\ dl[u].result = "finished" /\ dl[u].type = "FILE"
    BY <1>8 DEF onFileDownloadCompleted
  <2>2. dl[u].seg \in FileSegs BY <1>0, <2>1 DEF TransfersOK, DownloadIs
  <2>3. done' \subseteq FileSegs /\ Separated(done') /\ finished' \in Int
    BY <1>0, <2>1, <2>2, FinishedIs
  <2> QED BY <1>0, <2>1, <2>3 DEF QueueOK
<1> QED BY <1>2, <1>3, <1>4, <1>5, <1>6, <1>7, <1>8 DEF Connection

\* Other threads keep the types of the queue.
LEMMA OtherQueue ==
  ASSUME Base,
         \/ \E u \in Users : removeFileSource(u)
         \/ \E u \in Users, info \in PartsInfos : addPartialSource(u, info)
         \/ removeQI \/ setBundlePriority \/ DeleteTemp
         \/ \E what \in {"bundle", "file"} : Resume(what)
         \/ \E b \in Damaged : Damage(b)
         \/ recheckFiles \/ Recheck
  PROVE  QueueOK'
<1>0. QueueOK BY DEF Base
<1>1. CASE queue' = queue /\ tree' = tree BY <1>0, <1>1 DEF queue, QueueOK, Separated
<1>2. CASE /\ done' = done /\ finished' = finished /\ status' = status /\ tree' = tree
           /\ paused' \subseteq paused \cup {"bundle", "file"} /\ pausing' \in BOOLEAN
           /\ blockSize' \in {blockSize, getBlockSize}
  <2>1. getBlockSize \in {BlockSize, Size} BY <1>0, BlockSizeIs
  <2> QED BY <1>0, <1>2, <2>1 DEF QueueOK, Separated
<1>3. CASE \E u \in Users : removeFileSource(u) BY <1>1, <1>3 DEF removeFileSource
<1>4. CASE \E u \in Users, info \in PartsInfos : addPartialSource(u, info)
  BY <1>0, <1>2, <1>4 DEF addPartialSource, QueueOK
<1>5. CASE removeQI
  <2>1. getDownloadedSegments(done) \in Nat BY <1>0, SumIs DEF QueueOK
  <2>2. /\ done' = done /\ finished' = finished - getDownloadedSegments(done)
        /\ status' = "REMOVED" /\ paused' = paused /\ pausing' = pausing
        /\ blockSize' = blockSize /\ tree' = tree
    BY <1>5 DEF removeQI
  <2> QED BY <1>0, <2>1, <2>2 DEF QueueOK, Separated
<1>6. CASE setBundlePriority BY <1>0, <1>2, <1>6 DEF setBundlePriority, QueueOK
<1>7. CASE DeleteTemp BY <1>1, <1>7 DEF DeleteTemp
<1>8. CASE \E what \in {"bundle", "file"} : Resume(what)
  BY <1>0, <1>2, <1>8 DEF Resume, QueueOK
<1>9. CASE \E b \in Damaged : Damage(b) BY <1>1, <1>9 DEF Damage
<1>10. CASE recheckFiles BY <1>0, <1>2, <1>10 DEF recheckFiles, QueueOK
<1>11. CASE RecheckValidate \/ RecheckRead BY <1>1, <1>11 DEF RecheckValidate, RecheckRead
<1>12. CASE RecheckReset
  <2>1. /\ resetDownloaded \/ (done' = done /\ finished' = finished)
        /\ status' = status /\ paused' = paused /\ pausing' = pausing /\ tree' = tree
        /\ blockSize' = blockSize
    BY <1>12 DEF RecheckReset
  <2>2. done' \subseteq FileSegs /\ Separated(done') /\ finished' \in Int
    BY <1>0, <2>1, ResetIs DEF QueueOK, Separated
  <2> QED BY <1>0, <2>1, <2>2 DEF QueueOK
<1>13. CASE RecheckApply
  <2>1. /\ paused' = paused /\ pausing' = pausing /\ tree' = tree /\ blockSize' = blockSize
        /\ \/ done' = done /\ finished' = finished /\ status' = status
           \/ /\ done' = Compared.done /\ finished' = finished + Compared.bytes
              /\ status' \in {"DOWNLOADED", "QUEUED", status}
    BY <1>13 DEF RecheckApply
  <2>2. Compared.done \subseteq FileSegs /\ Separated(Compared.done) /\ Compared.bytes \in Int
    BY <1>0, ComparedIs
  <2>3. done' \subseteq FileSegs /\ Separated(done') /\ finished' \in Int
    BY <1>0, <2>1, <2>2 DEF QueueOK, Separated
  <2> QED BY <1>0, <2>1, <2>3 DEF QueueOK
<1>14. CASE RecheckEnd BY <1>0, <1>2, <1>14 DEF RecheckEnd, QueueOK
<1> QED BY <1>3, <1>4, <1>5, <1>6, <1>7, <1>8, <1>9, <1>10, <1>11, <1>12, <1>13, <1>14 DEF Recheck

\* Every step keeps the types of the sources.
LEMMA SourcesStep ==
  ASSUME Base, [Next]_vars
  PROVE  SourcesOK'
<1>0. SourcesOK BY DEF Base
<1>1. CASE srcs' = srcs BY <1>0, <1>1 DEF SourcesOK, srcs
<1>2. CASE /\ sources' \subseteq sources /\ noTree' \subseteq noTree \cup sources
           /\ partial' = partial /\ parts' = parts
  BY <1>0, <1>2 DEF SourcesOK
<1>3. ASSUME NEW u \in Users, Connection(u) \/ removeFileSource(u) PROVE SourcesOK'
  <2>1. CASE NoNeededPart(u) \/ removeFileSource(u)
    BY <1>2, <2>1 DEF NoNeededPart, removeFileSource, Blame
  <2>2. CASE FileNotAvailable(u) BY <1>2, <2>2 DEF FileNotAvailable, Blame
  <2>3. CASE Data(u) BY <1>2, <2>3 DEF Data, Blame
  <2>4. CASE TreeData(u) BY <1>2, <2>4 DEF TreeData, Blame
  <2>5. CASE \/ Requesting(u) \/ SND(u) \/ Failed(u) \/ FailedIdle(u) \/ onDownloadFailed(u)
             \/ onTreeDownloadCompleted(u) \/ onFileDownloadCompleted(u)
    BY <1>1, <2>5 DEF Requesting, SND, Failed, FailedIdle, onDownloadFailed,
                      onTreeDownloadCompleted, onFileDownloadCompleted
  <2>6. CASE getDownload(u) \/ startDownload(u)
    BY <1>1, <2>6 DEF getDownload, startDownload
  <2> QED BY <1>3, <2>1, <2>2, <2>3, <2>4, <2>5, <2>6 DEF Connection
<1>4. ASSUME NEW u \in Users, NEW info \in PartsInfos, addPartialSource(u, info) PROVE SourcesOK'
  <2>1. /\ sources' \in {sources, sources \cup {u}} /\ partial' \in {partial, partial \cup {u}}
        /\ noTree' = noTree /\ parts' = [parts EXCEPT ![u] = info]
    BY <1>4 DEF addPartialSource
  <2>2. parts' \in [Users -> PartsInfos \cup {NoParts}] BY <1>0, <2>1 DEF SourcesOK
  <2> QED BY <1>0, <2>1, <2>2 DEF SourcesOK
<1>5. CASE removeQI \/ setBundlePriority \/ DeleteTemp \/ recheckFiles
  BY <1>1, <1>5 DEF removeQI, setBundlePriority, DeleteTemp, recheckFiles
<1>6. CASE \/ \E what \in {"bundle", "file"} : Resume(what)
           \/ \E b \in Damaged : Damage(b)
  BY <1>1, <1>6 DEF Resume, Damage
<1>7. CASE Recheck
  BY <1>1, <1>7 DEF Recheck, RecheckValidate, RecheckReset, RecheckRead, RecheckApply, RecheckEnd
<1>8. CASE UNCHANGED vars BY <1>1, <1>8 DEF vars
<1> QED BY <1>3, <1>4, <1>5, <1>6, <1>7, <1>8 DEF Next

\* The unit that arrives is one of a leaf of the file.
LEMMA LeafIs ==
  ASSUME NEW at \in Nat, at < Size
  PROVE  at \div BlockSize \in Leaves
<1>0. BlockSize \in Nat /\ BlockSize > 0 /\ Size \in Nat /\ Size > 0 BY SegmentAssumption
<1>1. PICK q \in Int : q = at \div BlockSize /\ q * BlockSize <= at /\ q >= 0 BY <1>0, Division
<1>2. Size - 1 \in Int BY <1>0
<1>3. PICK l \in Int : l = (Size - 1) \div BlockSize /\ Size - 1 < l * BlockSize + BlockSize
  BY <1>0, <1>2, Division
<1>4. l + 1 \in Int /\ (l + 1) * BlockSize = l * BlockSize + BlockSize
  BY <1>0, Multiples
<1>5. q * BlockSize \in Int /\ l * BlockSize + BlockSize \in Int BY <1>0
<1>6. q * BlockSize < (l + 1) * BlockSize BY <1>0, <1>1, <1>3, <1>4, <1>5
<1>7. q + 1 <= l + 1 BY <1>0, <1>4, <1>6, Multiples
<1> QED BY <1>1, <1>3, <1>7 DEF Leaves

\* Every step keeps the types of the files.
LEMMA FilesStep ==
  ASSUME Base, [Next]_vars
  PROVE  FilesOK'
<1>0. FilesOK /\ QueueOK /\ TransfersOK BY DEF Base
<1>1. CASE /\ temp' \in BOOLEAN /\ disk' \subseteq disk /\ check' = check
           /\ fails' \in 0..MaxFails /\ events' \in {events, events + 1}
           /\ events' = events + 1 => events < MaxEvents
  BY <1>0, <1>1, QueueItemAssumption DEF FilesOK
<1>2. CASE files' = files /\ check' = check /\ fails' = fails /\ events' = events
  BY <1>0, <1>2 DEF FilesOK, files
<1>3. ASSUME NEW u \in Users, Connection(u) \/ removeFileSource(u) PROVE FilesOK'
  <2>1. CASE \/ Requesting(u) \/ FailedIdle(u) \/ onTreeDownloadCompleted(u)
             \/ getDownload(u) \/ NoNeededPart(u) \/ startDownload(u)
    BY <1>2, <2>1 DEF Requesting, FailedIdle, onTreeDownloadCompleted, getDownload, NoNeededPart,
                      startDownload
  <2>2. CASE SND(u)
    <3>1. /\ disk' = disk /\ check' = check /\ fails' = fails /\ events' = events
          /\ temp' \in BOOLEAN
      BY <1>0, <2>2 DEF SND, open, Return, FilesOK
    <3> QED BY <1>0, <3>1 DEF FilesOK
  <2>3. CASE FileNotAvailable(u) \/ TreeData(u)
    <3>1. /\ disk' = disk /\ check' = check /\ fails' = fails /\ events' = events
          /\ temp' \in BOOLEAN
      BY <1>0, <2>3 DEF FileNotAvailable, TreeData, Return, FilesOK
    <3> QED BY <1>0, <3>1 DEF FilesOK
  <2>4. CASE Failed(u)
    <3>1. /\ disk' = disk /\ check' = check /\ events' = events /\ temp' \in BOOLEAN
          /\ fails' = fails \/ (fails < MaxFails /\ fails' = fails + 1)
      BY <1>0, <2>4 DEF Failed, Return, FilesOK
    <3> QED BY <1>0, <3>1, QueueItemAssumption DEF FilesOK
  <2>5. CASE onDownloadFailed(u) \/ onFileDownloadCompleted(u)
    <3>1. /\ disk' \subseteq disk /\ check' = check /\ fails' = fails /\ events' = events
          /\ temp' \in BOOLEAN
      BY <1>0, <2>5 DEF onDownloadFailed, onFileDownloadCompleted, FilesOK, files
    <3> QED BY <1>0, <3>1 DEF FilesOK
  <2>6. CASE removeFileSource(u)
    BY <1>0, <1>1, <2>6 DEF removeFileSource, FilesOK, files, Event
  <2>7. CASE Data(u)
    <3>1. /\ conn[u] = "RUNNING" /\ dl[u].type = "FILE"
          /\ check' = check /\ fails' = fails /\ events' = events
          /\ disk' \in {disk, disk \ {(dl[u].seg.start + dl[u].pos) \div BlockSize},
                        disk \cup {(dl[u].seg.start + dl[u].pos) \div BlockSize}}
          /\ temp' \in BOOLEAN
      BY <1>0, <2>7 DEF Data, Return, FilesOK
    <3>2. dl[u].pos < dl[u].seg.size /\ dl[u].pos \in Nat /\ dl[u].seg.size \in Int
      BY <1>0, <3>1, PositionIs DEF TransfersOK, DownloadIs, Download
    <3>3. dl[u].seg \in FileSegs BY <1>0, <3>2 DEF TransfersOK, DownloadIs
    <3>4. PICK at \in Nat : at = dl[u].seg.start + dl[u].pos /\ at < Size
      BY <3>2, <3>3, FileSegsAre
    <3>5. at \div BlockSize \in Leaves BY <3>4, LeafIs
    <3> QED BY <1>0, <3>1, <3>4, <3>5 DEF FilesOK
  <2> QED BY <1>3, <2>1, <2>2, <2>3, <2>4, <2>5, <2>6, <2>7 DEF Connection
<1>4. ASSUME NEW u \in Users, NEW info \in PartsInfos, addPartialSource(u, info) PROVE FilesOK'
  BY <1>0, <1>1, <1>4 DEF addPartialSource, FilesOK, files, Event
<1>5. CASE removeQI BY <1>0, <1>1, <1>5 DEF removeQI, FilesOK, Event
<1>6. CASE setBundlePriority BY <1>0, <1>1, <1>6 DEF setBundlePriority, FilesOK, files, Event
<1>7. CASE DeleteTemp BY <1>0, <1>1, <1>7 DEF DeleteTemp, FilesOK, Event
<1>8. CASE \E what \in {"bundle", "file"} : Resume(what)
  BY <1>0, <1>1, <1>8 DEF Resume, FilesOK, files, Event
<1>9. CASE \E b \in Damaged : Damage(b) BY <1>0, <1>1, <1>9 DEF Damage, FilesOK, Event
<1>10. CASE /\ temp' \in BOOLEAN /\ disk' = disk /\ check' \in Checks /\ fails' = fails
            /\ \/ events' = events
               \/ events < MaxEvents /\ events' = events + 1
  BY <1>0, <1>10, QueueItemAssumption DEF FilesOK
<1>11. /\ \A p \in Phases : [check EXCEPT !.phase = p] \in Checks
       /\ \A b \in BOOLEAN : [NoCheck EXCEPT !.phase = "paused", !.prio = b] \in Checks
       /\ RecheckDone(check) \in Checks /\ NoCheck \in Checks
  BY <1>0 DEF FilesOK, Checks, NoCheck, RecheckDone, Phases
<1>12. CASE recheckFiles
  <2>1. ("file" \in paused) \in BOOLEAN OBVIOUS
  <2> QED BY <1>0, <1>10, <1>11, <1>12, <2>1 DEF recheckFiles, FilesOK, files, Event
<1>13. CASE RecheckValidate
  BY <1>0, <1>10, <1>11, <1>13 DEF RecheckValidate, FilesOK, files, Phases
<1>14. CASE RecheckReset
  <2>1. [check EXCEPT !.phase = "reset", !.done = done] \in Checks
    BY <1>0 DEF FilesOK, QueueOK, Checks, Phases
  <2> QED BY <1>0, <1>10, <1>11, <1>14, <2>1 DEF RecheckReset, FilesOK, files
<1>15. CASE RecheckRead
  <2>1. [check EXCEPT !.phase = "read", !.leaves = disk] \in Checks
    BY <1>0 DEF FilesOK, Checks, Phases
  <2> QED BY <1>0, <1>10, <1>11, <1>15, <2>1 DEF RecheckRead, FilesOK, files, Event
<1>16. CASE RecheckApply
  <2>1. temp' \in BOOLEAN
    <3>1. temp' = temp \/ temp' = ((temp /\ ~(check.leaves = Leaves)) \/
                                    (status = "DOWNLOADED" /\ ~segmentsDone(Compared.done)))
      BY <1>16 DEF RecheckApply
    <3> QED BY <1>0, <3>1 DEF FilesOK
  <2> QED BY <1>0, <1>10, <1>11, <1>16, <2>1 DEF RecheckApply, FilesOK
<1>17. CASE RecheckEnd BY <1>0, <1>10, <1>11, <1>17 DEF RecheckEnd, FilesOK, files
<1>18. CASE UNCHANGED vars BY <1>2, <1>18 DEF vars
<1> QED BY <1>3, <1>4, <1>5, <1>6, <1>7, <1>8, <1>9, <1>12, <1>13, <1>14, <1>15, <1>16, <1>17,
           <1>18 DEF Next, Recheck

\* The invariant of the types holds in the beginning and after every step.
LEMMA BaseInit == ASSUME Init PROVE Base
<1>1. QueueOK
  <2>1. /\ done = {} /\ finished = 0 /\ status = "QUEUED" /\ paused = {} /\ pausing = FALSE
        /\ blockSize = -1 /\ tree = FALSE
    BY DEF Init
  <2>2. pausing \in BOOLEAN /\ tree \in BOOLEAN BY <2>1
  <2>3. done \subseteq FileSegs /\ Separated(done) BY <2>1 DEF Separated
  <2>4. blockSize \in {-1, BlockSize, Size} /\ finished \in Int BY <2>1
  <2> QED BY <2>1, <2>2, <2>3, <2>4 DEF QueueOK
<1>2. SourcesOK BY QueueItemAssumption DEF Init, SourcesOK
<1>3. TransfersOK
  <2>1. dl \in [Users -> Download] /\ conn \in [Users -> Conns] /\ \A u \in Users : dl[u] = NoDownload
    BY NoDownloadIs DEF Init, Conns
  <2> QED BY <2>1, NoDownloadIs DEF Init, TransfersOK
<1>4. FilesOK
  <2>1. temp = FALSE /\ disk = {} /\ check = NoCheck /\ fails = 0 /\ events = 0 BY DEF Init
  <2>2. NoCheck \in Checks BY DEF Checks, NoCheck, Phases
  <2>3. fails \in 0..MaxFails /\ events \in 0..MaxEvents BY <2>1, QueueItemAssumption
  <2>4. temp \in BOOLEAN /\ disk \subseteq Leaves BY <2>1
  <2> QED BY <2>1, <2>2, <2>3, <2>4 DEF FilesOK
<1> QED BY <1>1, <1>2, <1>3, <1>4 DEF Base

\* Every step keeps the types.
LEMMA BaseStep ==
  ASSUME Base, [Next]_vars
  PROVE  Base'
<1>1. SourcesOK' /\ FilesOK' BY SourcesStep, FilesStep
<1>2. ASSUME NEW u \in Users, Connection(u) PROVE QueueOK' /\ TransfersOK'
  BY <1>2, ConnectionQueue, AssignTransfers, TransferTransfers, PutTransfers DEF Connection
<1>3. CASE UNCHANGED vars
  <2>1. QueueOK' BY <1>3 DEF vars, queue, Base, QueueOK, Separated
  <2>2. TransfersOK'
    <3>1. /\ downloads' = downloads /\ running' = running /\ conn' = conn /\ dl' = dl
          /\ disc' = disc
      BY <1>3 DEF vars, transfers
    <3> QED BY <3>1 DEF Base, TransfersOK
  <2> QED BY <1>1, <2>1, <2>2 DEF Base
<1>4. CASE Next
  <2>1. \/ \E u \in Users : Connection(u)
        \/ \/ \E u \in Users : removeFileSource(u)
           \/ \E u \in Users, info \in PartsInfos : addPartialSource(u, info)
           \/ removeQI \/ setBundlePriority \/ DeleteTemp
           \/ \E what \in {"bundle", "file"} : Resume(what)
           \/ \E b \in Damaged : Damage(b)
           \/ recheckFiles \/ Recheck
    BY <1>4 DEF Next
  <2>2. QueueOK' /\ TransfersOK' BY <1>2, <2>1, OtherQueue, OtherTransfers
  <2> QED BY <1>1, <2>2 DEF Base
<1> QED BY <1>1, <1>3, <1>4 DEF Base

\* What the types mean.
LEMMA BaseTypes ==
  ASSUME Base
  PROVE  TypeOK /\ Consolidated
<1>1. ASSUME NEW s \in done PROVE s.start \in 0..Size /\ s.size \in 1..(Size - s.start)
  BY <1>1, FileSegsAre DEF Base, QueueOK
<1>2. ToSet(downloads) \subseteq Users /\ ToSet(running) \subseteq Users
  BY ToSetOf DEF Base, TransfersOK
<1>3. \A u \in Users : conn[u] \in {"idle", "starting", "assigned", "SND", "RUNNING", "putting",
                                    "silent"}
  BY DEF Base, TransfersOK, Conns, Owning
<1>4. TypeOK
  BY <1>1, <1>2, <1>3 DEF Base, QueueOK, SourcesOK, TransfersOK, FilesOK, TypeOK
<1>5. Consolidated BY DEF Base, QueueOK, Separated, Consolidated
<1> QED BY <1>4, <1>5

\* Whatever is chosen, rounded, cut, returned, kept, dropped and checked again,
\* the segments that are done lie inside the file, and the other variables have
\* their types.
THEOREM TypeCorrect == Spec => []TypeOK
<1>1. Init => Base BY BaseInit
<1>2. Base /\ [Next]_vars => Base' BY BaseStep
<1>3. Base => TypeOK BY BaseTypes
<1> QED BY <1>1, <1>2, <1>3, PTL DEF Spec

\* addFinishedSegment joins everything that touches: no two segments that are
\* done do, so that segmentsDone sees a file that is complete.
THEOREM GapsRemain == Spec => []Consolidated
<1>1. Init => Base BY BaseInit
<1>2. Base /\ [Next]_vars => Base' BY BaseStep
<1>3. Base => Consolidated BY BaseTypes
<1> QED BY <1>1, <1>2, <1>3, PTL DEF Spec

-----------------------------------------------------------------------------
(* The list of downloads, with overlapped segments and without.            *)

\* What holds of the list until a finished file is checked.
PointersRight ==
  /\ downloads \in Seq(Users)
  /\ conn \in [Users -> Owning \cup {"idle", "starting", "silent"}]
  /\ check.phase \in {"none", "end"}
  /\ status = "QUEUED" => \A u \in Entries : conn[u] \in Owning

\* The list stays as it is or loses entries; a connection that gives its
\* download up, while the file stays queued, has no entry any more.
LEMMA Shrinks ==
  ASSUME PointersRight,
         downloads' \in Seq(Users),
         \A u \in Entries' : u \in Entries,
         conn' \in [Users -> Owning \cup {"idle", "starting", "silent"}],
         check'.phase \in {"none", "end"},
         status' = "QUEUED" =>
           /\ status = "QUEUED"
           /\ \A u \in Entries' : conn[u] \in Owning => conn'[u] \in Owning
  PROVE  PointersRight'
BY DEF PointersRight

\* One connection changes, and the list does not.
LEMMA OneMoves ==
  ASSUME PointersRight, NEW u \in Users, NEW to \in Owning \cup {"idle", "starting", "silent"},
         downloads' = downloads, check' = check, status' = status,
         conn' = [conn EXCEPT ![u] = to],
         status = "QUEUED" => conn[u] \notin Owning \/ to \in Owning
  PROVE  PointersRight'
<1>1. Entries' = Entries BY DEF Entries
<1>2. /\ conn' \in [Users -> Owning \cup {"idle", "starting", "silent"}]
      /\ conn'[u] = to /\ \A v \in Users : v # u => conn'[v] = conn[v]
  BY DEF PointersRight
<1>3. \A v \in Entries : v \in Users BY DEF PointersRight, Entries
<1> QED BY <1>1, <1>2, <1>3, Shrinks DEF PointersRight

\* The end of a transfer: the entry stays until the download is put back, and
\* the connection owns it until then, as long as the file is queued.
LEMMA ReturnKeeps ==
  ASSUME PointersRight, NEW u \in Users, NEW d, NEW result, Return(u, d, result),
         downloads' = downloads, check' = check, status' = status
  PROVE  PointersRight'
<1>1. CASE status = "QUEUED"
  <2>1. conn' = [conn EXCEPT ![u] = "putting"] BY <1>1 DEF Return
  <2> QED BY <1>1, <2>1, OneMoves DEF Owning
<1>2. CASE status # "QUEUED"
  <2>1. conn' = [conn EXCEPT ![u] = After(result)] BY <1>2 DEF Return
  <2>2. After(result) \in {"idle", "silent"} BY DEF After
  <2> QED BY <1>2, <2>1, <2>2, OneMoves
<1> QED BY <1>1, <1>2

\* putDownloadHooked: the connection is done with its download, and its entry is
\* gone.
LEMMA PutKeeps ==
  ASSUME PointersRight, NEW u \in Users, NEW U, NEW to \in {"idle", "silent"},
         downloads' = Without(downloads, U), check' = check,
         conn' = [conn EXCEPT ![u] = to],
         status' = "QUEUED" => status = "QUEUED" /\ u \in U
  PROVE  PointersRight'
<1>1. /\ downloads' \in Seq(Users)
      /\ \A v \in Entries' : v \in Entries /\ v \notin U
  BY WithoutEntries DEF PointersRight, Entries
<1>2. /\ conn' \in [Users -> Owning \cup {"idle", "starting", "silent"}]
      /\ \A v \in Users : v # u => conn'[v] = conn[v]
  BY DEF PointersRight
<1>3. \A v \in Entries' : v \in Users BY <1>1 DEF PointersRight, Entries
<1>4. check'.phase \in {"none", "end"} BY DEF PointersRight
<1>5. status' = "QUEUED" =>
        status = "QUEUED" /\ \A v \in Entries' : conn[v] \in Owning => conn'[v] \in Owning
  <2> SUFFICES ASSUME status' = "QUEUED", NEW v \in Entries', conn[v] \in Owning
               PROVE  conn'[v] \in Owning
    OBVIOUS
  <2>1. v # u BY <1>1
  <2> QED BY <1>2, <1>3, <2>1
<1> QED BY <1>1, <1>2, <1>4, <1>5, Shrinks

-----------------------------------------------------------------------------
(* The steps *)

\* The choice of a segment adds an entry of the connection that chose it.
LEMMA AssignSteps ==
  ASSUME PointersRight, NEW u \in Users,
         startDownload(u) \/ NoNeededPart(u) \/ getDownload(u) \/ Requesting(u)
  PROVE  PointersRight'
<1>1. CASE startDownload(u)
  <2>1. /\ conn[u] = "idle" /\ conn' = [conn EXCEPT ![u] = "starting"]
        /\ downloads' = downloads /\ check' = check /\ status' = status
    BY <1>1 DEF startDownload
  <2> QED BY <2>1, OneMoves DEF Owning
<1>2. CASE NoNeededPart(u)
  <2>1. /\ conn[u] = "starting" /\ conn' = [conn EXCEPT ![u] = "idle"]
        /\ downloads' = downloads /\ check' = check /\ status' = status
    BY <1>2 DEF NoNeededPart
  <2> QED BY <2>1, OneMoves DEF Owning
<1>3. CASE getDownload(u)
  <2>1. /\ conn' = [conn EXCEPT ![u] = "assigned"] /\ downloads' = Append(downloads, u)
        /\ check' = check /\ status' = status
    BY <1>3 DEF getDownload
  <2>2. /\ downloads' \in Seq(Users) /\ \A v \in Entries' : v \in Entries \/ v = u
    BY <2>1 DEF PointersRight, Entries
  <2>3. /\ conn' \in [Users -> Owning \cup {"idle", "starting", "silent"}]
        /\ conn'[u] = "assigned" /\ \A v \in Users : v # u => conn'[v] = conn[v]
    BY <2>1 DEF PointersRight, Owning
  <2>4. \A v \in Entries : v \in Users BY DEF PointersRight, Entries
  <2>5. "assigned" \in Owning BY DEF Owning
  <2> QED BY <2>1, <2>2, <2>3, <2>4, <2>5 DEF PointersRight
<1>4. CASE Requesting(u)
  <2>1. /\ conn' = [conn EXCEPT ![u] = "SND"]
        /\ downloads' = downloads /\ check' = check /\ status' = status
    BY <1>4 DEF Requesting, queue
  <2> QED BY <2>1, OneMoves DEF Owning
<1> QED BY <1>1, <1>2, <1>3, <1>4

\* A transfer keeps its entry.
LEMMA TransferSteps ==
  ASSUME PointersRight, NEW u \in Users,
         SND(u) \/ FileNotAvailable(u) \/ Data(u) \/ TreeData(u) \/ Failed(u) \/ FailedIdle(u)
  PROVE  PointersRight'
<1>1. CASE SND(u)
  <2>1. downloads' = downloads /\ check' = check /\ status' = status BY <1>1 DEF SND, queue
  <2>2. \/ conn' = [conn EXCEPT ![u] = "RUNNING"]
        \/ Return(u, [dl[u] EXCEPT !.over = FALSE], "failed")
    BY <1>1 DEF SND
  <2>3. "RUNNING" \in Owning BY DEF Owning
  <2> QED BY <2>1, <2>2, <2>3, OneMoves, ReturnKeeps
<1>2. CASE FileNotAvailable(u)
  <2>1. downloads' = downloads /\ check' = check /\ status' = status
    BY <1>2 DEF FileNotAvailable, queue
  <2>2. Return(u, dl[u], "unavailable") BY <1>2 DEF FileNotAvailable
  <2> QED BY <2>1, <2>2, ReturnKeeps
<1>3. CASE Data(u)
  <2>1. downloads' = downloads /\ check' = check /\ status' = status BY <1>3 DEF Data
  <2>2. \/ \E d, result : Return(u, d, result)
        \/ conn' = conn
    BY <1>3 DEF Data
  <2>3. CASE conn' = conn
    <3>1. Entries' = Entries BY <2>1 DEF Entries
    <3> QED BY <2>1, <2>3, <3>1 DEF PointersRight
  <2> QED BY <2>1, <2>2, <2>3, ReturnKeeps
<1>4. CASE TreeData(u)
  <2>1. downloads' = downloads /\ check' = check /\ status' = status BY <1>4 DEF TreeData, queue
  <2>2. Return(u, dl[u], "finished") \/ Return(u, dl[u], "failed") BY <1>4 DEF TreeData
  <2> QED BY <2>1, <2>2, ReturnKeeps
<1>5. CASE Failed(u)
  <2>1. downloads' = downloads /\ check' = check /\ status' = status BY <1>5 DEF Failed, queue
  <2>2. Return(u, dl[u], "failed") BY <1>5 DEF Failed
  <2> QED BY <2>1, <2>2, ReturnKeeps
<1>6. CASE FailedIdle(u)
  <2>1. /\ downloads' = downloads /\ check' = check /\ status' = status
        /\ conn[u] \in {"idle", "silent"} /\ conn' = [conn EXCEPT ![u] = "idle"]
    BY <1>6 DEF FailedIdle, queue
  <2> QED BY <2>1, OneMoves DEF Owning
<1> QED BY <1>1, <1>2, <1>3, <1>4, <1>5, <1>6

\* The return of a download takes it away.
LEMMA PutSteps ==
  ASSUME PointersRight, NEW u \in Users,
         onDownloadFailed(u) \/ onTreeDownloadCompleted(u) \/ onFileDownloadCompleted(u)
  PROVE  PointersRight'
<1>1. CASE onDownloadFailed(u)
  <2>1. /\ downloads' = Without(downloads, {u}) /\ check' = check /\ status' = status
        /\ conn' = [conn EXCEPT ![u] = After(dl[u].result)]
    BY <1>1 DEF onDownloadFailed
  <2>2. After(dl[u].result) \in {"idle", "silent"} BY DEF After
  <2> QED BY <2>1, <2>2, PutKeeps
<1>2. CASE onTreeDownloadCompleted(u)
  <2>1. /\ downloads' = Without(downloads, {u}) /\ check' = check /\ status' = status
        /\ conn' = [conn EXCEPT ![u] = "idle"]
    BY <1>2 DEF onTreeDownloadCompleted, queue
  <2> QED BY <2>1, PutKeeps
<1>3. CASE onFileDownloadCompleted(u)
  <2> DEFINE whole == segmentsDone(Consolidate(done, dl[u].seg).done)
  <2>1. /\ downloads' = Without(downloads, Released(u, whole)) /\ check' = check
        /\ conn' = [conn EXCEPT ![u] = "idle"]
        /\ status' = IF whole /\ status = "QUEUED" THEN "DOWNLOADED" ELSE status
    BY <1>3 DEF onFileDownloadCompleted
  <2> HIDE DEF whole
  <2>2. status' = "QUEUED" => status = "QUEUED" /\ u \in Released(u, whole)
    BY <2>1 DEF Released
  <2> QED BY <2>1, <2>2, PutKeeps
<1> QED BY <1>1, <1>2, <1>3

\* Steps of others.  The file is never queued again, because nobody rechecks it.
LEMMA OtherSteps ==
  ASSUME "recheck" \notin Events, PointersRight,
         \/ \E u \in Users : removeFileSource(u)
         \/ \E u \in Users, info \in PartsInfos : addPartialSource(u, info)
         \/ removeQI \/ setBundlePriority \/ DeleteTemp
         \/ \E what \in {"bundle", "file"} : Resume(what)
         \/ \E b \in Damaged : Damage(b)
         \/ recheckFiles \/ Recheck \/ UNCHANGED vars
  PROVE  PointersRight'
<1>1. ASSUME downloads' = downloads, conn' = conn, check' = check, status' = status
      PROVE  PointersRight'
  <2>1. Entries' = Entries BY <1>1 DEF Entries
  <2> QED BY <1>1, <2>1 DEF PointersRight
<1>2. CASE removeQI
  <2>1. /\ status' = "REMOVED" /\ conn' = conn /\ check' = check
        /\ downloads' = IF status = "QUEUED" THEN Without(downloads, sources) ELSE downloads
    BY <1>2 DEF removeQI
  <2>2. downloads' \in Seq(Users) BY <2>1, WithoutEntries DEF PointersRight
  <2> QED BY <2>1, <2>2 DEF PointersRight
<1>3. CASE \E u \in Users : removeFileSource(u)
  BY <1>1, <1>3 DEF removeFileSource, queue
<1>4. CASE \E u \in Users, info \in PartsInfos : addPartialSource(u, info)
  BY <1>1, <1>4 DEF addPartialSource, transfers
<1>5. CASE setBundlePriority \/ DeleteTemp
  BY <1>1, <1>5 DEF setBundlePriority, DeleteTemp, queue
<1>6. CASE \E what \in {"bundle", "file"} : Resume(what)
  BY <1>1, <1>6 DEF Resume, transfers
<1>7. CASE \E b \in Damaged : Damage(b)
  BY <1>1, <1>7 DEF Damage, queue, transfers
<1>8. CASE recheckFiles
  BY <1>8 DEF recheckFiles, Event
<1>9. CASE Recheck
  <2>1. RecheckEnd
    BY <1>9 DEF PointersRight, Recheck, RecheckValidate, RecheckReset, RecheckRead, RecheckApply
  <2>2. /\ check' = NoCheck /\ downloads' = downloads /\ conn' = conn /\ status' = status
    BY <2>1 DEF RecheckEnd, transfers
  <2>3. check'.phase = "none" /\ Entries' = Entries BY <2>2 DEF NoCheck, Entries
  <2> QED BY <2>2, <2>3 DEF PointersRight
<1>10. CASE UNCHANGED vars
  BY <1>1, <1>10 DEF vars, queue, transfers
<1> QED BY <1>2, <1>3, <1>4, <1>5, <1>6, <1>7, <1>8, <1>9, <1>10

\* QueueItem::downloads: until a recheck queues the file again, each entry of a
\* queued file is a download that a connection still owns, for any number of
\* sources and segments, with overlapping or without, and whichever of the
\* transfer, its failure, the removal of sources and the completion by another
\* connection comes first.
THEOREM NothingDangles ==
  ASSUME "recheck" \notin Events
  PROVE  Spec => []NoDangling
<1>1. Init => PointersRight
  <2> SUFFICES ASSUME Init PROVE PointersRight OBVIOUS
  <2>1. downloads = << >> /\ conn = [u \in Users |-> "idle"] /\ check = NoCheck BY DEF Init
  <2>2. check.phase = "none" BY <2>1 DEF NoCheck
  <2> QED BY <2>1, <2>2 DEF PointersRight, Entries
<1>2. PointersRight /\ [Next]_vars => PointersRight'
  <2> SUFFICES ASSUME PointersRight, [Next]_vars PROVE PointersRight' OBVIOUS
  <2>1. ASSUME NEW u \in Users, Connection(u) PROVE PointersRight'
    BY <2>1, AssignSteps, TransferSteps, PutSteps DEF Connection
  <2> QED BY <2>1, OtherSteps DEF Next
<1>3. PointersRight => NoDangling
  BY EntriesAre DEF PointersRight, NoDangling, Owning
<1> QED BY <1>1, <1>2, <1>3, PTL DEF Spec

-----------------------------------------------------------------------------
(* The sharing of the work.                                                *)

(* Who has been asked for what. *)

\* What the connection is to download.
Ask(u) == UnitsOf(dl[u].seg)

\* A connection that asks for a part of the file has an entry in the list; the
\* part ends at block boundaries, or is the whole file while there is no tree.
AssignedRight(u) ==
  dl[u].seg.size > 0 =>
    /\ u \in Entries /\ status = "QUEUED" /\ conn[u] \in Owning /\ Aligned(dl[u].seg)
    /\ \/ dl[u].blk = BlockSize /\ tree
       \/ dl[u].blk = Size /\ dl[u].seg = Whole

\* There is something that nobody has and nobody was asked for.
FreeUnit ==
  \E x \in 0..(Size - 1) : x \notin Units(done) /\ \A v \in Entries : x \notin Ask(v)

\* A connection that is between startDownload and getDownload will find
\* something to ask for.
StartingRight(u) ==
  conn[u] = "starting" =>
    /\ status = "QUEUED" /\ u \notin Entries /\ FreeUnit
    /\ \A v \in Users : conn[v] = "starting" => v = u

\* What is done are whole leaves, or the whole file while there is no tree,
\* and the bundle counts it.
DoneRight ==
  /\ \A s \in done : Aligned(s)
  /\ ~tree => done \in {{}, {Whole}}
  /\ finished = getDownloadedSegments(done)

\* Nobody is asked for what is done, or for what somebody else was asked for.
ApartRight ==
  /\ \A u \in Entries : Ask(u) \cap Units(done) = {}
  /\ \A u, v \in Entries : u # v => Ask(u) \cap Ask(v) = {}

\* A recheck works on a file that is downloaded, and that nobody downloads.
PhaseRight ==
  /\ status = "QUEUED" => check.phase \in {"none", "end"}
  /\ status = "DOWNLOADED" /\ check.phase \in {"validated", "reset", "read"} => Entries = {}
  /\ status = "DOWNLOADED" /\ check.phase \in {"reset", "read"} => done = {}
  /\ check.phase \in {"reset", "read"} => tree

\* A queued file is not complete, and its entries are owned.
QueuedRight ==
  status = "QUEUED" => ~segmentsDone(done) /\ \A u \in Entries : conn[u] \in Owning

\* The inductive invariant of the sharing of the work, until the file is
\* removed.
Work ==
  status # "REMOVED" =>
    /\ DoneRight /\ ApartRight /\ QueuedRight /\ PhaseRight
    /\ \A u \in Users : AssignedRight(u) /\ StartingRight(u)

\* The whole file consists of whole leaves.
LEMMA WholeAligned == Aligned(Whole)
<1>1. Whole.start = 0 /\ getEnd(Whole) = Size BY WholeIs
<1>2. 0 = 0 * BlockSize BY SegmentAssumption
<1> QED BY <1>1, <1>2 DEF Aligned, At

\* Segments are apart exactly when they have no unit in common.
LEMMA UnitsApart ==
  ASSUME NEW s \in FileSegs, NEW t \in FileSegs
  PROVE  Apart(s, t) <=> UnitsOf(s) \cap UnitsOf(t) = {}
<1>1. /\ s.start \in Int /\ getEnd(s) \in Int /\ s.size \in Int /\ s.size >= 1 /\ s.start < getEnd(s)
      /\ t.start \in Int /\ getEnd(t) \in Int /\ t.size \in Int /\ t.size >= 1 /\ t.start < getEnd(t)
  BY FileSegsAre
<1>2. \A x : x \in UnitsOf(s) <=> x \in Int /\ s.start <= x /\ x < getEnd(s) BY UnitOf
<1>3. \A x : x \in UnitsOf(t) <=> x \in Int /\ t.start <= x /\ x < getEnd(t) BY UnitOf
<1>4. ASSUME Apart(s, t), NEW x \in UnitsOf(s) \cap UnitsOf(t) PROVE FALSE
  BY <1>1, <1>2, <1>3, <1>4 DEF Apart
<1>5. ASSUME ~Apart(s, t) PROVE UnitsOf(s) \cap UnitsOf(t) # {}
  <2>1. getEnd(s) > t.start /\ getEnd(t) > s.start BY <1>1, <1>5 DEF Apart
  <2>2. CASE s.start <= t.start
    <3>1. t.start \in UnitsOf(s) /\ t.start \in UnitsOf(t) BY <1>1, <1>2, <1>3, <2>1, <2>2
    <3> QED BY <3>1
  <2>3. CASE t.start <= s.start
    <3>1. s.start \in UnitsOf(s) /\ s.start \in UnitsOf(t) BY <1>1, <1>2, <1>3, <2>1, <2>3
    <3> QED BY <3>1
  <2> QED BY <1>1, <2>2, <2>3
<1> QED BY <1>4, <1>5

\* What a connection asks for.
LEMMA AskIs ==
  ASSUME TransfersOK, NEW u \in Users
  PROVE  /\ dl[u].seg.size > 0 => dl[u].seg \in FileSegs /\ Ask(u) # {} /\ Ask(u) \subseteq 0..(Size - 1)
         /\ ~(dl[u].seg.size > 0) => Ask(u) = {}
<1>1. /\ dl[u].seg.size > 0 => dl[u].seg \in FileSegs
      /\ dl[u].seg.start \in Int /\ dl[u].seg.size \in Int
      /\ getEnd(dl[u].seg) = dl[u].seg.start + dl[u].seg.size
  BY PositionIs DEF TransfersOK, DownloadIs, getEnd
<1>2. CASE dl[u].seg.size > 0 BY <1>1, <1>2, UnitOf DEF Ask
<1>3. CASE ~(dl[u].seg.size > 0) BY <1>1, <1>3 DEF Ask, UnitsOf
<1> QED BY <1>2, <1>3

\* An entry is one of a source.
LEMMA EntryIsUser ==
  ASSUME TransfersOK
  PROVE  \A v \in Entries : v \in Users
BY EntriesFinite DEF TransfersOK

\* Under the settings that the theorems are about, the segments that are done
\* are apart from what is being downloaded.
LEMMA AskApart ==
  ASSUME Base, ApartRight, NEW u \in Entries, dl[u].seg.size > 0
  PROVE  dl[u].seg \in FileSegs /\ \A t \in done : Apart(dl[u].seg, t)
<1>1. u \in Users /\ TransfersOK /\ done \subseteq FileSegs BY EntryIsUser DEF Base, QueueOK
<1>2. dl[u].seg \in FileSegs BY <1>1, AskIs
<1>3. ASSUME NEW t \in done PROVE Apart(dl[u].seg, t)
  <2>1. UnitsOf(t) \subseteq Units(done) BY UnitsAre
  <2>2. UnitsOf(dl[u].seg) \cap UnitsOf(t) = {} BY <2>1 DEF ApartRight, Ask
  <2>3. t \in FileSegs BY <1>1
  <2> QED BY <1>2, <2>2, <2>3, UnitsApart
<1> QED BY <1>2, <1>3

-----------------------------------------------------------------------------
(* What a step has to keep. *)

\* While the file stays queued, entries are only taken from the list, and what
\* is added to the done segments is what one of them asked for.
LEMMA StaysQueued ==
  ASSUME Base, Work, TransfersOK', status = "QUEUED", status' = "QUEUED",
         \A v \in Entries' : v \in Entries /\ conn'[v] \in Owning,
         \A v \in Users : dl'[v].seg.size > 0 =>
           v \in Entries' /\ dl'[v].seg = dl[v].seg /\ dl'[v].blk = dl[v].blk,
         \A x \in Units(done') : x \in Units(done) \/ \E u \in Entries : u \notin Entries' /\ x \in Ask(u),
         tree => tree',
         \A v \in Users : conn'[v] = "starting" => conn[v] = "starting",
         DoneRight', ~segmentsDone(done'), check'.phase \in {"none", "end"}
  PROVE  Work'
<1>0. /\ DoneRight /\ ApartRight /\ QueuedRight /\ TransfersOK
      /\ \A u \in Users : AssignedRight(u) /\ StartingRight(u)
  BY DEF Work, Base
<1>1. \A v \in Entries' : v \in Users /\ v \in Entries BY <1>0, EntryIsUser
<1>2. ASSUME NEW v \in Users PROVE Ask(v)' \subseteq Ask(v) /\ (Ask(v)' # {} => v \in Entries')
  <2>1. CASE dl'[v].seg.size > 0 BY <2>1 DEF Ask
  <2>2. CASE ~(dl'[v].seg.size > 0)
    <3>1. Ask(v)' = {}
      <4>1. /\ dl'[v].seg.start \in Int /\ dl'[v].seg.size \in Int
            /\ getEnd(dl'[v].seg) = dl'[v].seg.start + dl'[v].seg.size
        BY DEF TransfersOK, Download, getEnd
      <4> QED BY <2>2, <4>1 DEF Ask, UnitsOf
    <3> QED BY <3>1
  <2> QED BY <2>1, <2>2
<1>3. ApartRight'
  <2>1. ASSUME NEW u \in Entries', NEW x \in Ask(u)' \cap Units(done') PROVE FALSE
    <3>1. u \in Entries /\ x \in Ask(u) BY <1>1, <1>2, <2>1
    <3>2. x \notin Units(done) BY <1>0, <3>1 DEF ApartRight
    <3>3. PICK v \in Entries : v \notin Entries' /\ x \in Ask(v) BY <2>1, <3>2
    <3> QED BY <1>0, <2>1, <3>1, <3>3 DEF ApartRight
  <2>2. ASSUME NEW u \in Entries', NEW v \in Entries', u # v, NEW x \in Ask(u)' \cap Ask(v)' PROVE FALSE
    <3>1. u \in Entries /\ x \in Ask(u) /\ v \in Entries /\ x \in Ask(v) BY <1>1, <1>2, <2>2
    <3> QED BY <1>0, <2>2, <3>1 DEF ApartRight
  <2> QED BY <2>1, <2>2 DEF ApartRight
<1>4. ASSUME NEW u \in Users PROVE AssignedRight(u)'
  <2> SUFFICES ASSUME dl'[u].seg.size > 0
               PROVE  /\ u \in Entries' /\ conn'[u] \in Owning /\ Aligned(dl'[u].seg)
                      /\ \/ dl'[u].blk = BlockSize /\ tree'
                         \/ dl'[u].blk = Size /\ dl'[u].seg = Whole
    BY DEF AssignedRight
  <2>1. u \in Entries' /\ dl'[u].seg = dl[u].seg /\ dl'[u].blk = dl[u].blk OBVIOUS
  <2>2. dl[u].seg.size > 0 BY <2>1
  <2>3. AssignedRight(u) BY <1>0
  <2> QED BY <2>1, <2>2, <2>3 DEF AssignedRight
<1>5. ASSUME NEW u \in Users, conn'[u] = "starting" PROVE StartingRight(u)'
  <2>1. /\ conn[u] = "starting" /\ u \notin Entries /\ FreeUnit
        /\ \A v \in Users : conn[v] = "starting" => v = u
    BY <1>0, <1>5 DEF StartingRight
  <2>2. PICK x \in 0..(Size - 1) : x \notin Units(done) /\ \A v \in Entries : x \notin Ask(v)
    BY <2>1 DEF FreeUnit
  <2>3. x \notin Units(done') BY <2>2
  <2>4. \A v \in Entries' : x \notin Ask(v)' BY <1>1, <1>2, <2>2
  <2>5. FreeUnit' BY <2>3, <2>4 DEF FreeUnit
  <2>6. u \notin Entries' /\ \A v \in Users : conn'[v] = "starting" => v = u BY <1>1, <2>1
  <2> QED BY <2>5, <2>6 DEF StartingRight
<1>6. QueuedRight' /\ PhaseRight' BY DEF QueuedRight, PhaseRight
<1>7. \A u \in Users : StartingRight(u)' BY <1>5 DEF StartingRight
<1> QED BY <1>3, <1>4, <1>6, <1>7 DEF Work

\* Nobody is asked for anything any more, or not yet.
LEMMA NobodyAsked ==
  ASSUME TransfersOK',
         \A v \in Users : ~(dl'[v].seg.size > 0) /\ conn'[v] # "starting",
         DoneRight', QueuedRight', PhaseRight'
  PROVE  Work'
<1>1. ASSUME NEW v \in Users PROVE Ask(v)' = {}
  <2>1. ~(dl'[v].seg.size > 0) OBVIOUS
  <2>2. /\ dl'[v].seg.start \in Int /\ dl'[v].seg.size \in Int
        /\ getEnd(dl'[v].seg) = dl'[v].seg.start + dl'[v].seg.size
    BY DEF TransfersOK, Download, getEnd
  <2> QED BY <2>1, <2>2 DEF Ask, UnitsOf
<1>2. \A v \in Entries' : v \in Users
  <2>1. \A i \in DOMAIN downloads' : downloads'[i] \in Users BY DEF TransfersOK
  <2> QED BY <2>1 DEF Entries
<1>3. ApartRight' BY <1>1, <1>2 DEF ApartRight
<1>4. \A u \in Users : AssignedRight(u)' /\ StartingRight(u)'
  BY DEF AssignedRight, StartingRight
<1> QED BY <1>3, <1>4 DEF Work

\* While it stays downloaded, that is so.
LEMMA StaysDownloaded ==
  ASSUME Base, Work, TransfersOK', status = "DOWNLOADED", status' = "DOWNLOADED",
         \A v \in Users : dl'[v].seg.size > 0 => dl[v].seg.size > 0,
         \A v \in Users : conn'[v] = "starting" => conn[v] = "starting",
         DoneRight', PhaseRight'
  PROVE  Work'
<1>1. \A u \in Users : AssignedRight(u) /\ StartingRight(u) BY DEF Work
<1>2. \A u \in Users : ~(dl'[u].seg.size > 0) /\ conn'[u] # "starting"
  BY <1>1 DEF AssignedRight, StartingRight
<1>3. QueuedRight' BY DEF QueuedRight
<1> QED BY <1>2, <1>3, NobodyAsked

-----------------------------------------------------------------------------
(* The step that puts a download back. *)

\* A segment that is apart from the done ones joins them.
LEMMA SegmentJoins ==
  ASSUME QueueOK, DoneRight, NEW sg \in FileSegs, Aligned(sg), \A t \in done : Apart(sg, t),
         addFinishedSegment(sg)
  PROVE  /\ Units(done') = Units(done) \cup UnitsOf(sg)
         /\ \A s \in done' : Aligned(s)
         /\ finished' = getDownloadedSegments(done')
<1>1. done \subseteq FileSegs /\ Separated(done) BY DEF QueueOK
<1>2. done' = Consolidate(done, sg).done /\ finished' = finished + Consolidate(done, sg).bytes
  BY DEF addFinishedSegment
<1>3. Units(done') = Units(done) \cup UnitsOf(sg) /\ Consolidate(done, sg).bytes = sg.size
  BY <1>1, <1>2, ConsolidateAdds
<1>4. getDownloadedSegments(done') = getDownloadedSegments(done) + sg.size
  BY <1>1, <1>2, SumGrows
<1>5. ASSUME NEW s \in done' PROVE Aligned(s)
  <2>1. PICK f \in done \cup {sg}, l \in done \cup {sg} : s.start = f.start /\ getEnd(s) = getEnd(l)
    BY <1>1, <1>2, ConsolidateEnds
  <2>2. Aligned(f) /\ Aligned(l) BY <2>1 DEF DoneRight
  <2> QED BY <2>1, <2>2 DEF Aligned
<1> QED BY <1>2, <1>3, <1>4, <1>5 DEF DoneRight

\* What is kept of an interrupted download are whole blocks of what it asked
\* for, and never all of it.
LEMMA KeptRight ==
  ASSUME Base, Work, status # "REMOVED", NEW u \in Users, conn[u] = "putting",
         dl[u].result # "finished", dl[u].type = "FILE", Kept(dl[u]) > 0
  PROVE  LET sg == Segment(dl[u].seg.start, Kept(dl[u])) IN
         /\ status = "QUEUED" /\ u \in Entries /\ tree
         /\ sg \in FileSegs /\ Aligned(sg) /\ UnitsOf(sg) \subseteq Ask(u) /\ UnitsOf(sg) # Ask(u)
         /\ \A t \in done : Apart(sg, t)
<1>0. BlockSize \in Nat /\ BlockSize > 0 /\ Size \in Nat /\ Size > 0 BY SegmentAssumption
<1>a. /\ TransfersOK /\ AssignedRight(u) /\ ApartRight BY DEF Base, Work
<1>1. PICK a \in Int, n \in Int, k \in Int, p \in Nat :
        /\ a = dl[u].seg.start /\ n = dl[u].seg.size /\ k = Kept(dl[u]) /\ p = dl[u].pos
        /\ a >= 0 /\ a + n <= Size /\ k <= p /\ k >= 1
        /\ dl[u].seg \in FileSegs /\ dl[u].seg = Segment(a, n) /\ Segment(a, k) \in FileSegs
  <2>1. /\ dl[u].seg \in FileSegs /\ Kept(dl[u]) \in Int /\ Kept(dl[u]) <= dl[u].pos
        /\ Segment(dl[u].seg.start, Kept(dl[u])) \in FileSegs
    BY <1>a, KeptIs
  <2>2. dl[u].pos \in Nat BY <1>a DEF TransfersOK, Download
  <2>3. PICK a \in Int, n \in Int : /\ a = dl[u].seg.start /\ n = dl[u].seg.size /\ a >= 0 /\ a + n <= Size
                                    /\ dl[u].seg = Segment(a, n)
    BY <2>1, FileSegsAre
  <2> QED BY <2>1, <2>2, <2>3
<1>b. a \in Int /\ k \in Int /\ n \in Int OBVIOUS
<1>2. p < n
  <2>1. DownloadIs(conn[u], dl[u]) BY <1>a DEF TransfersOK
  <2> QED BY <1>1, <2>1 DEF DownloadIs
<1>3. /\ status = "QUEUED" /\ u \in Entries /\ Aligned(dl[u].seg)
      /\ (dl[u].blk = BlockSize /\ tree) \/ (dl[u].blk = Size /\ dl[u].seg = Whole)
  BY <1>1, <1>2, <1>a DEF AssignedRight
<1>4. ~(dl[u].blk = Size /\ dl[u].seg = Whole)
  <2> SUFFICES ASSUME dl[u].blk = Size, dl[u].seg = Whole PROVE FALSE OBVIOUS
  <2>1. k = roundDown(p, Size) BY <1>1 DEF Kept
  <2>2. PICK j \in Nat : k = j * Size BY <1>0, <2>1, RoundsDown
  <2>3. n = Size BY <1>1, WholeIs
  <2>4. j # 0 BY <1>0, <1>1, <2>2
  <2>5. j * Size >= Size
    <3>1. j >= 1 BY <2>4
    <3>2. 1 * Size <= j * Size BY <1>0, <3>1, Multiples
    <3> QED BY <1>0, <3>2
  <2> QED BY <1>0, <1>1, <1>2, <2>2, <2>3, <2>5
<1>5. dl[u].blk = BlockSize /\ tree BY <1>3, <1>4
<1>6. Aligned(Segment(a, k))
  <2>1. PICK j \in Nat : k = j * BlockSize
    <3>1. k = roundDown(p, BlockSize) BY <1>1, <1>5 DEF Kept
    <3> QED BY <1>0, <3>1, RoundsDown
  <2>2. a # Size BY <1>0, <1>1, <1>2
  <2>3. PICK m \in Nat : a = m * BlockSize BY <1>1, <1>3, <2>2 DEF Aligned, At
  <2>4. a + k = (m + j) * BlockSize /\ m + j \in Nat BY <1>0, <2>1, <2>3
  <2>5. Segment(a, k).start = a /\ getEnd(Segment(a, k)) = a + k BY <1>b, SegmentIs
  <2> QED BY <2>3, <2>4, <2>5 DEF Aligned, At
<1>7. /\ \A x : x \in UnitsOf(Segment(a, k)) <=> x \in Int /\ a <= x /\ x < a + k
      /\ \A x : x \in Ask(u) <=> x \in Int /\ a <= x /\ x < a + n
  <2>1. Segment(a, k).start = a /\ getEnd(Segment(a, k)) = a + k BY <1>b, SegmentIs
  <2>2. Segment(a, n).start = a /\ getEnd(Segment(a, n)) = a + n BY <1>b, SegmentIs
  <2> QED BY <1>1, <2>1, <2>2, UnitOf DEF Ask
<1>8. UnitsOf(Segment(a, k)) \subseteq Ask(u) /\ UnitsOf(Segment(a, k)) # Ask(u)
  <2>1. a + k \in Ask(u) /\ a + k \notin UnitsOf(Segment(a, k)) BY <1>1, <1>2, <1>7
  <2> QED BY <1>1, <1>2, <1>7, <2>1
<1>9. ASSUME NEW t \in done PROVE Apart(Segment(a, k), t)
  <2>1. n > 0 BY <1>1, <1>2
  <2>2. dl[u].seg.size > 0 BY <1>1, <2>1
  <2>3. Apart(dl[u].seg, t) BY <1>3, <1>a, <2>2, AskApart
  <2>4. t \in FileSegs BY DEF Base, QueueOK
  <2>5. UnitsOf(dl[u].seg) \cap UnitsOf(t) = {} BY <1>1, <2>3, <2>4, UnitsApart
  <2>6. UnitsOf(Segment(a, k)) \cap UnitsOf(t) = {} BY <1>8, <2>5 DEF Ask
  <2> QED BY <1>1, <2>4, <2>6, UnitsApart
<1> QED BY <1>1, <1>3, <1>5, <1>6, <1>8, <1>9

\* A download that comes back leaves the list.
LEMMA BackLeaves ==
  ASSUME TransfersOK, NEW u \in Users, onDownloadFailed(u) \/ onTreeDownloadCompleted(u)
  PROVE  /\ conn[u] = "putting" /\ status' = status /\ check' = check /\ (tree' = tree \/ tree')
         /\ dl'[u] = NoDownload /\ \A v \in Users : v # u => Same(dl'[v], dl[v])
         /\ conn'[u] # "starting" /\ \A v \in Users : v # u => conn'[v] = conn[v]
         /\ \A v : v \in Entries' <=> v \in Entries /\ v # u
         /\ \/ done' = done /\ finished' = finished
            \/ /\ dl[u].type = "FILE" /\ dl[u].result # "finished" /\ Kept(dl[u]) > 0 /\ tree' = tree
               /\ addFinishedSegment(Segment(dl[u].seg.start, Kept(dl[u])))
<1>1. /\ conn[u] = "putting" /\ status' = status /\ check' = check /\ (tree' = tree \/ tree')
      /\ downloads' = Without(downloads, {u})
      /\ \E c \in {"idle", "silent"} : conn' = [conn EXCEPT ![u] = c]
  BY DEF onDownloadFailed, onTreeDownloadCompleted, After, queue
<1>2. dl'[u] = NoDownload /\ \A v \in Users : v # u => Same(dl'[v], dl[v])
  <2>1. CASE onTreeDownloadCompleted(u)
    BY <2>1 DEF onTreeDownloadCompleted, TransfersOK, Same
  <2>2. CASE onDownloadFailed(u)
    <3>1. dl' = [v \in Users |-> IF v = u THEN NoDownload
                                 ELSE [dl[v] EXCEPT !.live = @ /\ ~DeletesTemp(u)]]
      BY <2>2 DEF onDownloadFailed
    <3>2. ASSUME NEW v \in Users, v # u PROVE Same(dl'[v], dl[v])
      <4>1. dl'[v] = [dl[v] EXCEPT !.live = @ /\ ~DeletesTemp(u)] BY <3>1, <3>2
      <4>2. dl[v] \in Download BY DEF TransfersOK
      <4> QED BY <4>1, <4>2 DEF Download, Same
    <3> QED BY <3>1, <3>2
  <2> QED BY <2>1, <2>2
<1>3. conn'[u] # "starting" /\ \A v \in Users : v # u => conn'[v] = conn[v]
  BY <1>1 DEF TransfersOK
<1>4. \A v : v \in Entries' <=> v \in Entries /\ v # u
  <2>1. downloads \in Seq(Users) BY DEF TransfersOK
  <2> QED BY <1>1, <2>1, WithoutEntries DEF Entries
<1>5. \/ done' = done /\ finished' = finished
      \/ /\ dl[u].type = "FILE" /\ dl[u].result # "finished" /\ Kept(dl[u]) > 0 /\ tree' = tree
         /\ addFinishedSegment(Segment(dl[u].seg.start, Kept(dl[u])))
  BY DEF onDownloadFailed, onTreeDownloadCompleted, queue
<1> QED BY <1>1, <1>2, <1>3, <1>4, <1>5

\* A download that comes back, with nothing or with the beginning of what it
\* asked for.
LEMMA BackWork ==
  ASSUME Base, Work, TransfersOK', status # "REMOVED", NEW u \in Users,
         onDownloadFailed(u) \/ onTreeDownloadCompleted(u)
  PROVE  Work'
<1>0. /\ QueueOK /\ TransfersOK /\ DoneRight /\ ApartRight /\ QueuedRight /\ PhaseRight
      /\ \A v \in Users : AssignedRight(v) /\ StartingRight(v)
      /\ status \in {"QUEUED", "DOWNLOADED"}
  BY DEF Base, Work, QueueOK
<1>1. conn[u] = "putting" /\ status' = status /\ check' = check /\ (tree' = tree \/ tree')
  BY <1>0, BackLeaves
<1>2. dl'[u] = NoDownload /\ \A v \in Users : v # u => Same(dl'[v], dl[v]) BY <1>0, BackLeaves
<1>3. \A v \in Users : v # u => conn'[v] = conn[v] BY <1>0, BackLeaves
<1>4. conn'[u] # "starting" BY <1>0, BackLeaves
<1>5. \A v : v \in Entries' <=> v \in Entries /\ v # u BY <1>0, BackLeaves
<1>6. \A v \in Users : dl'[v].seg.size > 0 =>
        v # u /\ dl'[v].seg = dl[v].seg /\ dl'[v].blk = dl[v].blk /\ v \in Entries /\ v \in Entries'
  <2>1. ~(dl'[u].seg.size > 0) BY <1>2, NoDownloadIs
  <2>2. ASSUME NEW v \in Users, v # u, dl'[v].seg.size > 0
        PROVE  dl'[v].seg = dl[v].seg /\ dl'[v].blk = dl[v].blk /\ v \in Entries
    BY <1>0, <1>2, <2>2 DEF Same, AssignedRight
  <2> QED BY <1>5, <2>1, <2>2
<1>7. CASE done' = done /\ finished' = finished
  <2>1. DoneRight' BY <1>0, <1>1, <1>7 DEF DoneRight
  <2>2. CASE status = "QUEUED"
    <3>1. \A v \in Entries' : v \in Entries /\ conn'[v] \in Owning
      <4>1. \A v \in Entries : v \in Users /\ conn[v] \in Owning
        BY <1>0, <2>2, EntryIsUser DEF QueuedRight
      <4> QED BY <1>3, <1>5, <4>1
    <3>2. ~segmentsDone(done') /\ check'.phase \in {"none", "end"}
      BY <1>0, <1>1, <1>7, <2>2 DEF QueuedRight, PhaseRight
    <3> QED BY <1>1, <1>3, <1>4, <1>6, <1>7, <2>1, <2>2, <3>1, <3>2, StaysQueued
  <2>3. CASE status = "DOWNLOADED"
    <3>1. PhaseRight'
      <4>1. Entries = {} => Entries' = {} BY <1>5
      <4> QED BY <1>0, <1>1, <1>7, <4>1 DEF PhaseRight
    <3>2. \A v \in Users : dl'[v].seg.size > 0 => dl[v].seg.size > 0 BY <1>6
    <3> QED BY <1>1, <1>3, <1>4, <2>1, <2>3, <3>1, <3>2, StaysDownloaded
  <2> QED BY <1>0, <2>2, <2>3
<1>8. CASE /\ dl[u].type = "FILE" /\ dl[u].result # "finished" /\ Kept(dl[u]) > 0 /\ tree' = tree
           /\ addFinishedSegment(Segment(dl[u].seg.start, Kept(dl[u])))
  <2> DEFINE sg == Segment(dl[u].seg.start, Kept(dl[u]))
  <2>1. /\ status = "QUEUED" /\ u \in Entries /\ tree
        /\ sg \in FileSegs /\ Aligned(sg) /\ UnitsOf(sg) \subseteq Ask(u) /\ UnitsOf(sg) # Ask(u)
        /\ \A t \in done : Apart(sg, t)
    BY <1>1, <1>8, KeptRight
  <2>2. addFinishedSegment(sg) BY <1>8
  <2> HIDE DEF sg
  <2>3. /\ Units(done') = Units(done) \cup UnitsOf(sg)
        /\ \A s \in done' : Aligned(s)
        /\ finished' = getDownloadedSegments(done')
    BY <1>0, <2>1, <2>2, SegmentJoins
  <2>4. DoneRight' BY <1>8, <2>1, <2>3 DEF DoneRight
  <2>5. \A v \in Entries' : v \in Entries /\ conn'[v] \in Owning
    <3>1. \A v \in Entries : v \in Users /\ conn[v] \in Owning
      BY <1>0, <2>1, EntryIsUser DEF QueuedRight
    <3> QED BY <1>3, <1>5, <3>1
  <2>6. ~segmentsDone(done')
    <3>1. PICK x \in Ask(u) : x \notin UnitsOf(sg) BY <2>1
    <3>2. x \notin Units(done) BY <1>0, <2>1 DEF ApartRight
    <3>3. x \in 0..(Size - 1) BY <1>0, AskIs
    <3>4. segmentsDone(done') => Units(done') = 0..(Size - 1)
      BY WholeIs DEF segmentsDone, Whole
    <3> QED BY <2>3, <3>1, <3>2, <3>3, <3>4
  <2>7. \A x \in Units(done') : x \in Units(done) \/ \E v \in Entries : v \notin Entries' /\ x \in Ask(v)
    BY <1>5, <2>1, <2>3
  <2>8. check'.phase \in {"none", "end"} BY <1>0, <1>1, <2>1 DEF PhaseRight
  <2> QED BY <1>1, <1>3, <1>4, <1>6, <2>1, <2>4, <2>5, <2>6, <2>7, <2>8, StaysQueued
<1>9. \/ done' = done /\ finished' = finished
      \/ /\ dl[u].type = "FILE" /\ dl[u].result # "finished" /\ Kept(dl[u]) > 0 /\ tree' = tree
         /\ addFinishedSegment(Segment(dl[u].seg.start, Kept(dl[u])))
  BY <1>0, BackLeaves
<1> QED BY <1>7, <1>8, <1>9

\* A download that ended brings all that it asked for.
LEMMA CompletedRight ==
  ASSUME Base, Work, QueueOK', status # "REMOVED", NEW u \in Users, onFileDownloadCompleted(u)
  PROVE  /\ status = "QUEUED" /\ u \in Entries /\ dl[u].seg.size > 0
         /\ Units(done') = Units(done) \cup Ask(u)
         /\ DoneRight'
         /\ status' = IF segmentsDone(done') THEN "DOWNLOADED" ELSE "QUEUED"
<1>0. /\ QueueOK /\ TransfersOK /\ DoneRight /\ ApartRight /\ QueuedRight /\ AssignedRight(u)
  BY DEF Base, Work
<1>1. /\ conn[u] = "putting" /\ dl[u].result = "finished" /\ dl[u].type = "FILE"
      /\ addFinishedSegment(dl[u].seg) /\ tree' = tree
      /\ status' = IF segmentsDone(Consolidate(done, dl[u].seg).done) /\ status = "QUEUED"
                   THEN "DOWNLOADED" ELSE status
  BY DEF onFileDownloadCompleted
<1>2. dl[u].seg.size > 0
  <2>1. DownloadIs(conn[u], dl[u]) BY <1>0 DEF TransfersOK
  <2> QED BY <1>1, <2>1 DEF DownloadIs
<1>3. /\ status = "QUEUED" /\ u \in Entries /\ Aligned(dl[u].seg)
      /\ tree \/ dl[u].seg = Whole
  BY <1>0, <1>2 DEF AssignedRight
<1>4. dl[u].seg \in FileSegs /\ \A t \in done : Apart(dl[u].seg, t)
  BY <1>0, <1>2, <1>3, AskApart
<1>5. /\ Units(done') = Units(done) \cup Ask(u)
      /\ \A s \in done' : Aligned(s)
      /\ finished' = getDownloadedSegments(done')
  BY <1>0, <1>1, <1>3, <1>4, SegmentJoins DEF Ask
<1>6. ~tree' => done' = {Whole}
  <2> SUFFICES ASSUME ~tree PROVE done' = {Whole} BY <1>1
  <2>1. Ask(u) = 0..(Size - 1) BY <1>3, WholeIs DEF Ask
  <2>2. done' \subseteq FileSegs /\ Separated(done') BY DEF QueueOK
  <2>3. Units(done') \subseteq 0..(Size - 1) BY <2>2, UnitsFinite
  <2>4. Units(done') = 0..(Size - 1) BY <1>5, <2>1, <2>3
  <2> QED BY <2>2, <2>4, WholeIsAll DEF segmentsDone, Whole
<1>7. DoneRight' BY <1>5, <1>6 DEF DoneRight
<1>8. done' = Consolidate(done, dl[u].seg).done BY <1>1 DEF addFinishedSegment
<1>9. status' = IF segmentsDone(done') THEN "DOWNLOADED" ELSE "QUEUED" BY <1>1, <1>3, <1>8
<1> QED BY <1>2, <1>3, <1>5, <1>7, <1>9

\* A download that ended keeps the work right.
LEMMA CompletedWork ==
  ASSUME Base, Work, QueueOK', TransfersOK', status # "REMOVED", NEW u \in Users,
         onFileDownloadCompleted(u)
  PROVE  Work'
<1>0. /\ QueueOK /\ TransfersOK /\ DoneRight /\ ApartRight /\ QueuedRight /\ PhaseRight
      /\ \A v \in Users : AssignedRight(v) /\ StartingRight(v)
  BY DEF Base, Work
<1>1. /\ status = "QUEUED" /\ u \in Entries /\ dl[u].seg.size > 0
      /\ Units(done') = Units(done) \cup Ask(u)
      /\ DoneRight'
      /\ status' = IF segmentsDone(done') THEN "DOWNLOADED" ELSE "QUEUED"
  BY CompletedRight
<1>2. /\ dl'[u] = NoDownload /\ conn'[u] = "idle" /\ check' = check /\ tree' = tree
      /\ \A v \in Users : v # u => dl'[v] = dl[v] /\ conn'[v] = conn[v]
  BY <1>0 DEF onFileDownloadCompleted, TransfersOK
<1>3. ~(dl'[u].seg.size > 0) BY <1>2, NoDownloadIs
<1>4. CASE segmentsDone(done')
  <2>1. status' = "DOWNLOADED" BY <1>1, <1>4
  <2>2. Units(done') = 0..(Size - 1) BY <1>4, WholeIs DEF segmentsDone, Whole
  <2>3. ASSUME NEW v \in Users, dl'[v].seg.size > 0 PROVE FALSE
    <3>1. v # u /\ dl[v].seg.size > 0 BY <1>2, <1>3, <2>3
    <3>2. v \in Entries BY <1>0, <3>1 DEF AssignedRight
    <3>3. PICK x \in Ask(v) : x \in 0..(Size - 1) BY <1>0, <3>1, AskIs
    <3>4. x \in Units(done) \/ x \in Ask(u) BY <1>1, <2>2, <3>3
    <3> QED BY <1>0, <1>1, <3>1, <3>2, <3>3, <3>4 DEF ApartRight
  <2>4. ASSUME NEW v \in Users, conn'[v] = "starting" PROVE FALSE
    <3>1. conn[v] = "starting" BY <1>2, <2>4
    <3>2. PICK x \in 0..(Size - 1) : x \notin Units(done) /\ \A w \in Entries : x \notin Ask(w)
      BY <1>0, <3>1 DEF StartingRight, FreeUnit
    <3> QED BY <1>1, <2>2, <3>2
  <2>5. QueuedRight' /\ PhaseRight' BY <1>0, <1>1, <1>2, <2>1 DEF QueuedRight, PhaseRight
  <2> QED BY <1>1, <2>3, <2>4, <2>5, NobodyAsked
<1>5. CASE ~segmentsDone(done')
  <2>1. status' = "QUEUED" BY <1>1, <1>5
  <2>2. downloads' = Without(downloads, {u})
    <3>1. done' = Consolidate(done, dl[u].seg).done
      BY DEF onFileDownloadCompleted, addFinishedSegment
    <3> QED BY <1>5, <3>1 DEF onFileDownloadCompleted, Released
  <2>3. \A v : v \in Entries' <=> v \in Entries /\ v # u
    <3>1. downloads \in Seq(Users) BY <1>0 DEF TransfersOK
    <3> QED BY <2>2, <3>1, WithoutEntries DEF Entries
  <2>4. \A v \in Entries' : v \in Entries /\ conn'[v] \in Owning
    <3>1. \A v \in Entries : v \in Users /\ conn[v] \in Owning
      BY <1>0, <1>1, EntryIsUser DEF QueuedRight
    <3> QED BY <1>2, <2>3, <3>1
  <2>5. \A v \in Users : dl'[v].seg.size > 0 =>
          v \in Entries' /\ dl'[v].seg = dl[v].seg /\ dl'[v].blk = dl[v].blk
    <3>1. ASSUME NEW v \in Users, dl'[v].seg.size > 0 PROVE v # u /\ dl'[v] = dl[v] /\ v \in Entries
      BY <1>0, <1>2, <1>3, <3>1 DEF AssignedRight
    <3> QED BY <2>3, <3>1
  <2>6. \A x \in Units(done') : x \in Units(done) \/ \E v \in Entries : v \notin Entries' /\ x \in Ask(v)
    BY <1>1, <2>3
  <2>7. check'.phase \in {"none", "end"} BY <1>0, <1>1, <1>2 DEF PhaseRight
  <2> QED BY <1>1, <1>2, <1>5, <2>1, <2>4, <2>5, <2>6, <2>7, StaysQueued
<1> QED BY <1>4, <1>5

-----------------------------------------------------------------------------
(* Steps that ask for nothing and bring nothing. *)

\* Nothing is asked for or given up, and nothing is brought.
Unasked ==
  /\ done' = done /\ finished' = finished /\ status' = status /\ tree' = tree
  /\ downloads' = downloads
  /\ \A v \in Users : \/ dl'[v].seg = dl[v].seg /\ dl'[v].blk = dl[v].blk
                      \/ status # "QUEUED" /\ ~(dl'[v].seg.size > 0)

\* Such a step keeps the work right.
LEMMA Quiet ==
  ASSUME Base, Work, TransfersOK', status # "REMOVED", Unasked,
         \A v \in Users : conn'[v] = "starting" => conn[v] = "starting",
         status = "QUEUED" => \A v \in Users : conn[v] \in Owning => conn'[v] \in Owning,
         PhaseRight'
  PROVE  Work'
<1>0. /\ TransfersOK /\ DoneRight /\ QueuedRight
      /\ \A v \in Users : AssignedRight(v) /\ StartingRight(v)
      /\ status \in {"QUEUED", "DOWNLOADED"}
  BY DEF Base, Work, QueueOK
<1>1. DoneRight' BY <1>0 DEF DoneRight, Unasked
<1>2. Entries' = Entries BY DEF Entries, Unasked
<1>3. CASE status = "QUEUED"
  <2>1. \A v \in Entries' : v \in Entries /\ conn'[v] \in Owning
    <3>1. \A v \in Entries : v \in Users /\ conn[v] \in Owning
      BY <1>0, <1>3, EntryIsUser DEF QueuedRight
    <3> QED BY <1>2, <1>3, <3>1
  <2>2. ASSUME NEW v \in Users, dl'[v].seg.size > 0
        PROVE  v \in Entries' /\ dl'[v].seg = dl[v].seg /\ dl'[v].blk = dl[v].blk
    <3>1. dl'[v].seg = dl[v].seg /\ dl'[v].blk = dl[v].blk BY <1>3, <2>2 DEF Unasked
    <3>2. AssignedRight(v) BY <1>0
    <3> QED BY <1>2, <2>2, <3>1, <3>2 DEF AssignedRight
  <2>3. ~segmentsDone(done') /\ status' = "QUEUED" /\ (tree => tree')
    BY <1>0, <1>3 DEF QueuedRight, Unasked
  <2>4. check'.phase \in {"none", "end"} BY <1>3, <2>3 DEF PhaseRight
  <2>5. \A x \in Units(done') : x \in Units(done) BY DEF Unasked
  <2> QED BY <1>1, <1>3, <2>1, <2>2, <2>3, <2>4, <2>5, StaysQueued
<1>4. CASE status = "DOWNLOADED"
  <2>1. status' = "DOWNLOADED" /\ \A v \in Users : dl'[v].seg.size > 0 => dl[v].seg.size > 0
    <3>1. status' = "DOWNLOADED" BY <1>4 DEF Unasked
    <3>2. ASSUME NEW v \in Users, dl'[v].seg.size > 0 PROVE dl[v].seg.size > 0
      <4>1. dl'[v].seg = dl[v].seg BY <3>2 DEF Unasked
      <4> QED BY <3>2, <4>1
    <3> QED BY <3>1, <3>2
  <2> QED BY <1>1, <1>4, <2>1, StaysDownloaded
<1> QED BY <1>0, <1>3, <1>4

\* The check is not touched.
LEMMA PhaseStays ==
  ASSUME PhaseRight, Unasked, check' = check
  PROVE  PhaseRight'
<1>1. Entries' = Entries BY DEF Entries, Unasked
<1> QED BY <1>1 DEF PhaseRight, Unasked

\* The end of a transfer brings nothing before it is put back.
LEMMA ReturnUnasked ==
  ASSUME Base, NEW u \in Users, NEW d, NEW result, d \in Download,
         d.seg = dl[u].seg, d.blk = dl[u].blk, Return(u, d, result),
         done' = done, finished' = finished, status' = status, tree' = tree,
         downloads' = downloads
  PROVE  /\ Unasked
         /\ \A v \in Users : conn'[v] = "starting" => conn[v] = "starting"
         /\ status = "QUEUED" => \A v \in Users : conn[v] \in Owning => conn'[v] \in Owning
<1>0. TransfersOK /\ dl \in [Users -> Download] /\ conn \in [Users -> Conns] BY DEF Base, TransfersOK
<1>1. CASE status = "QUEUED"
  <2>1. /\ conn' = [conn EXCEPT ![u] = "putting"]
        /\ dl' = [dl EXCEPT ![u] = [d EXCEPT !.result = result]]
    BY <1>1 DEF Return
  <2>2. [d EXCEPT !.result = result].seg = d.seg /\ [d EXCEPT !.result = result].blk = d.blk
    BY DEF Download
  <2>3. \A v \in Users : dl'[v].seg = dl[v].seg /\ dl'[v].blk = dl[v].blk BY <1>0, <2>1, <2>2
  <2>4. \A v \in Users : conn'[v] = conn[v] \/ conn'[v] = "putting" BY <1>0, <2>1
  <2> QED BY <2>3, <2>4 DEF Unasked, Owning
<1>2. CASE status # "QUEUED"
  <2>1. /\ conn' = [conn EXCEPT ![u] = After(result)] /\ dl' = [dl EXCEPT ![u] = NoDownload]
    BY <1>2 DEF Return
  <2>2. \A v \in Users : dl'[v] = dl[v] \/ ~(dl'[v].seg.size > 0) BY <1>0, <2>1, NoDownloadIs
  <2>3. After(result) # "starting" BY DEF After
  <2>4. \A v \in Users : conn'[v] = conn[v] \/ conn'[v] # "starting" BY <1>0, <2>1, <2>3
  <2>5. Unasked BY <1>2, <2>2 DEF Unasked
  <2> QED BY <1>2, <2>4, <2>5
<1> QED BY <1>1, <1>2

\* Neither does the transfer.
LEMMA TransferUnasked ==
  ASSUME Base, NEW u \in Users,
         \/ SND(u) \/ FileNotAvailable(u) \/ Data(u) \/ TreeData(u) \/ Failed(u) \/ FailedIdle(u)
         \/ Requesting(u) \/ NoNeededPart(u)
  PROVE  /\ Unasked /\ check' = check
         /\ \A v \in Users : conn'[v] = "starting" => conn[v] = "starting"
         /\ status = "QUEUED" => \A v \in Users : conn[v] \in Owning => conn'[v] \in Owning
<1>0. /\ TransfersOK /\ conn \in [Users -> Conns] /\ dl \in [Users -> Download] /\ dl[u] \in Download
  BY DEF Base, TransfersOK
<1> DEFINE Goal == /\ Unasked /\ check' = check
                   /\ \A v \in Users : conn'[v] = "starting" => conn[v] = "starting"
                   /\ status = "QUEUED" => \A v \in Users : conn[v] \in Owning => conn'[v] \in Owning
<1> SUFFICES Goal OBVIOUS
<1>1. /\ done' = done /\ finished' = finished /\ status' = status /\ tree' = tree
      /\ downloads' = downloads /\ check' = check
  BY DEF SND, FileNotAvailable, Data, TreeData, Failed, FailedIdle, Requesting, NoNeededPart, queue
<1>2. ASSUME NEW d, d \in Download, d.seg = dl[u].seg, d.blk = dl[u].blk, NEW result, Return(u, d, result)
      PROVE  Goal
  BY <1>1, <1>2, ReturnUnasked
<1>3. ASSUME dl' = dl, NEW c, conn' = [conn EXCEPT ![u] = c], c # "starting",
             conn[u] \in Owning => c \in Owning
      PROVE  Goal
  <2>1. \A v \in Users : conn'[v] = conn[v] \/ (v = u /\ conn'[v] = c) BY <1>0, <1>3
  <2> QED BY <1>1, <1>3, <2>1 DEF Unasked
<1>4. /\ [dl[u] EXCEPT !.over = FALSE] \in Download
      /\ [dl[u] EXCEPT !.over = FALSE].seg = dl[u].seg /\ [dl[u] EXCEPT !.over = FALSE].blk = dl[u].blk
  BY <1>0 DEF Download
<1>5. CASE SND(u)
  <2>1. \/ conn' = [conn EXCEPT ![u] = "RUNNING"] /\ (dl' = dl \/ open(u))
        \/ Return(u, [dl[u] EXCEPT !.over = FALSE], "failed")
    BY <1>5 DEF SND
  <2>2. CASE conn' = [conn EXCEPT ![u] = "RUNNING"] /\ dl' = dl BY <1>3, <2>2 DEF Owning
  <2>3. CASE conn' = [conn EXCEPT ![u] = "RUNNING"] /\ open(u)
    <3>1. PICK l \in BOOLEAN : dl' = [dl EXCEPT ![u] = [@ EXCEPT !.over = FALSE, !.open = TRUE, !.live = l]]
      BY <2>3 DEF open
    <3>2. \A v \in Users : dl'[v].seg = dl[v].seg /\ dl'[v].blk = dl[v].blk BY <1>0, <3>1 DEF Download
    <3>3. \A v \in Users : conn'[v] = conn[v] \/ conn'[v] = "RUNNING" BY <1>0, <2>3
    <3> QED BY <1>1, <3>2, <3>3 DEF Unasked, Owning
  <2> HIDE DEF Goal
  <2> QED BY <1>2, <1>4, <2>1, <2>2, <2>3
<1>6. CASE FileNotAvailable(u)
  <2>1. Return(u, dl[u], "unavailable") BY <1>6 DEF FileNotAvailable
  <2> HIDE DEF Goal
  <2> QED BY <1>0, <1>2, <2>1
<1>7. CASE Data(u)
  <2> DEFINE received == [dl[u] EXCEPT !.pos = @ + 1]
  <2>1. \/ Return(u, dl[u], "failed") \/ Return(u, received, "finished")
        \/ dl' = [dl EXCEPT ![u] = received] /\ conn' = conn
    BY <1>7 DEF Data
  <2>2. received \in Download /\ received.seg = dl[u].seg /\ received.blk = dl[u].blk
    <3>1. PICK p \in Nat : p = dl[u].pos BY <1>0 DEF Download
    <3>2. received = [dl[u] EXCEPT !.pos = p + 1] BY <3>1
    <3>3. p + 1 \in Nat BY <3>1
    <3> HIDE DEF received
    <3> QED BY <1>0, <3>1, <3>2, <3>3 DEF Download
  <2> HIDE DEF received
  <2>3. CASE dl' = [dl EXCEPT ![u] = received] /\ conn' = conn
    <3>1. \A v \in Users : dl'[v].seg = dl[v].seg /\ dl'[v].blk = dl[v].blk BY <1>0, <2>2, <2>3
    <3> QED BY <1>1, <2>3, <3>1 DEF Unasked
  <2> HIDE DEF Goal
  <2> QED BY <1>0, <1>2, <2>1, <2>2, <2>3
<1>8. CASE TreeData(u)
  <2>1. Return(u, dl[u], "failed") \/ Return(u, dl[u], "finished") BY <1>8 DEF TreeData
  <2> HIDE DEF Goal
  <2> QED BY <1>0, <1>2, <2>1
<1>9. CASE Failed(u)
  <2>1. Return(u, dl[u], "failed") BY <1>9 DEF Failed
  <2> HIDE DEF Goal
  <2> QED BY <1>0, <1>2, <2>1
<1>10. CASE FailedIdle(u)
  <2>1. conn' = [conn EXCEPT ![u] = "idle"] /\ dl' = dl /\ conn[u] \notin Owning
    BY <1>10 DEF FailedIdle, Owning
  <2> HIDE DEF Goal
  <2> QED BY <1>3, <2>1
<1>11. CASE Requesting(u)
  <2>1. conn' = [conn EXCEPT ![u] = "SND"] /\ dl' = dl /\ "SND" \in Owning
    BY <1>11 DEF Requesting, Owning
  <2> HIDE DEF Goal
  <2> QED BY <1>3, <2>1
<1>12. CASE NoNeededPart(u)
  <2>1. conn' = [conn EXCEPT ![u] = "idle"] /\ dl' = dl /\ conn[u] \notin Owning
    BY <1>12 DEF NoNeededPart, Owning
  <2> HIDE DEF Goal
  <2> QED BY <1>3, <2>1
<1> QED BY <1>5, <1>6, <1>7, <1>8, <1>9, <1>10, <1>11, <1>12

\* Other threads, as far as they do not touch the done segments.
LEMMA OtherUnasked ==
  ASSUME Base,
         \/ \E u \in Users : removeFileSource(u)
         \/ \E u \in Users, info \in PartsInfos : addPartialSource(u, info)
         \/ setBundlePriority \/ DeleteTemp
         \/ \E what \in {"bundle", "file"} : Resume(what)
         \/ \E b \in Damaged : Damage(b)
         \/ recheckFiles \/ RecheckValidate \/ RecheckRead \/ RecheckEnd
         \/ UNCHANGED vars
  PROVE  Unasked /\ conn' = conn
<1>1. CASE transfers' = transfers /\ done' = done /\ finished' = finished /\ status' = status /\ tree' = tree
  BY <1>1 DEF transfers, Unasked
<1>2. CASE \/ \E u \in Users : removeFileSource(u)
           \/ setBundlePriority \/ recheckFiles
  BY <1>2 DEF removeFileSource, setBundlePriority, recheckFiles, queue, Unasked
<1>3. CASE \E u \in Users, info \in PartsInfos : addPartialSource(u, info)
  BY <1>1, <1>3 DEF addPartialSource
<1>4. CASE DeleteTemp
  <2>1. /\ dl' = [u \in Users |-> [dl[u] EXCEPT !.live = FALSE]] /\ conn' = conn
        /\ queue' = queue /\ tree' = tree /\ downloads' = downloads
    BY <1>4 DEF DeleteTemp
  <2>2. \A v \in Users : dl[v] \in Download BY DEF Base, TransfersOK
  <2>3. \A v \in Users : dl'[v].seg = dl[v].seg /\ dl'[v].blk = dl[v].blk BY <2>1, <2>2 DEF Download
  <2> QED BY <2>1, <2>3 DEF Unasked, queue
<1>5. CASE \E what \in {"bundle", "file"} : Resume(what) BY <1>1, <1>5 DEF Resume
<1>6. CASE \E b \in Damaged : Damage(b) BY <1>1, <1>6 DEF Damage, queue
<1>7. CASE RecheckValidate \/ RecheckRead \/ RecheckEnd
  BY <1>1, <1>7 DEF RecheckValidate, RecheckRead, RecheckEnd, queue
<1>8. CASE UNCHANGED vars BY <1>1, <1>8 DEF vars, queue
<1> QED BY <1>2, <1>3, <1>4, <1>5, <1>6, <1>7, <1>8

\* Other threads, as far as they do not touch the done segments, keep the
\* work right.
LEMMA OtherWork ==
  ASSUME ~RecheckUnfinished, Base, Work, TransfersOK', status # "REMOVED",
         \/ \E u \in Users : removeFileSource(u)
         \/ \E u \in Users, info \in PartsInfos : addPartialSource(u, info)
         \/ setBundlePriority \/ DeleteTemp
         \/ \E what \in {"bundle", "file"} : Resume(what)
         \/ \E b \in Damaged : Damage(b)
         \/ recheckFiles \/ RecheckValidate \/ RecheckRead \/ RecheckEnd
         \/ UNCHANGED vars
  PROVE  Work'
<1>0. PhaseRight /\ FilesOK /\ check \in Checks BY DEF Work, Base, FilesOK
<1>1. Unasked /\ conn' = conn BY OtherUnasked
<1>2. /\ status' = status /\ Entries' = Entries /\ done' = done /\ tree' = tree
  BY <1>1 DEF Unasked, Entries
<1>3. PhaseRight'
  <2>1. CASE check' = check BY <1>0, <1>1, <2>1, PhaseStays
  <2>2. CASE check'.phase \in {"none", "end"} BY <2>2 DEF PhaseRight
  <2>3. CASE recheckFiles
    <3>1. status # "QUEUED" BY <2>3 DEF recheckFiles
    <3>2. check'.phase = "paused" BY <2>3 DEF recheckFiles, NoCheck
    <3> QED BY <1>2, <3>1, <3>2 DEF PhaseRight
  <2>4. CASE RecheckValidate
    <3>1. /\ check.phase = "paused"
          /\ check' = IF status # "REMOVED" /\ FileExists /\ ~isRunning
                      THEN [check EXCEPT !.phase = "validated"] ELSE RecheckDone(check)
      BY <2>4 DEF RecheckValidate
    <3>2. CASE check' = RecheckDone(check)
      <4>1. check'.phase = "end" BY <3>2 DEF RecheckDone, NoCheck
      <4> QED BY <2>2, <4>1
    <3>3. CASE ~isRunning /\ check' = [check EXCEPT !.phase = "validated"]
      <4>1. check'.phase = "validated" BY <1>0, <3>3 DEF Checks
      <4>2. status # "QUEUED" BY <1>0, <3>1 DEF PhaseRight
      <4>3. Entries = {} BY <3>3 DEF isRunning, Entries
      <4> QED BY <1>2, <4>1, <4>2, <4>3 DEF PhaseRight
    <3> QED BY <3>1, <3>2, <3>3
  <2>5. CASE RecheckRead
    <3>1. /\ check.phase = "reset"
          /\ check' = [check EXCEPT !.phase = "read", !.leaves = disk] \/ check' = RecheckDone(check)
      BY <2>5 DEF RecheckRead
    <3>2. CASE check' = RecheckDone(check)
      <4>1. check'.phase = "end" BY <3>2 DEF RecheckDone, NoCheck
      <4> QED BY <2>2, <4>1
    <3>3. CASE check' = [check EXCEPT !.phase = "read", !.leaves = disk]
      <4>1. check'.phase = "read" BY <1>0, <3>3 DEF Checks
      <4> QED BY <1>0, <1>2, <3>1, <4>1 DEF PhaseRight
    <3> QED BY <3>1, <3>2, <3>3
  <2>6. CASE RecheckEnd
    <3>1. check'.phase = "none" BY <2>6 DEF RecheckEnd, NoCheck
    <3> QED BY <2>2, <3>1
  <2>7. CASE \/ \E u \in Users : removeFileSource(u)
             \/ \E u \in Users, info \in PartsInfos : addPartialSource(u, info)
             \/ setBundlePriority \/ DeleteTemp
             \/ \E what \in {"bundle", "file"} : Resume(what)
             \/ \E b \in Damaged : Damage(b)
             \/ UNCHANGED vars
    <3>1. check' = check
      BY <2>7 DEF removeFileSource, addPartialSource, setBundlePriority, DeleteTemp, Resume, Damage,
                  vars
    <3> QED BY <2>1, <3>1
  <2> QED BY <2>3, <2>4, <2>5, <2>6, <2>7
<1> QED BY <1>1, <1>3, Quiet

\* The transfer keeps the work right.
LEMMA TransferWork ==
  ASSUME Base, Work, TransfersOK', status # "REMOVED", NEW u \in Users,
         \/ SND(u) \/ FileNotAvailable(u) \/ Data(u) \/ TreeData(u) \/ Failed(u) \/ FailedIdle(u)
         \/ Requesting(u) \/ NoNeededPart(u)
  PROVE  Work'
<1>1. /\ Unasked /\ check' = check
      /\ \A v \in Users : conn'[v] = "starting" => conn[v] = "starting"
      /\ status = "QUEUED" => \A v \in Users : conn[v] \in Owning => conn'[v] \in Owning
  BY TransferUnasked
<1>2. PhaseRight' BY <1>1, PhaseStays DEF Work
<1> QED BY <1>1, <1>2, Quiet

-----------------------------------------------------------------------------
(* A file that is downloaded is checked again. *)

\* No segments, no units.
LEMMA NothingIs ==
  /\ getDownloadedSegments({}) = 0 /\ Units({}) = {} /\ ~segmentsDone({})
BY FS_EmptySet DEF getDownloadedSegments, Units, segmentsDone

\* The recheck drops the done segments.
LEMMA ResetWork ==
  ASSUME Base, Work, TransfersOK', status # "REMOVED", RecheckReset
  PROVE  Work'
<1>0. /\ DoneRight /\ PhaseRight /\ check \in Checks /\ status \in {"QUEUED", "DOWNLOADED"}
      /\ QueueOK
  BY DEF Base, Work, QueueOK, FilesOK
<1>1. /\ check.phase = "validated" /\ status' = status /\ tree' = tree /\ transfers' = transfers
  BY DEF RecheckReset
<1>2. downloads' = downloads /\ dl' = dl /\ conn' = conn /\ Entries' = Entries
  BY <1>1 DEF transfers, Entries
<1>3. status = "DOWNLOADED" /\ Entries = {} BY <1>0, <1>1 DEF PhaseRight
<1>4. CASE tree /\ check' = [check EXCEPT !.phase = "reset", !.done = done] /\ resetDownloaded
  <2>1. check'.phase = "reset" BY <1>0, <1>4 DEF Checks
  <2>2. done' = {} /\ finished' = finished - getDownloadedSegments(done) BY <1>4 DEF resetDownloaded
  <2>3. finished' = 0
    <3>1. finished = getDownloadedSegments(done) /\ finished \in Int BY <1>0 DEF DoneRight, QueueOK
    <3> QED BY <2>2, <3>1
  <2>4. DoneRight' BY <2>2, <2>3, NothingIs DEF DoneRight
  <2>5. PhaseRight' BY <1>1, <1>2, <1>3, <1>4, <2>1, <2>2 DEF PhaseRight
  <2> QED BY <1>1, <1>2, <1>3, <2>4, <2>5, StaysDownloaded
<1>5. CASE check' = RecheckDone(check) /\ done' = done /\ finished' = finished
  <2>1. check'.phase = "end" BY <1>5 DEF RecheckDone, NoCheck
  <2>2. DoneRight' BY <1>0, <1>1, <1>5 DEF DoneRight
  <2>3. PhaseRight' BY <1>1, <1>3, <2>1 DEF PhaseRight
  <2> QED BY <1>1, <1>2, <1>3, <2>2, <2>3, StaysDownloaded
<1> QED BY <1>4, <1>5 DEF RecheckReset

\* The recheck adds the segments that are right: the file stays downloaded
\* if they are all of it and is queued if not.
LEMMA ApplyWork ==
  ASSUME Base, Work, TransfersOK', status # "REMOVED", RecheckApply
  PROVE  Work' /\ status = "DOWNLOADED" /\ done = {} /\ Entries = {} /\ Entries' = {}
         /\ status' = IF segmentsDone(done') THEN "DOWNLOADED" ELSE "QUEUED"
<1>0. /\ DoneRight /\ PhaseRight /\ status \in {"QUEUED", "DOWNLOADED"}
      /\ QueueOK /\ \A v \in Users : AssignedRight(v) /\ StartingRight(v)
  BY DEF Base, Work, QueueOK
<1>1. /\ check.phase = "read" /\ tree' = tree /\ dl' = dl /\ conn' = conn
      /\ check' = RecheckDone(check)
      /\ done' = Compared.done /\ finished' = finished + Compared.bytes
      /\ status' = IF check.leaves = Leaves THEN "DOWNLOADED"
                   ELSE IF status = "DOWNLOADED" /\ ~segmentsDone(Compared.done) THEN "QUEUED" ELSE status
      /\ status # "QUEUED" => downloads' = downloads
  BY DEF RecheckApply
<1>2. status = "DOWNLOADED" /\ Entries = {} /\ done = {} /\ tree BY <1>0, <1>1 DEF PhaseRight
<1>3. Entries' = {} BY <1>1, <1>2 DEF Entries
<1>4. /\ \A s \in Compared.done : Aligned(s)
      /\ Compared.bytes = getDownloadedSegments(Compared.done)
      /\ check.leaves = Leaves => segmentsDone(Compared.done)
      /\ Compared.bytes \in Int
  BY <1>0, <1>2, ComparedIs
<1>5. finished = 0 BY <1>0, <1>2, NothingIs DEF DoneRight
<1>6. DoneRight' BY <1>1, <1>2, <1>4, <1>5 DEF DoneRight
<1>7. status' = IF segmentsDone(done') THEN "DOWNLOADED" ELSE "QUEUED" BY <1>1, <1>2, <1>4
<1>8. check'.phase = "end" BY <1>1 DEF RecheckDone, NoCheck
<1>9. QueuedRight' /\ PhaseRight' BY <1>3, <1>7, <1>8 DEF QueuedRight, PhaseRight
<1>10. \A v \in Users : ~(dl'[v].seg.size > 0) /\ conn'[v] # "starting"
  BY <1>0, <1>1, <1>2 DEF AssignedRight, StartingRight
<1> QED BY <1>2, <1>3, <1>6, <1>7, <1>9, <1>10, NobodyAsked

-----------------------------------------------------------------------------
(* A connection is given a segment. *)

\* A file that is not done has a unit that is not done.
LEMMA UnitLeft ==
  ASSUME QueueOK, ~segmentsDone(done)
  PROVE  \E x \in 0..(Size - 1) : x \notin Units(done)
<1>1. Units(done) \subseteq 0..(Size - 1) /\ Units(done) # 0..(Size - 1)
  BY UnitsFinite, WholeIsAll DEF QueueOK
<1> QED BY <1>1

\* startDownload looks for a segment before it takes the connection.
LEMMA FoundFree ==
  ASSUME ~OverlapSlow, Base, Work, status = "QUEUED", NEW u \in Users, hasSegment(u)
  PROVE  FreeUnit
<1>0. /\ QueueOK /\ TransfersOK /\ SourcesOK /\ DoneRight /\ QueuedRight
  BY DEF Base, Work
<1>1. ~segmentsDone(done) BY DEF hasSegment
<1>2. CASE ~isRunning
  <2>1. Entries = {} BY <1>2 DEF isRunning, Entries
  <2> QED BY <1>0, <1>1, <2>1, UnitLeft DEF FreeUnit
<1>3. CASE isRunning
  <2>1. PICK r \in getNextSegment(u, done, getBlockSize, 0, TRUE) : r.seg.size # 0
    BY <1>3 DEF hasSegment
  <2>2. PICK b \in {BlockSize, Size} : b = getBlockSize BY <1>0, BlockSizeIs
  <2>3. done \subseteq FileSegs /\ Separated(done) BY <1>0 DEF QueueOK
  <2>4. \A s \in done : Aligned(s) BY <1>0 DEF DoneRight
  <2>5. PICK a \in BOOLEAN : r \in getNextSegment(u, done, b, 0, a) BY <2>1, <2>2
  <2>6. /\ r.seg.size > 0 => r.seg \in FileSegs
        /\ r.seg.size > 0 /\ b = BlockSize
        /\ \A v \in Entries : Apart(r.seg, dl[v].seg)
        /\ \A s \in done : Apart(r.seg, s)
    <3> DEFINE N == getNextSegment(u, done, b, 0, a)
    <3>1. \A x \in N :
            /\ x.seg.size > 0 => x.seg \in FileSegs
            /\ ~OverlapSlow /\ isRunning /\ x.seg.size # 0 => x.seg.size > 0 /\ b = BlockSize
            /\ ~OverlapSlow /\ x.seg.size > 0 =>
                 /\ \A v \in Entries : Apart(x.seg, dl[v].seg)
                 /\ b = BlockSize /\ ~segmentsDone(done) /\ (\A s \in done : Aligned(s)) =>
                      Aligned(x.seg) /\ \A s \in done : Apart(x.seg, s)
      <4>1. PICK w \in Nat : w = 0 OBVIOUS
      <4> QED BY <1>0, <2>3, <4>1, NextIs
    <3>2. r \in N BY <2>5
    <3> HIDE DEF N
    <3> QED BY <1>1, <1>3, <2>1, <2>4, <3>1, <3>2
  <2>7. PICK g \in FileSegs : /\ g = r.seg /\ \A v \in Entries : Apart(g, dl[v].seg)
                              /\ \A s \in done : Apart(g, s)
    BY <2>6
  <2>8. g.start \in UnitsOf(g) /\ g.start \in 0..(Size - 1) BY UnitOf
  <2>9. g.start \notin Units(done)
    <3> SUFFICES ASSUME NEW s \in done, g.start \in UnitsOf(s) PROVE FALSE BY UnitsAre
    <3>1. s \in FileSegs BY <2>3
    <3> QED BY <2>7, <2>8, <3>1, UnitsApart
  <2>10. ASSUME NEW v \in Entries PROVE g.start \notin Ask(v)
    <3>1. v \in Users BY <1>0, EntryIsUser
    <3>2. CASE dl[v].seg.size > 0
      <4>1. dl[v].seg \in FileSegs BY <1>0, <3>1, <3>2, AskIs
      <4> QED BY <2>7, <2>8, <4>1, UnitsApart DEF Ask
    <3>3. CASE ~(dl[v].seg.size > 0) BY <1>0, <3>1, <3>3, AskIs
    <3> QED BY <3>2, <3>3
  <2> QED BY <2>8, <2>9, <2>10 DEF FreeUnit
<1> QED BY <1>2, <1>3

\* The choice of the file keeps the work right.
LEMMA StartWork ==
  ASSUME ~OverlapSlow, Base, Work, NEW u \in Users, startDownload(u)
  PROVE  Work'
<1>0. status = "QUEUED" /\ hasSegment(u) BY DEF startDownload
<1>1. /\ TransfersOK /\ DoneRight /\ ApartRight /\ QueuedRight /\ PhaseRight
      /\ \A v \in Users : AssignedRight(v) /\ StartingRight(v)
  BY <1>0 DEF Base, Work
<1>2. /\ conn[u] = "idle" /\ \A v \in Users : conn[v] # "starting"
      /\ conn' = [conn EXCEPT ![u] = "starting"]
      /\ done' = done /\ finished' = finished /\ status' = status /\ tree' = tree
      /\ downloads' = downloads /\ dl' = dl /\ check' = check
  BY DEF startDownload
<1>3. Entries' = Entries BY <1>2 DEF Entries
<1>4. conn'[u] = "starting" /\ \A v \in Users : v # u => conn'[v] = conn[v]
  BY <1>1, <1>2 DEF TransfersOK
<1>5. u \notin Entries BY <1>0, <1>1, <1>2 DEF QueuedRight, Owning
<1>6. \A v \in Entries : v \in Users /\ v # u BY <1>1, <1>5, EntryIsUser
<1>7. DoneRight' /\ PhaseRight' BY <1>1, <1>2, <1>3 DEF DoneRight, PhaseRight
<1>8. ApartRight' BY <1>1, <1>2, <1>3 DEF ApartRight, Ask
<1>9. QueuedRight' BY <1>1, <1>2, <1>3, <1>4, <1>6 DEF QueuedRight
<1>10. ASSUME NEW v \in Users PROVE AssignedRight(v)'
  <2>1. AssignedRight(v) BY <1>1
  <2>2. dl[v].seg.size > 0 => v # u /\ conn'[v] = conn[v] BY <1>4, <1>5, <2>1 DEF AssignedRight
  <2> QED BY <1>2, <1>3, <2>1, <2>2 DEF AssignedRight
<1>11. FreeUnit' 
  <2>1. FreeUnit BY <1>0, FoundFree
  <2> QED BY <1>2, <1>3, <2>1 DEF FreeUnit, Ask
<1>12. ASSUME NEW v \in Users PROVE StartingRight(v)'
  <2>1. CASE v = u BY <1>0, <1>2, <1>3, <1>4, <1>5, <1>11, <2>1 DEF StartingRight
  <2>2. CASE v # u BY <1>2, <1>4, <2>2 DEF StartingRight
  <2> QED BY <2>1, <2>2
<1> QED BY <1>7, <1>8, <1>9, <1>10, <1>12 DEF Work

\* What getDownload does, when nothing is overlapped.
LEMMA AssignsRight ==
  ASSUME ~OverlapSlow, Base, Work, status # "REMOVED", NEW u \in Users, getDownload(u)
  PROVE  /\ status = "QUEUED" /\ u \notin Entries /\ FreeUnit
         /\ \A v \in Users : conn[v] = "starting" => v = u
         /\ \A v \in Users : v # u => dl'[v] = dl[v]
         /\ done' \in {done, {}} /\ finished' = getDownloadedSegments(done')
         /\ dl'[u].seg.size > 0 =>
              /\ dl'[u].seg \in FileSegs /\ Aligned(dl'[u].seg)
              /\ \/ dl'[u].blk = BlockSize /\ tree
                 \/ dl'[u].blk = Size /\ dl'[u].seg = Whole
              /\ \A v \in Entries : Apart(dl'[u].seg, dl[v].seg)
              /\ \A s \in done' : Apart(dl'[u].seg, s)
<1>0. /\ QueueOK /\ SourcesOK /\ TransfersOK /\ DoneRight /\ QueuedRight /\ StartingRight(u)
  BY DEF Base, Work
<1>1. conn[u] = "starting" BY DEF getDownload
<1>2. /\ status = "QUEUED" /\ u \notin Entries /\ FreeUnit
      /\ \A v \in Users : conn[v] = "starting" => v = u
  BY <1>0, <1>1 DEF StartingRight
<1>3. PICK wanted \in WantedSizes :
        \E d \in NewDownloads(u, IF TempGone THEN {} ELSE done, wanted) :
          dl' = [initOverlapped(d) EXCEPT ![u] = d]
  BY DEF getDownload
<1>4. PICK S : S = IF TempGone THEN {} ELSE done OBVIOUS
<1>5. PICK d \in NewDownloads(u, S, wanted) : dl' = [initOverlapped(d) EXCEPT ![u] = d]
  BY <1>3, <1>4
<1>6. S \in {done, {}} /\ S \subseteq FileSegs /\ Separated(S) BY <1>0, <1>4 DEF QueueOK, Separated
<1>7. wanted \in Nat BY QueueItemAssumption
<1>8. /\ d.seg.size > 0 => d.seg \in FileSegs
      /\ d.seg.size > 0 /\ ~segmentsDone(S) /\ (\A s \in S : Aligned(s)) /\ (~tree => S = {}) =>
           /\ \A v \in Entries : Apart(d.seg, dl[v].seg)
           /\ \A s \in S : Apart(d.seg, s)
           /\ \/ tree /\ d.blk = BlockSize /\ Aligned(d.seg)
              \/ ~tree /\ d.blk = Size /\ d.seg = Whole
  BY <1>0, <1>6, <1>7, NewDownloadIs
<1>9. ~d.over
  BY <1>0, <1>6, <1>7, NewDownloadIs
<1>10. dl' = [dl EXCEPT ![u] = d] BY <1>5, <1>9 DEF initOverlapped
<1>11. dl'[u] = d /\ \A v \in Users : v # u => dl'[v] = dl[v] BY <1>0, <1>10 DEF TransfersOK
<1>12. ~segmentsDone(S) /\ (\A s \in S : Aligned(s)) /\ (~tree => S = {})
  <2>1. ~segmentsDone(done) BY <1>0, <1>2 DEF QueuedRight
  <2>2. ~tree => done = {} BY <1>0, <2>1 DEF DoneRight, segmentsDone, Whole
  <2> QED BY <1>0, <1>6, <2>1, <2>2, NothingIs DEF DoneRight
<1>13. done' = S /\ finished' = getDownloadedSegments(S)
  <2>1. CASE TempGone
    <3>1. resetDownloaded /\ S = {} BY <1>4, <2>1 DEF getDownload
    <3>2. finished \in Int /\ finished = getDownloadedSegments(done) BY <1>0 DEF DoneRight, QueueOK
    <3> QED BY <3>1, <3>2, NothingIs DEF resetDownloaded
  <2>2. CASE ~TempGone
    <3>1. done' = done /\ finished' = finished /\ S = done BY <1>4, <2>2 DEF getDownload
    <3> QED BY <1>0, <3>1 DEF DoneRight
  <2> QED BY <2>1, <2>2
<1>14. ASSUME d.seg.size > 0
       PROVE  /\ d.seg \in FileSegs /\ Aligned(d.seg)
              /\ \/ d.blk = BlockSize /\ tree
                 \/ d.blk = Size /\ d.seg = Whole
              /\ \A v \in Entries : Apart(d.seg, dl[v].seg)
              /\ \A s \in S : Apart(d.seg, s)
  BY <1>8, <1>12, <1>14, WholeAligned
<1> QED BY <1>2, <1>6, <1>11, <1>13, <1>14

\* The new download has an entry.
LEMMA EntryAppended ==
  ASSUME TransfersOK, NEW u \in Users, downloads' = Append(downloads, u)
  PROVE  \A v : v \in Entries' <=> v \in Entries \/ v = u
<1>1. downloads \in Seq(Users) /\ Len(downloads) \in Nat BY DEF TransfersOK
<1>2. DOMAIN downloads' = 1..(Len(downloads) + 1) /\ DOMAIN downloads = 1..Len(downloads)
  BY <1>1
<1>3. /\ \A i \in DOMAIN downloads : i \in DOMAIN downloads' /\ downloads'[i] = downloads[i]
      /\ Len(downloads) + 1 \in DOMAIN downloads' /\ downloads'[Len(downloads) + 1] = u
      /\ \A i \in DOMAIN downloads' : i \in DOMAIN downloads \/ i = Len(downloads) + 1
  BY <1>1, <1>2
<1> QED BY <1>3 DEF Entries

\* The choice of the segment keeps the work right.
LEMMA AssignWork ==
  ASSUME ~OverlapSlow, Base, Work, TransfersOK', status # "REMOVED", NEW u \in Users, getDownload(u)
  PROVE  Work'
<1>0. /\ TransfersOK /\ QueueOK /\ DoneRight /\ ApartRight /\ QueuedRight /\ PhaseRight
      /\ \A v \in Users : AssignedRight(v) /\ StartingRight(v)
  BY DEF Base, Work
<1>1. /\ status = "QUEUED" /\ u \notin Entries
      /\ \A v \in Users : conn[v] = "starting" => v = u
      /\ \A v \in Users : v # u => dl'[v] = dl[v]
      /\ done' \in {done, {}} /\ finished' = getDownloadedSegments(done')
      /\ dl'[u].seg.size > 0 =>
           /\ dl'[u].seg \in FileSegs /\ Aligned(dl'[u].seg)
           /\ \/ dl'[u].blk = BlockSize /\ tree
              \/ dl'[u].blk = Size /\ dl'[u].seg = Whole
           /\ \A v \in Entries : Apart(dl'[u].seg, dl[v].seg)
           /\ \A s \in done' : Apart(dl'[u].seg, s)
  BY AssignsRight
<1>2. /\ status' = status /\ tree' = tree /\ check' = check
      /\ conn' = [conn EXCEPT ![u] = "assigned"] /\ downloads' = Append(downloads, u)
  BY DEF getDownload
<1>3. conn'[u] = "assigned" /\ \A v \in Users : v # u => conn'[v] = conn[v]
  BY <1>0, <1>2 DEF TransfersOK
<1>4. \A v : v \in Entries' <=> v \in Entries \/ v = u BY <1>0, <1>2, EntryAppended
<1>5. \A v \in Entries : v \in Users /\ v # u /\ dl'[v] = dl[v] /\ conn'[v] = conn[v]
  BY <1>0, <1>1, <1>3, EntryIsUser
<1>6. DoneRight' BY <1>0, <1>1, <1>2 DEF DoneRight
<1>7. QueuedRight'
  <2>1. ~segmentsDone(done') BY <1>0, <1>1, NothingIs DEF QueuedRight
  <2>2. \A v \in Entries' : conn'[v] \in Owning
    BY <1>0, <1>1, <1>3, <1>4, <1>5 DEF QueuedRight, Owning
  <2> QED BY <2>1, <2>2 DEF QueuedRight
<1>8. PhaseRight' BY <1>0, <1>1, <1>2 DEF PhaseRight
<1>9. ASSUME NEW v \in Users PROVE AssignedRight(v)'
  <2>1. CASE v = u BY <1>1, <1>2, <1>3, <1>4, <2>1 DEF AssignedRight, Owning
  <2>2. CASE v # u
    <3>1. AssignedRight(v) /\ dl'[v] = dl[v] /\ conn'[v] = conn[v] BY <1>0, <1>1, <1>3, <2>2
    <3> QED BY <1>2, <1>4, <3>1 DEF AssignedRight
  <2> QED BY <2>1, <2>2
<1>10. ASSUME NEW v \in Users PROVE StartingRight(v)'
  <2>1. conn'[v] # "starting"
    <3>1. CASE v = u BY <1>3, <3>1
    <3>2. CASE v # u BY <1>1, <1>3, <3>2
    <3> QED BY <3>1, <3>2
  <2> QED BY <2>1 DEF StartingRight
<1>11. \A v \in Entries : Ask(v)' = Ask(v) BY <1>5 DEF Ask
<1>12. Units(done') \subseteq Units(done) BY <1>1, NothingIs
<1>13. CASE dl'[u].seg.size > 0
  <2>1. dl'[u].seg \in FileSegs /\ Ask(u)' = UnitsOf(dl'[u].seg) BY <1>1, <1>13 DEF Ask
  <2>2. ASSUME NEW v \in Entries PROVE Ask(u)' \cap Ask(v)' = {}
    <3>1. v \in Users BY <1>5
    <3>2. CASE dl[v].seg.size > 0
      <4>1. dl[v].seg \in FileSegs /\ Apart(dl'[u].seg, dl[v].seg) BY <1>0, <1>1, <1>13, <3>1, <3>2, AskIs
      <4>2. UnitsOf(dl'[u].seg) \cap UnitsOf(dl[v].seg) = {} BY <2>1, <4>1, UnitsApart
      <4> QED BY <1>11, <2>1, <4>2 DEF Ask
    <3>3. CASE ~(dl[v].seg.size > 0)
      <4>1. Ask(v) = {} BY <1>0, <3>1, <3>3, AskIs
      <4> QED BY <1>11, <4>1
    <3> QED BY <3>2, <3>3
  <2>3. Ask(u)' \cap Units(done') = {}
    <3> SUFFICES ASSUME NEW x \in UnitsOf(dl'[u].seg), x \in Units(done') PROVE FALSE BY <2>1
    <3>1. PICK s \in done' : x \in UnitsOf(s) BY UnitsAre
    <3>2. s \in FileSegs /\ Apart(dl'[u].seg, s) BY <1>0, <1>1, <1>13, <3>1 DEF QueueOK
    <3> QED BY <2>1, <3>1, <3>2, UnitsApart
  <2>4. ApartRight'
    <3>1. \A v \in Entries : Ask(v)' \cap Units(done') = {}
      BY <1>0, <1>11, <1>12 DEF ApartRight
    <3>2. \A v, w \in Entries : v # w => Ask(v)' \cap Ask(w)' = {}
      BY <1>0, <1>11 DEF ApartRight
    <3> QED BY <1>4, <2>2, <2>3, <3>1, <3>2 DEF ApartRight
  <2> QED BY <1>6, <1>7, <1>8, <1>9, <1>10, <2>4 DEF Work
<1>14. CASE ~(dl'[u].seg.size > 0)
  <2>1. Ask(u)' = {}
    <3>1. /\ dl'[u].seg.start \in Int /\ dl'[u].seg.size \in Int
          /\ getEnd(dl'[u].seg) = dl'[u].seg.start + dl'[u].seg.size
      BY DEF TransfersOK, Download, getEnd
    <3> QED BY <1>14, <3>1 DEF Ask, UnitsOf
  <2>2. ApartRight' BY <1>0, <1>4, <1>11, <1>12, <2>1 DEF ApartRight
  <2> QED BY <1>6, <1>7, <1>8, <1>9, <1>10, <2>2 DEF Work
<1> QED BY <1>6, <1>7, <1>8, <1>9, <1>10, <1>13, <1>14 DEF Work

-----------------------------------------------------------------------------
(* Every step. *)

\* A file that is removed stays so.
LEMMA RemovedStays ==
  ASSUME status = "REMOVED", [Next]_vars
  PROVE  status' = "REMOVED"
<1>1. ASSUME NEW u \in Users, Connection(u) PROVE status' = "REMOVED"
  <2>1. CASE getDownload(u) \/ NoNeededPart(u) \/ startDownload(u)
    BY <2>1 DEF getDownload, NoNeededPart, startDownload
  <2>2. CASE Requesting(u) \/ SND(u) \/ FileNotAvailable(u) \/ Data(u) \/ TreeData(u)
             \/ Failed(u) \/ FailedIdle(u)
    BY <2>2 DEF Requesting, SND, FileNotAvailable, Data, TreeData, Failed, FailedIdle, queue
  <2>3. CASE onDownloadFailed(u) \/ onTreeDownloadCompleted(u) \/ onFileDownloadCompleted(u)
    BY <2>3 DEF onDownloadFailed, onTreeDownloadCompleted, onFileDownloadCompleted, queue
  <2> QED BY <1>1, <2>1, <2>2, <2>3 DEF Connection
<1>2. ASSUME NEW u \in Users, removeFileSource(u) PROVE status' = "REMOVED"
  BY <1>2 DEF removeFileSource
<1>3. ASSUME NEW u \in Users, NEW info \in PartsInfos, addPartialSource(u, info)
      PROVE  status' = "REMOVED"
  BY <1>3 DEF addPartialSource
<1>4. CASE removeQI \/ setBundlePriority \/ DeleteTemp
  BY <1>4 DEF removeQI, setBundlePriority, DeleteTemp, queue
<1>5. CASE \/ \E what \in {"bundle", "file"} : Resume(what)
           \/ \E b \in Damaged : Damage(b)
  BY <1>5 DEF Resume, Damage, queue
<1>6. CASE recheckFiles \/ Recheck
  BY <1>6 DEF recheckFiles, Recheck, RecheckValidate, RecheckReset, RecheckRead, RecheckApply,
              RecheckEnd, queue
<1>7. CASE UNCHANGED vars BY <1>7 DEF vars, queue
<1> QED BY <1>1, <1>2, <1>3, <1>4, <1>5, <1>6, <1>7 DEF Next

\* Nobody is asked for anything at first.
LEMMA WorkInit ==
  ASSUME Init
  PROVE  Work
<1>1. /\ done = {} /\ finished = 0 /\ status = "QUEUED" /\ check.phase = "none"
      /\ downloads = << >>
      /\ \A u \in Users : conn[u] = "idle" /\ dl[u] = NoDownload
  BY DEF Init, NoCheck
<1>2. Entries = {} BY <1>1 DEF Entries
<1>3. DoneRight BY <1>1, NothingIs DEF DoneRight
<1>4. ApartRight BY <1>2 DEF ApartRight
<1>5. QueuedRight BY <1>1, <1>2, NothingIs DEF QueuedRight
<1>6. PhaseRight BY <1>1 DEF PhaseRight
<1>7. ASSUME NEW u \in Users PROVE AssignedRight(u) /\ StartingRight(u)
  <2>1. ~(dl[u].seg.size > 0) BY <1>1 DEF NoDownload, NoSegment, Segment
  <2> QED BY <1>1, <2>1 DEF AssignedRight, StartingRight
<1> QED BY <1>3, <1>4, <1>5, <1>6, <1>7 DEF Work

\* Every step keeps the work right.
LEMMA WorkStep ==
  ASSUME ~OverlapSlow, ~RecheckUnfinished, Base, Base', Work, [Next]_vars
  PROVE  Work'
<1>0. QueueOK' /\ TransfersOK' BY DEF Base
<1>1. CASE status = "REMOVED" BY <1>1, RemovedStays DEF Work
<1>2. CASE status # "REMOVED"
  <2>1. ASSUME NEW u \in Users, Connection(u) PROVE Work'
    <3>1. CASE \/ SND(u) \/ FileNotAvailable(u) \/ Data(u) \/ TreeData(u) \/ Failed(u) \/ FailedIdle(u)
               \/ Requesting(u) \/ NoNeededPart(u)
      BY <1>0, <1>2, <3>1, TransferWork
    <3>2. CASE onDownloadFailed(u) \/ onTreeDownloadCompleted(u) BY <1>0, <1>2, <3>2, BackWork
    <3>3. CASE onFileDownloadCompleted(u) BY <1>0, <1>2, <3>3, CompletedWork
    <3>4. CASE getDownload(u) BY <1>0, <1>2, <3>4, AssignWork
    <3>5. CASE startDownload(u) BY <3>5, StartWork
    <3> QED BY <2>1, <3>1, <3>2, <3>3, <3>4, <3>5 DEF Connection
  <2>2. CASE removeQI
    <3>1. status' = "REMOVED" BY <2>2 DEF removeQI
    <3> QED BY <3>1 DEF Work
  <2>3. CASE RecheckReset BY <1>0, <1>2, <2>3, ResetWork
  <2>4. CASE RecheckApply BY <1>0, <1>2, <2>4, ApplyWork
  <2>5. CASE \/ \E u \in Users : removeFileSource(u)
             \/ \E u \in Users, info \in PartsInfos : addPartialSource(u, info)
             \/ setBundlePriority \/ DeleteTemp
             \/ \E what \in {"bundle", "file"} : Resume(what)
             \/ \E b \in Damaged : Damage(b)
             \/ recheckFiles \/ RecheckValidate \/ RecheckRead \/ RecheckEnd
             \/ UNCHANGED vars
    BY <1>0, <1>2, <2>5, OtherWork
  <2> QED BY <2>1, <2>2, <2>3, <2>4, <2>5 DEF Next, Recheck
<1> QED BY <1>1, <1>2

\* What that means for the counting and for the list.
LEMMA WorkMeans ==
  ASSUME Work
  PROVE  Accounted /\ NoDangling
BY EntriesAre DEF Work, DoneRight, QueuedRight, Owning, Accounted, NoDangling

\* When slow sources are not overlapped and only finished files are checked, the
\* bundle counts for the file exactly what its done segments cover.
THEOREM BytesAccounted ==
  ASSUME ~OverlapSlow, ~RecheckUnfinished
  PROVE  Spec => []Accounted
<1>1. Init => Base /\ Work BY BaseInit, WorkInit
<1>2. Base /\ Work /\ [Next]_vars => (Base /\ Work)' BY BaseStep, WorkStep
<1>3. Base /\ Work => Accounted BY WorkMeans
<1> QED BY <1>1, <1>2, <1>3, PTL DEF Spec

\* And every entry of QueueItem::downloads is one that a connection still owns,
\* also after a finished file was checked, found wrong and queued again.
THEOREM NothingDanglesAfterChecks ==
  ASSUME ~OverlapSlow, ~RecheckUnfinished
  PROVE  Spec => []NoDangling
<1>1. Init => Base /\ Work BY BaseInit, WorkInit
<1>2. Base /\ Work /\ [Next]_vars => (Base /\ Work)' BY BaseStep, WorkStep
<1>3. Base /\ Work => NoDangling BY WorkMeans
<1> QED BY <1>1, <1>2, <1>3, PTL DEF Spec

-----------------------------------------------------------------------------
(* The data.  How far a download that has the file open can be.            *)

\* A download that has the temporary file open is one of whole blocks of the
\* file; a source that sends something else does not get past its first block.
OpenIs(u, d) ==
  /\ d.open => /\ d.type = "FILE" /\ d.seg.size > 0 /\ Aligned(d.seg)
               /\ \/ d.blk = BlockSize
                  \/ d.blk = Size /\ d.seg = Whole
               /\ u \in BadUsers => d.pos < d.blk
  /\ ~d.open => d.pos = 0 /\ ~d.live

\* A download that has finished has all of its segment, from a good source.
Ended(u, d) == d.type = "FILE" => d.open /\ d.pos = d.seg.size /\ u \notin BadUsers

\* Where the connection is meanwhile.
Stands(u, c, d) ==
  /\ OpenIs(u, d)
  /\ d.open => c \in {"RUNNING", "putting"}
  /\ c = "RUNNING" /\ d.type = "FILE" => d.open
  /\ c = "putting" /\ d.result = "finished" => Ended(u, d)

Standing == \A u \in Users : Stands(u, conn[u], dl[u])

\* One connection changes.
LEMMA OneStands ==
  ASSUME Standing, NEW u \in Users, \A v \in Users : v # u => conn'[v] = conn[v] /\ dl'[v] = dl[v],
         Stands(u, conn'[u], dl'[u])
  PROVE  Standing'
<1> SUFFICES ASSUME NEW v \in Users PROVE Stands(v, conn'[v], dl'[v]) BY DEF Standing
<1>1. v # u => Stands(v, conn[v], dl[v]) BY DEF Standing
<1> QED BY <1>1

\* A connection that has no file open.
LEMMA StandsClosed ==
  ASSUME NEW u, NEW c, NEW d, ~d.open, d.pos = 0, ~d.live,
         c \notin {"RUNNING", "putting"} \/ d.type # "FILE"
  PROVE  Stands(u, c, d)
BY DEF Stands, OpenIs, Ended

\* NoDownload has none open, and is such a download.
LEMMA NoneOpen ==
  ~NoDownload.open /\ ~NoDownload.live /\ NoDownload.pos = 0 /\ NoDownload.type = "none"
BY DEF NoDownload

\* The first half of putDownloadHooked.
LEMMA ReturnStands ==
  ASSUME TransfersOK, Standing, NEW u \in Users, NEW d \in Download, NEW result,
         Return(u, d, result), OpenIs(u, d), result = "finished" => Ended(u, d)
  PROVE  Standing'
<1>0. conn \in [Users -> Conns] /\ dl \in [Users -> Download] BY DEF TransfersOK
<1>1. CASE status = "QUEUED"
  <2> DEFINE e == [d EXCEPT !.result = result]
  <2>1. conn' = [conn EXCEPT ![u] = "putting"] /\ dl' = [dl EXCEPT ![u] = e] BY <1>1 DEF Return
  <2>2. /\ e.type = d.type /\ e.seg = d.seg /\ e.pos = d.pos /\ e.blk = d.blk
        /\ e.open = d.open /\ e.live = d.live /\ e.result = result
    BY DEF Download
  <2> HIDE DEF e
  <2>3. Stands(u, "putting", e) BY <2>2 DEF Stands, OpenIs, Ended
  <2>4. /\ conn'[u] = "putting" /\ dl'[u] = e
        /\ \A v \in Users : v # u => conn'[v] = conn[v] /\ dl'[v] = dl[v]
    BY <1>0, <2>1
  <2> QED BY <2>3, <2>4, OneStands
<1>2. CASE status # "QUEUED"
  <2>1. conn' = [conn EXCEPT ![u] = After(result)] /\ dl' = [dl EXCEPT ![u] = NoDownload]
    BY <1>2 DEF Return
  <2>2. /\ dl'[u] = NoDownload
        /\ \A v \in Users : v # u => conn'[v] = conn[v] /\ dl'[v] = dl[v]
    BY <1>0, <2>1
  <2>3. Stands(u, conn'[u], NoDownload) BY NoneOpen, StandsClosed
  <2> QED BY <2>2, <2>3, OneStands
<1> QED BY <1>1, <1>2

\* The rest of a division of a multiple.
LEMMA NoRest ==
  ASSUME NEW k \in Nat, NEW b \in Nat, b > 0
  PROVE  (k * b) % b = 0
<1>1. PICK n \in Int : n = k * b
  <2>1. k * b \in Int OBVIOUS
  <2> QED BY <2>1
<1>2. roundDown(k * b, b) = k * b BY RoundsNot
<1>3. (n \div b) * b = n BY <1>1, <1>2 DEF roundDown
<1>4. n = (n \div b) * b + (n % b) OBVIOUS
<1>5. (n \div b) * b \in Int /\ n % b \in Int OBVIOUS
<1>6. n % b = 0 BY <1>3, <1>4, <1>5
<1> QED BY <1>1, <1>6

\* A transfer that is not interrupted ends with its segment; that of a bad
\* source ends before its first block does.
LEMMA BadStops ==
  ASSUME TransfersOK, NEW u \in Users, dl[u].open, OpenIs(u, dl[u]), u \in BadUsers,
         dl[u].pos < dl[u].seg.size,
         LET at == dl[u].seg.start + dl[u].pos
         IN ~((at + 1) % dl[u].blk = 0 \/ at + 1 = Size)
  PROVE  dl[u].pos + 1 < dl[u].blk /\ dl[u].pos + 1 # dl[u].seg.size
<1>0. BlockSize \in Nat /\ BlockSize > 0 /\ Size \in Nat /\ Size > 0 BY SegmentAssumption
<1>1. dl[u].seg \in FileSegs /\ dl[u].pos \in Nat /\ dl[u].blk \in {BlockSize, Size}
  BY DEF TransfersOK, DownloadIs, Download, OpenIs
<1>2. PICK a \in Int, n \in Int, p \in Nat, b \in Nat :
        /\ a = dl[u].seg.start /\ n = dl[u].seg.size /\ p = dl[u].pos /\ b = dl[u].blk
        /\ a >= 0 /\ n >= 1 /\ a + n <= Size /\ getEnd(dl[u].seg) = a + n /\ b > 0
  BY <1>0, <1>1, FileSegsAre
<1>3. Aligned(dl[u].seg) /\ p < b /\ p < n /\ (b = BlockSize \/ (b = Size /\ dl[u].seg = Whole))
  BY <1>2 DEF OpenIs
<1>4. (a + p + 1) % b # 0 /\ a + p + 1 # Size
  <2>1. /\ ((dl[u].seg.start + dl[u].pos) + 1) % dl[u].blk # 0
        /\ (dl[u].seg.start + dl[u].pos) + 1 # Size
    OBVIOUS
  <2>2. dl[u].seg.start = a /\ dl[u].pos = p /\ dl[u].blk = b BY <1>2
  <2> QED BY <2>1, <2>2
<1>5. CASE b = BlockSize
  <2>1. PICK m \in Nat : a = m * b BY <1>0, <1>2, <1>3, <1>5 DEF Aligned, At
  <2>2. ASSUME p + 1 = b PROVE FALSE
    <3>1. a + p + 1 = (m + 1) * b /\ m + 1 \in Nat BY <2>1, <2>2
    <3> QED BY <1>2, <1>4, <3>1, NoRest
  <2>3. ASSUME p + 1 = n PROVE FALSE
    <3>1. a + p + 1 = getEnd(dl[u].seg) BY <1>2, <2>3
    <3>2. PICK k \in Nat : a + p + 1 = k * b BY <1>3, <1>4, <1>5, <3>1 DEF Aligned, At
    <3> QED BY <1>2, <1>4, <3>2, NoRest
  <2> QED BY <1>2, <1>3, <2>2, <2>3
<1>6. CASE b = Size /\ dl[u].seg = Whole
  <2>1. a = 0 /\ n = Size BY <1>2, <1>6, WholeIs
  <2> QED BY <1>0, <1>2, <1>3, <1>4, <1>6, <2>1
<1> QED BY <1>3, <1>5, <1>6

-----------------------------------------------------------------------------
(* What was had of the file, and steps that bring nothing new.             *)

\* What has come of a segment from a source that sends the file.
Got(u) ==
  IF dl[u].open /\ u \notin BadUsers
  THEN dl[u].seg.start..(dl[u].seg.start + dl[u].pos - 1) ELSE {}

\* A leaf that counts as done, or that a download has in full.
Had(b) == \/ UnitsOf(Leaf(b)) \subseteq Units(done)
          \/ \E u \in Users : UnitsOf(Leaf(b)) \subseteq Got(u)

\* Nobody writes where another writes, or where the file is done.
OpenApart ==
  \A u \in Users : dl[u].open =>
    /\ Ask(u) \cap Units(done) = {}
    /\ \A v \in Users : v # u /\ dl[v].open => Ask(u) \cap Ask(v) = {}

\* Who writes, writes to the file that is in the directory.
Writing ==
  ~unlinked => \A u \in Users : dl[u].open => dl[u].live /\ (status # "REMOVED" => temp)

\* What was had of the file is right in it.
LeavesRight ==
  ~unlinked /\ FileExists => \A b \in Leaves \ Damaged : Had(b) => b \in disk

\* So is all of a file that is downloaded, which was moved to its place.
Complete ==
  status = "DOWNLOADED" => ~temp /\ (~unlinked => Leaves \ Damaged \subseteq disk)

\* The inductive invariant of the data.
DataRight == OpenApart /\ Writing /\ LeavesRight /\ Complete

\* No file is opened, nothing arrives or is kept, and nothing is deleted.
NothingNew ==
  /\ \A v \in Users : dl'[v].open =>
       /\ dl[v].open /\ dl'[v].seg = dl[v].seg /\ dl'[v].pos = dl[v].pos
       /\ dl'[v].live = dl[v].live
  /\ Units(done') \subseteq Units(done)
  /\ unlinked' = unlinked
  /\ disk \ Damaged \subseteq disk'
  /\ temp' = temp \/ (~temp' /\ status' = "REMOVED")
  /\ status' \in {status, "REMOVED"}

\* Where downloads only go away, they stay apart.
LEMMA ApartStays ==
  ASSUME OpenApart,
         \A v \in Users : dl'[v].open =>
           dl[v].open /\ dl'[v].seg = dl[v].seg /\ Ask(v) \cap Units(done') = {}
  PROVE  OpenApart'
<1>1. \A v \in Users : dl'[v].open => dl[v].open /\ Ask(v)' = Ask(v) BY DEF Ask
<1> QED BY <1>1 DEF OpenApart

\* Such a step keeps the data right.
LEMMA NothingNewRight ==
  ASSUME DataRight, NothingNew
  PROVE  DataRight'
<1>1. OpenApart'
  <2>1. \A v \in Users : dl'[v].open =>
          dl[v].open /\ dl'[v].seg = dl[v].seg /\ Ask(v) \cap Units(done') = {}
    BY DEF DataRight, OpenApart, NothingNew
  <2> QED BY <2>1, ApartStays DEF DataRight
<1>2. Writing' BY DEF DataRight, Writing, NothingNew
<1>3. \A v \in Users : Got(v)' \subseteq Got(v) BY DEF Got, NothingNew
<1>4. \A b \in Leaves : Had(b)' => Had(b) BY <1>3 DEF Had, NothingNew
<1>5. FileExists' => FileExists BY DEF FileExists, NothingNew
<1>6. LeavesRight' BY <1>4, <1>5 DEF DataRight, LeavesRight, NothingNew
<1>7. Complete' BY DEF DataRight, Complete, NothingNew
<1> QED BY <1>1, <1>2, <1>6, <1>7 DEF DataRight

\* Files, done segments and status are as they were, and downloads as well or gone.
LEMMA NothingNewIs ==
  ASSUME files' = files, done' = done, status' = status,
         \A v \in Users : dl'[v] = dl[v] \/ ~dl'[v].open
  PROVE  NothingNew
BY DEF files, NothingNew

\* A connection that is not transferring has no file open.
LEMMA ClosedElsewhere ==
  ASSUME Standing, NEW u \in Users, conn[u] \notin {"RUNNING", "putting"}
  PROVE  ~dl[u].open /\ dl[u].pos = 0 /\ ~dl[u].live
BY DEF Standing, Stands, OpenIs

\* Connections that are not transferring change.
LEMMA MovesNothing ==
  ASSUME TransfersOK, Standing, NEW u \in Users,
         startDownload(u) \/ NoNeededPart(u) \/ Requesting(u) \/ FailedIdle(u)
  PROVE  Standing' /\ NothingNew
<1>1. /\ conn[u] \in {"idle", "starting", "assigned", "silent"} /\ dl' = dl
      /\ files' = files /\ done' = done /\ status' = status
      /\ \E c \in {"idle", "starting", "SND"} : conn' = [conn EXCEPT ![u] = c]
  BY DEF startDownload, NoNeededPart, Requesting, FailedIdle, queue
<1>2. /\ conn'[u] \in {"idle", "starting", "SND"}
      /\ \A v \in Users : v # u => conn'[v] = conn[v]
  BY <1>1 DEF TransfersOK
<1>3. ~dl[u].open /\ dl[u].pos = 0 /\ ~dl[u].live BY <1>1, ClosedElsewhere
<1>4. Stands(u, conn'[u], dl'[u]) BY <1>1, <1>2, <1>3, StandsClosed
<1>5. Standing' BY <1>1, <1>2, <1>4, OneStands
<1>6. NothingNew BY <1>1, NothingNewIs
<1> QED BY <1>5, <1>6

\* A new download has not opened the file.
LEMMA NewNotOpen ==
  ASSUME NEW u, NEW S, NEW wanted, NEW d \in NewDownloads(u, S, wanted)
  PROVE  ~d.open /\ d.pos = 0 /\ ~d.live
<1>1. ASSUME NEW blk, NEW r,
             d = [NoDownload EXCEPT !.type = "FILE", !.seg = r.seg, !.over = r.over, !.blk = blk]
      PROVE  ~d.open /\ d.pos = 0 /\ ~d.live
  BY <1>1 DEF NoDownload
<1>2. CASE d = [NoDownload EXCEPT !.type = "TREE", !.seg = Segment(0, -1)]
  BY <1>2 DEF NoDownload
<1>3. \/ d = [NoDownload EXCEPT !.type = "TREE", !.seg = Segment(0, -1)]
      \/ \E blk, w, allow : \E r \in getNextSegment(u, S, blk, w, allow) :
           d = [NoDownload EXCEPT !.type = "FILE", !.seg = r.seg, !.over = r.over, !.blk = blk]
  BY DEF NewDownloads
<1> QED BY <1>1, <1>2, <1>3

\* Neither does its assignment change the others, when nothing is overlapped.
LEMMA AssignsNothing ==
  ASSUME ~OverlapSlow, Base, Standing, NEW u \in Users, getDownload(u)
  PROVE  Standing' /\ NothingNew
<1>0. QueueOK /\ SourcesOK /\ TransfersOK BY DEF Base
<1>1. PICK wanted \in WantedSizes :
        \E d \in NewDownloads(u, IF TempGone THEN {} ELSE done, wanted) :
          dl' = [initOverlapped(d) EXCEPT ![u] = d]
  BY DEF getDownload
<1>2. PICK S : S = IF TempGone THEN {} ELSE done OBVIOUS
<1>3. PICK d \in NewDownloads(u, S, wanted) : dl' = [initOverlapped(d) EXCEPT ![u] = d]
  BY <1>1, <1>2
<1>4. S \subseteq FileSegs /\ Separated(S) BY <1>0, <1>2 DEF QueueOK, Separated
<1>5. wanted \in Nat BY QueueItemAssumption
<1>6. ~d.over BY <1>0, <1>4, <1>5, NewDownloadIs
<1>7. dl' = [dl EXCEPT ![u] = d] BY <1>3, <1>6 DEF initOverlapped
<1>8. conn' = [conn EXCEPT ![u] = "assigned"] BY DEF getDownload
<1>9. /\ dl'[u] = d /\ conn'[u] = "assigned"
      /\ \A v \in Users : v # u => dl'[v] = dl[v] /\ conn'[v] = conn[v]
  BY <1>0, <1>7, <1>8 DEF TransfersOK
<1>10. ~d.open /\ d.pos = 0 /\ ~d.live BY NewNotOpen
<1>11. Standing'
  <2>1. Stands(u, "assigned", d) BY <1>10, StandsClosed
  <2> QED BY <1>9, <2>1, OneStands
<1>12. NothingNew
  <2>1. done' \in {done, {}} /\ status' = status /\ files' = files
    BY DEF getDownload, resetDownloaded
  <2>2. Units(done') \subseteq Units(done) BY <2>1, NothingIs
  <2>3. \A v \in Users : dl'[v] = dl[v] \/ ~dl'[v].open BY <1>9, <1>10
  <2> QED BY <2>1, <2>2, <2>3 DEF NothingNew, files
<1> QED BY <1>11, <1>12

\* A download that ends, in what concerns the others and the file.
LEMMA ReturnData ==
  ASSUME TransfersOK, temp \in BOOLEAN, NEW u \in Users, NEW d \in Download, NEW result, Return(u, d, result)
  PROVE  /\ \A v \in Users : v # u => dl'[v] = dl[v]
         /\ temp' = temp \/ (~temp' /\ status = "REMOVED")
         /\ dl'[u].open => /\ d.open /\ dl'[u].seg = d.seg /\ dl'[u].pos = d.pos
                           /\ dl'[u].live = d.live
<1>1. temp' = temp \/ (~temp' /\ status = "REMOVED")
  <2>1. temp' = (temp /\ ~(status = "REMOVED" /\ d.type = "FILE")) BY DEF Return
  <2> QED BY <2>1
<1>2. CASE status = "QUEUED"
  <2> DEFINE e == [d EXCEPT !.result = result]
  <2>1. dl' = [dl EXCEPT ![u] = e] BY <1>2 DEF Return
  <2>2. e.open = d.open /\ e.seg = d.seg /\ e.pos = d.pos /\ e.live = d.live BY DEF Download
  <2> HIDE DEF e
  <2>3. dl'[u] = e /\ \A v \in Users : v # u => dl'[v] = dl[v] BY <2>1 DEF TransfersOK
  <2> QED BY <1>1, <2>2, <2>3
<1>3. CASE status # "QUEUED"
  <2>1. dl' = [dl EXCEPT ![u] = NoDownload] BY <1>3 DEF Return
  <2>2. dl'[u] = NoDownload /\ \A v \in Users : v # u => dl'[v] = dl[v]
    BY <2>1 DEF TransfersOK
  <2> QED BY <1>1, <2>2, NoneOpen
<1> QED BY <1>2, <1>3

\* A download ends and brings nothing.
LEMMA ReturnsNothing ==
  ASSUME TransfersOK, temp \in BOOLEAN, Standing, NEW u \in Users, NEW d \in Download, NEW result,
         Return(u, d, result), OpenIs(u, d), d.type = "FILE" => result # "finished",
         d.open => dl[u].open /\ d.seg = dl[u].seg /\ d.pos = dl[u].pos /\ d.live = dl[u].live,
         done' = done, status' = status, disk' = disk, unlinked' = unlinked
  PROVE  Standing' /\ NothingNew
<1>1. result = "finished" => Ended(u, d) BY DEF Ended
<1>2. Standing' BY <1>1, ReturnStands
<1>3. /\ \A v \in Users : v # u => dl'[v] = dl[v]
      /\ temp' = temp \/ (~temp' /\ status = "REMOVED")
      /\ dl'[u].open => /\ d.open /\ dl'[u].seg = d.seg /\ dl'[u].pos = d.pos
                        /\ dl'[u].live = d.live
  BY ReturnData
<1>4. NothingNew BY <1>3 DEF NothingNew
<1> QED BY <1>2, <1>4

\* The ends of a transfer that bring nothing.
LEMMA EndsNothing ==
  ASSUME Base, Standing, NEW u \in Users,
         \/ FileNotAvailable(u) \/ TreeData(u) \/ Failed(u)
         \/ SND(u) /\ Return(u, [dl[u] EXCEPT !.over = FALSE], "failed")
  PROVE  Standing' /\ NothingNew
<1>1. TransfersOK /\ temp \in BOOLEAN /\ dl[u] \in Download /\ OpenIs(u, dl[u])
  BY DEF Base, FilesOK, TransfersOK, Standing, Stands
<1>2. done' = done /\ status' = status /\ disk' = disk /\ unlinked' = unlinked
  BY DEF FileNotAvailable, TreeData, Failed, SND, queue
<1>3. CASE FileNotAvailable(u)
  <2>1. Return(u, dl[u], "unavailable") BY <1>3 DEF FileNotAvailable
  <2> QED BY <1>1, <1>2, <2>1, ReturnsNothing
<1>4. CASE TreeData(u)
  <2>1. dl[u].type = "TREE" /\ \E r \in {"finished", "failed"} : Return(u, dl[u], r)
    BY <1>4 DEF TreeData
  <2> QED BY <1>1, <1>2, <2>1, ReturnsNothing
<1>5. CASE Failed(u)
  <2>1. Return(u, dl[u], "failed") BY <1>5 DEF Failed
  <2> QED BY <1>1, <1>2, <2>1, ReturnsNothing
<1>6. CASE SND(u) /\ Return(u, [dl[u] EXCEPT !.over = FALSE], "failed")
  <2> DEFINE d == [dl[u] EXCEPT !.over = FALSE]
  <2>1. /\ d \in Download /\ d.open = dl[u].open /\ d.seg = dl[u].seg /\ d.pos = dl[u].pos
        /\ d.live = dl[u].live /\ d.type = dl[u].type /\ d.blk = dl[u].blk
    BY <1>1 DEF Download
  <2>2. Return(u, d, "failed") BY <1>6
  <2> HIDE DEF d
  <2>3. OpenIs(u, d) BY <1>1, <2>1 DEF OpenIs
  <2> QED BY <1>1, <1>2, <2>1, <2>2, <2>3, ReturnsNothing
<1> QED BY <1>3, <1>4, <1>5, <1>6

\* The tree is about to arrive, or is put back.
LEMMA TreeNothing ==
  ASSUME TransfersOK, Standing, NEW u \in Users,
         \/ onTreeDownloadCompleted(u)
         \/ SND(u) /\ dl[u].type = "TREE" /\ conn' = [conn EXCEPT ![u] = "RUNNING"] /\ dl' = dl
              /\ temp' = temp
  PROVE  Standing' /\ NothingNew
<1>1. CASE onTreeDownloadCompleted(u)
  <2>1. /\ dl' = [dl EXCEPT ![u] = NoDownload] /\ conn' = [conn EXCEPT ![u] = "idle"]
        /\ done' = done /\ status' = status /\ files' = files
    BY <1>1 DEF onTreeDownloadCompleted, queue
  <2>2. /\ dl'[u] = NoDownload /\ conn'[u] = "idle"
        /\ \A v \in Users : v # u => dl'[v] = dl[v] /\ conn'[v] = conn[v]
    BY <2>1 DEF TransfersOK
  <2>3. Stands(u, "idle", NoDownload) BY NoneOpen, StandsClosed
  <2>4. Standing' BY <2>2, <2>3, OneStands
  <2>5. \A v \in Users : dl'[v] = dl[v] \/ ~dl'[v].open BY <2>2, NoneOpen
  <2> QED BY <2>1, <2>4, <2>5, NothingNewIs
<1>2. CASE SND(u) /\ dl[u].type = "TREE" /\ conn' = [conn EXCEPT ![u] = "RUNNING"] /\ dl' = dl
             /\ temp' = temp
  <2>1. done' = done /\ status' = status /\ files' = files /\ conn[u] = "SND"
    BY <1>2 DEF SND, queue, files
  <2>2. conn'[u] = "RUNNING" /\ \A v \in Users : v # u => conn'[v] = conn[v]
    BY <1>2 DEF TransfersOK
  <2>3. ~dl[u].open /\ dl[u].pos = 0 /\ ~dl[u].live BY <2>1, ClosedElsewhere
  <2>4. Stands(u, conn'[u], dl'[u]) BY <1>2, <2>3, StandsClosed
  <2>5. Standing' BY <1>2, <2>2, <2>4, OneStands
  <2> QED BY <1>2, <2>1, <2>5, NothingNewIs
<1> QED BY <1>1, <1>2

\* What other threads do to the downloads and the disk.
LEMMA OthersNothing ==
  ASSUME TransfersOK, Standing,
         \/ \E u \in Users : removeFileSource(u)
         \/ \E u \in Users, info \in PartsInfos : addPartialSource(u, info)
         \/ removeQI \/ setBundlePriority
         \/ \E what \in {"bundle", "file"} : Resume(what)
         \/ \E b \in Damaged : Damage(b)
         \/ recheckFiles \/ RecheckValidate \/ RecheckReset \/ RecheckRead \/ RecheckEnd
         \/ RecheckApply /\ status = "REMOVED"
         \/ UNCHANGED vars
  PROVE  Standing' /\ NothingNew
<1>a. ASSUME conn' = conn, dl' = dl PROVE Standing'
  <2>1. \A v \in Users : Stands(v, conn'[v], dl'[v]) BY <1>a DEF Standing
  <2> QED BY <2>1 DEF Standing
<1>b. ASSUME conn' = conn, dl' = dl, files' = files, done' = done, status' = status
      PROVE  Standing' /\ NothingNew
  BY <1>a, <1>b, NothingNewIs
<1>1. CASE \E u \in Users : removeFileSource(u)
  BY <1>b, <1>1 DEF removeFileSource, queue
<1>2. CASE \E u \in Users, info \in PartsInfos : addPartialSource(u, info)
  BY <1>b, <1>2 DEF addPartialSource, transfers
<1>3. CASE removeQI
  <2>1. /\ conn' = conn /\ dl' = dl /\ done' = done /\ status' = "REMOVED" /\ disk' = disk
        /\ unlinked' = unlinked /\ temp' = (temp /\ isRunning)
    BY <1>3 DEF removeQI
  <2>2. NothingNew BY <2>1 DEF NothingNew
  <2> QED BY <1>a, <2>1, <2>2
<1>4. CASE setBundlePriority BY <1>b, <1>4 DEF setBundlePriority
<1>5. CASE \E what \in {"bundle", "file"} : Resume(what)
  BY <1>b, <1>5 DEF Resume, transfers
<1>6. CASE \E b \in Damaged : Damage(b)
  <2>1. /\ conn' = conn /\ dl' = dl /\ done' = done /\ status' = status
        /\ unlinked' = unlinked /\ temp' = temp /\ \E b \in Damaged : disk' = disk \ {b}
    BY <1>6 DEF Damage, queue, transfers
  <2>2. NothingNew BY <2>1 DEF NothingNew
  <2> QED BY <1>a, <2>1, <2>2
<1>7. CASE recheckFiles BY <1>b, <1>7 DEF recheckFiles
<1>8. CASE RecheckValidate \/ RecheckRead \/ RecheckEnd
  BY <1>b, <1>8 DEF RecheckValidate, RecheckRead, RecheckEnd, queue, transfers
<1>9. CASE RecheckReset
  <2>1. conn' = conn /\ dl' = dl /\ status' = status /\ files' = files /\ done' \in {done, {}}
    BY <1>9 DEF RecheckReset, resetDownloaded, transfers
  <2>2. Units(done') \subseteq Units(done) BY <2>1, NothingIs
  <2>3. NothingNew BY <2>1, <2>2 DEF NothingNew, files
  <2> QED BY <1>a, <2>1, <2>3
<1>10. CASE RecheckApply /\ status = "REMOVED"
  <2>1. conn' = conn /\ dl' = dl /\ status' = status /\ files' = files /\ done' = done
    BY <1>10 DEF RecheckApply, files
  <2> QED BY <1>b, <2>1
<1>11. CASE UNCHANGED vars BY <1>b, <1>11 DEF vars, queue, transfers
<1> QED BY <1>1, <1>2, <1>3, <1>4, <1>5, <1>6, <1>7, <1>8, <1>9, <1>10, <1>11

\* Somebody deletes the temporary file: nobody writes to it, or it is noted.
LEMMA DeleteData ==
  ASSUME TransfersOK, Standing, DataRight, DeleteTemp
  PROVE  Standing' /\ DataRight'
<1>1. /\ temp /\ ~temp' /\ conn' = conn /\ done' = done /\ status' = status
      /\ dl' = [u \in Users |-> [dl[u] EXCEPT !.live = FALSE]]
      /\ unlinked' = (unlinked \/ \E u \in Users : dl[u].live)
  BY DEF DeleteTemp, queue
<1>2. \A v \in Users : /\ dl'[v].open = dl[v].open /\ dl'[v].seg = dl[v].seg /\ dl'[v].pos = dl[v].pos
                       /\ dl'[v].type = dl[v].type /\ dl'[v].blk = dl[v].blk
                       /\ dl'[v].result = dl[v].result /\ ~dl'[v].live
  BY <1>1 DEF TransfersOK, Download
<1>3. ASSUME NEW v \in Users PROVE Stands(v, conn'[v], dl'[v])
  <2>1. Stands(v, conn[v], dl[v]) BY DEF Standing
  <2> QED BY <1>1, <1>2, <2>1 DEF Stands, OpenIs, Ended
<1>4. Standing' BY <1>3 DEF Standing
<1>5. OpenApart' BY <1>1, <1>2, ApartStays DEF DataRight, OpenApart
<1>6. Writing' BY <1>1, <1>2 DEF DataRight, Writing
<1>7. status' # "DOWNLOADED" BY <1>1 DEF DataRight, Complete
<1>8. LeavesRight' /\ Complete' BY <1>1, <1>7 DEF LeavesRight, FileExists, Complete
<1> QED BY <1>4, <1>5, <1>6, <1>8 DEF DataRight

-----------------------------------------------------------------------------
(* Leaves.                                                                 *)

\* A leaf lies in the file, and has the units with its number.
LEMMA LeafBounds ==
  ASSUME NEW b \in Leaves
  PROVE  /\ b \in Nat /\ b * BlockSize \in Nat /\ b * BlockSize < Size
         /\ Leaf(b) \in FileSegs /\ Leaf(b).start = b * BlockSize
         /\ getEnd(Leaf(b)) \in {Size, b * BlockSize + BlockSize}
         /\ getEnd(Leaf(b)) <= Size /\ getEnd(Leaf(b)) <= b * BlockSize + BlockSize
         /\ getEnd(Leaf(b)) > b * BlockSize
<1>0. BlockSize \in Nat /\ BlockSize > 0 /\ Size \in Nat /\ Size > 0 BY SegmentAssumption
<1>1. PICK l \in Int : l = (Size - 1) \div BlockSize /\ l * BlockSize <= Size - 1
  <2>1. Size - 1 \in Int BY <1>0
  <2> QED BY <1>0, <2>1, Division
<1>2. b \in Nat /\ b <= l BY <1>1 DEF Leaves
<1>3. b * BlockSize <= l * BlockSize BY <1>0, <1>2, Multiples
<1>4. PICK a \in Nat : a = b * BlockSize /\ a < Size
  <2>1. b * BlockSize \in Int /\ l * BlockSize \in Int BY <1>0, <1>2
  <2>2. 0 <= b * BlockSize BY <1>0, <1>2
  <2> QED BY <1>0, <1>1, <1>3, <2>1, <2>2
<1>5. PICK m \in Int : m = Min({Size - a, BlockSize}) /\ m \in {Size - a, BlockSize}
                       /\ m <= Size - a /\ m <= BlockSize
  <2>1. PICK c \in Int : c = Size - a BY <1>0
  <2>2. Min({c, BlockSize}) \in {c, BlockSize} /\ Min({c, BlockSize}) <= c /\ Min({c, BlockSize}) <= BlockSize
    BY <1>0, MinOfTwo
  <2> QED BY <1>0, <2>1, <2>2
<1>6. Leaf(b) = Segment(a, m) BY <1>4, <1>5 DEF Leaf, blockSegment
<1>7. m >= 1 /\ a + m <= Size /\ a + m \in {Size, a + BlockSize} BY <1>0, <1>4, <1>5
<1>8. a \in Int /\ m \in Int /\ a >= 0 BY <1>4, <1>5
<1>9. /\ Segment(a, m) \in FileSegs /\ Segment(a, m).start = a /\ getEnd(Segment(a, m)) = a + m
  BY <1>7, <1>8, SegmentIs
<1> QED BY <1>0, <1>2, <1>4, <1>5, <1>6, <1>7, <1>8, <1>9

\* The leaf that a unit is in.
LEMMA LeafOfUnit ==
  ASSUME NEW at \in Nat, at < Size, NEW b \in Leaves
  PROVE  at \in UnitsOf(Leaf(b)) <=> b = at \div BlockSize
<1>0. BlockSize \in Nat /\ BlockSize > 0 /\ Size \in Nat BY SegmentAssumption
<1>1. PICK q \in Int : q = at \div BlockSize /\ q * BlockSize <= at /\ at < q * BlockSize + BlockSize
  BY <1>0, Division
<1>2. PICK a \in Nat, e \in Int :
        /\ a = b * BlockSize /\ e = getEnd(Leaf(b)) /\ e \in {Size, a + BlockSize} /\ e <= a + BlockSize
        /\ Leaf(b).start = a /\ b \in Nat /\ Leaf(b) \in FileSegs
  <2>1. getEnd(Leaf(b)) \in Int BY LeafBounds, FileSegsAre
  <2> QED BY <2>1, LeafBounds
<1>3. at \in UnitsOf(Leaf(b)) <=> a <= at /\ at < e BY <1>2, UnitOf
<1>4. ASSUME a <= at, at < e PROVE b = q
  <2>1. (b + 1) * BlockSize = a + BlockSize /\ (q + 1) * BlockSize = q * BlockSize + BlockSize
    BY <1>0, <1>2, Multiples
  <2>2. q * BlockSize \in Int /\ (b + 1) * BlockSize \in Int /\ (q + 1) * BlockSize \in Int
    BY <1>0, <1>2
  <2>3. q * BlockSize < (b + 1) * BlockSize BY <1>0, <1>1, <1>2, <1>4, <2>1, <2>2
  <2>4. b * BlockSize < (q + 1) * BlockSize BY <1>0, <1>1, <1>2, <1>4, <2>1, <2>2
  <2>5. q + 1 <= b + 1 /\ b + 1 <= q + 1
    <3>1. b + 1 \in Int /\ q + 1 \in Int /\ b \in Int BY <1>2
    <3> QED BY <1>0, <2>3, <2>4, <3>1, Multiples
  <2> QED BY <1>2, <2>5
<1>5. ASSUME b = q PROVE a <= at /\ at < e
  <2>1. a = q * BlockSize BY <1>2, <1>5
  <2> QED BY <1>0, <1>1, <1>2, <2>1
<1> QED BY <1>1, <1>3, <1>4, <1>5

\* Where a leaf ends, the units that follow are of another one.
LEMMA LeafEnds ==
  ASSUME NEW at \in Nat, at < Size, NEW b \in Leaves, b = at \div BlockSize,
         at + 1 \notin UnitsOf(Leaf(b))
  PROVE  (at + 1) % BlockSize = 0 \/ at + 1 = Size
<1>0. BlockSize \in Nat /\ BlockSize > 0 /\ Size \in Nat BY SegmentAssumption
<1>1. PICK a \in Nat, e \in Int :
        /\ a = b * BlockSize /\ e = getEnd(Leaf(b)) /\ e \in {Size, a + BlockSize}
        /\ Leaf(b).start = a /\ b \in Nat /\ Leaf(b) \in FileSegs
  <2>1. getEnd(Leaf(b)) \in Int BY LeafBounds, FileSegsAre
  <2> QED BY <2>1, LeafBounds
<1>2. at \in UnitsOf(Leaf(b)) BY LeafOfUnit
<1>3. a <= at /\ at < e BY <1>1, <1>2, UnitOf
<1>4. at + 1 = e BY <1>1, <1>3, UnitOf
<1>5. CASE e = Size BY <1>4, <1>5
<1>6. CASE e = a + BlockSize
  <2>1. (b + 1) * BlockSize = b * BlockSize + BlockSize /\ b + 1 \in Nat BY <1>0, <1>1, Multiples
  <2>2. at + 1 = (b + 1) * BlockSize BY <1>0, <1>1, <1>4, <1>6, <2>1
  <2>3. ((b + 1) * BlockSize) % BlockSize = 0 BY <1>0, <2>1, NoRest
  <2> QED BY <2>2, <2>3
<1> QED BY <1>1, <1>5, <1>6

\* Whole leaves contain a leaf or have nothing of it.
LEMMA LeafInOrOut ==
  ASSUME NEW s \in FileSegs, Aligned(s), NEW b \in Leaves
  PROVE  \/ UnitsOf(Leaf(b)) \subseteq UnitsOf(s)
         \/ UnitsOf(Leaf(b)) \cap UnitsOf(s) = {}
<1>1. /\ b \in Nat /\ b * BlockSize < Size /\ Leaf(b) \in FileSegs /\ Leaf(b).start = b * BlockSize
      /\ getEnd(Leaf(b)) = Size \/ getEnd(Leaf(b)) = b * BlockSize + BlockSize
      /\ getEnd(Leaf(b)) <= b * BlockSize + BlockSize
  BY LeafBounds
<1>2. CASE ~contains(s, Leaf(b))
  <2>1. Apart(Leaf(b), s) BY <1>1, <1>2, LeafApart
  <2> QED BY <1>1, <2>1, UnitsApart
<1>3. CASE contains(s, Leaf(b))
  <2>1. /\ s.start \in Int /\ getEnd(s) \in Int /\ Leaf(b).start \in Int /\ getEnd(Leaf(b)) \in Int
        /\ s.start <= Leaf(b).start /\ getEnd(s) >= getEnd(Leaf(b))
    BY <1>1, <1>3, FileSegsAre DEF contains
  <2> QED BY <1>1, <2>1, UnitOf
<1> QED BY <1>2, <1>3

\* A leaf has a unit.
LEMMA LeafNotEmpty ==
  ASSUME NEW b \in Leaves
  PROVE  UnitsOf(Leaf(b)) # {}
BY LeafBounds, UnitOf

-----------------------------------------------------------------------------
(* Steps that open the file, write to it, and keep what was written.       *)

\* Who has the file open asks for a part of it; while the file is in the queue,
\* that is what the invariant of the work is about.
LEMMA OpenAsks ==
  ASSUME Standing, NEW u \in Users, dl[u].open
  PROVE  /\ OpenIs(u, dl[u]) /\ conn[u] \in {"RUNNING", "putting"}
         /\ dl[u].type = "FILE" /\ dl[u].seg.size > 0 /\ Aligned(dl[u].seg)
         /\ Work /\ status # "REMOVED" => status = "QUEUED" /\ u \in Entries
BY DEF Standing, Stands, OpenIs, Work, AssignedRight

\* What has come is a part of what was asked for.
LEMMA GotAsked ==
  ASSUME TransfersOK, NEW u \in Users
  PROVE  /\ Got(u) \subseteq Ask(u)
         /\ Got(u) # {} => dl[u].open /\ u \notin BadUsers
<1>1. /\ dl[u].seg.start \in Int /\ dl[u].seg.size \in Int /\ dl[u].pos \in Nat
      /\ dl[u].pos > 0 => dl[u].pos <= dl[u].seg.size
      /\ getEnd(dl[u].seg) = dl[u].seg.start + dl[u].seg.size
  BY PositionIs DEF TransfersOK, DownloadIs, Download, getEnd
<1>2. PICK a \in Int, n \in Int, p \in Nat :
        /\ a = dl[u].seg.start /\ n = dl[u].seg.size /\ p = dl[u].pos /\ (p > 0 => p <= n)
        /\ getEnd(dl[u].seg) = a + n
  BY <1>1
<1>3. a..(a + p - 1) \subseteq a..(a + n - 1) BY <1>2
<1>4. Ask(u) = a..(a + n - 1) BY <1>2 DEF Ask, UnitsOf
<1>5. Got(u) \in {a..(a + p - 1), {}} BY <1>2 DEF Got
<1> QED BY <1>3, <1>4, <1>5 DEF Got

\* No bytes, no units.
LEMMA NothingDone ==
  ASSUME Base, ~(getDownloadedBytes(done) > 0)
  PROVE  Units(done) = {}
<1>0. done \subseteq FileSegs /\ Separated(done) /\ TransfersOK BY DEF Base, QueueOK
<1> DEFINE P == UNION {{u} \X (1..dl[u].pos) : u \in ToSet(downloads)}
<1>1. P \subseteq Entries \X (1..Size)
  <2> SUFFICES ASSUME NEW u \in Entries, NEW x \in {u} \X (1..dl[u].pos)
               PROVE  x \in Entries \X (1..Size)
    BY EntriesAre
  <2>1. u \in Users BY <1>0, EntryIsUser
  <2>2. dl[u].pos \in 0..Size BY <1>0, <2>1, PositionIs
  <2> QED BY <2>2, SegmentAssumption
<1>2. Cardinality(P) \in Nat
  <2>1. IsFiniteSet(1..Size) BY FS_Interval, SegmentAssumption
  <2>2. IsFiniteSet(Entries) BY <1>0, EntriesFinite DEF TransfersOK
  <2>3. IsFiniteSet(Entries \X (1..Size)) BY <2>1, <2>2, FS_Product
  <2> HIDE DEF P
  <2> QED BY <1>1, <2>3, FS_Subset, FS_CardinalityType
<1>3. getDownloadedBytes(done) = getDownloadedSegments(done) + Cardinality(P)
  BY DEF getDownloadedBytes
<1>4. getDownloadedSegments(done) = Cardinality(Units(done)) /\ IsFiniteSet(Units(done))
  BY <1>0, SumIsCover, UnitsFinite
<1>5. Cardinality(Units(done)) \in Nat BY <1>4, FS_CardinalityType
<1> HIDE DEF P
<1>6. Cardinality(Units(done)) = 0 BY <1>2, <1>3, <1>4, <1>5
<1> QED BY <1>4, <1>6, FS_EmptySet

\* A download opens the file: if there is none, there was nothing in it.
LEMMA OpensData ==
  ASSUME Base, Work, Standing, DataRight, NEW u \in Users,
         SND(u), dl[u].type = "FILE", open(u), conn' = [conn EXCEPT ![u] = "RUNNING"]
  PROVE  Standing' /\ DataRight'
<1>0. /\ TransfersOK /\ BlockSize > 0 /\ Size > 0 /\ BlockSize \in Nat /\ Size \in Nat
      /\ dl \in [Users -> Download] /\ conn \in [Users -> Conns]
  BY SegmentAssumption DEF Base, TransfersOK
<1>1. /\ conn[u] = "SND" /\ dl[u].seg.size > 0 /\ status # "REMOVED"
      /\ getDownloadedBytes(done) > 0 => temp
      /\ done' = done /\ status' = status /\ disk' = disk /\ unlinked' = unlinked
  BY DEF SND, open, queue
<1>2. PICK l \in BOOLEAN : /\ l = ~SharedHandleGone /\ temp' = (temp \/ l)
                           /\ dl' = [dl EXCEPT ![u] = [@ EXCEPT !.over = FALSE, !.open = TRUE, !.live = l]]
  BY DEF open
<1>3. /\ dl'[u].open /\ dl'[u].live = l /\ dl'[u].seg = dl[u].seg /\ dl'[u].pos = dl[u].pos
      /\ dl'[u].type = dl[u].type /\ dl'[u].blk = dl[u].blk
      /\ conn'[u] = "RUNNING"
      /\ \A v \in Users : v # u => dl'[v] = dl[v] /\ conn'[v] = conn[v]
  BY <1>0, <1>2 DEF Download
<1>4. ~dl[u].open /\ dl[u].pos = 0 BY <1>1, ClosedElsewhere
<1>5. /\ status = "QUEUED" /\ u \in Entries /\ Aligned(dl[u].seg)
      /\ dl[u].blk = BlockSize \/ (dl[u].blk = Size /\ dl[u].seg = Whole)
  BY <1>1 DEF Work, AssignedRight
<1>6. Standing'
  <2>1. OpenIs(u, dl'[u]) BY <1>0, <1>1, <1>3, <1>4, <1>5 DEF OpenIs
  <2>2. Stands(u, conn'[u], dl'[u]) BY <1>3, <2>1 DEF Stands
  <2> QED BY <1>3, <2>2, OneStands
<1>7. \A v \in Users : Ask(v)' = Ask(v) /\ (dl'[v].open => v \in Entries)
  <2> SUFFICES ASSUME NEW v \in Users PROVE Ask(v)' = Ask(v) /\ (dl'[v].open => v \in Entries)
    OBVIOUS
  <2>1. CASE v = u BY <1>3, <1>5, <2>1 DEF Ask
  <2>2. CASE v # u
    <3>1. dl'[v] = dl[v] BY <1>3, <2>2
    <3>2. dl[v].open => v \in Entries BY <1>1, OpenAsks
    <3> QED BY <3>1, <3>2 DEF Ask
  <2> QED BY <2>1, <2>2
<1>8. OpenApart' BY <1>1, <1>7 DEF OpenApart, Work, ApartRight
<1>9. ~unlinked => l BY <1>2 DEF DataRight, Writing, SharedHandleGone
<1>10. Writing'
  <2>1. ASSUME ~unlinked, NEW v \in Users, dl'[v].open PROVE dl'[v].live
    <3>1. CASE v = u BY <1>3, <1>9, <2>1, <3>1
    <3>2. CASE v # u BY <1>3, <2>1, <3>2 DEF DataRight, Writing
    <3> QED BY <3>1, <3>2
  <2>2. ~unlinked => temp' BY <1>2, <1>9
  <2> QED BY <1>1, <2>1, <2>2 DEF Writing
<1>11. \A v \in Users : Got(v)' \subseteq Got(v)
  <2> SUFFICES ASSUME NEW v \in Users PROVE Got(v)' \subseteq Got(v) OBVIOUS
  <2>1. CASE v = u
    <3>1. dl[u].seg.start \in Int BY <1>0, PositionIs
    <3>2. dl[u].seg.start..(dl[u].seg.start + dl[u].pos - 1) = {} BY <1>4, <3>1
    <3> QED BY <1>3, <2>1, <3>2 DEF Got
  <2>2. CASE v # u BY <1>3, <2>2 DEF Got
  <2> QED BY <2>1, <2>2
<1>12. LeavesRight'
  <2> SUFFICES ASSUME ~unlinked, NEW b \in Leaves \ Damaged, Had(b)' PROVE b \in disk
    BY <1>1 DEF LeavesRight
  <2>1. Had(b) BY <1>1, <1>11 DEF Had
  <2>2. CASE temp BY <2>1, <2>2 DEF DataRight, LeavesRight, FileExists
  <2>3. CASE ~temp
    <3>1. Units(done) = {} BY <1>1, <2>3, NothingDone
    <3>2. ASSUME NEW v \in Users PROVE Got(v) = {}
      <4>1. ~dl[v].open BY <1>1, <2>3 DEF DataRight, Writing
      <4> QED BY <4>1 DEF Got
    <3>3. UnitsOf(Leaf(b)) # {} BY LeafNotEmpty
    <3> QED BY <2>1, <3>1, <3>2, <3>3 DEF Had
  <2> QED BY <2>2, <2>3
<1>13. Complete' BY <1>1, <1>5 DEF Complete
<1> QED BY <1>6, <1>8, <1>10, <1>12, <1>13 DEF DataRight

\* A unit arrives: the download goes on or ends, and the others stay.
LEMMA DataSteps ==
  ASSUME Base, Standing, NEW u \in Users, Data(u)
  PROVE  /\ Standing' /\ dl[u].open /\ dl[u].pos < dl[u].seg.size
         /\ done' = done /\ status' = status /\ unlinked' = unlinked
         /\ temp' = temp \/ (~temp' /\ status = "REMOVED")
         /\ \A v \in Users : v # u => dl'[v] = dl[v]
         /\ dl'[u].open => /\ dl'[u].seg = dl[u].seg /\ dl'[u].live = dl[u].live
                           /\ u \notin BadUsers => dl'[u].pos = dl[u].pos + 1
<1> DEFINE d == dl[u]
<1> DEFINE at == d.seg.start + d.pos
<1> DEFINE received == [d EXCEPT !.pos = @ + 1]
<1> DEFINE ends == u \in BadUsers /\ ((at + 1) % d.blk = 0 \/ at + 1 = Size)
<1>0. TransfersOK /\ temp \in BOOLEAN BY DEF Base, FilesOK
<1>1. conn[u] = "RUNNING" /\ d.type = "FILE" /\ d \in Download /\ DownloadIs(conn[u], d)
  BY <1>0 DEF Data, TransfersOK
<1>2. d.open /\ OpenIs(u, d) /\ d.pos < d.seg.size
  BY <1>1 DEF Standing, Stands, DownloadIs
<1>3. done' = done /\ status' = status /\ unlinked' = unlinked BY DEF Data
<1>4. /\ received \in Download /\ received.pos = d.pos + 1 /\ received.type = d.type
      /\ received.seg = d.seg /\ received.blk = d.blk /\ received.open = d.open
      /\ received.live = d.live /\ received.result = d.result
  BY <1>1 DEF Download
<1>5. ~ends => (u \in BadUsers => received.pos < d.blk /\ received.pos # d.seg.size)
  BY <1>0, <1>2, <1>4, BadStops
<1>6. \/ ends /\ Return(u, d, "failed")
      \/ ~ends /\ received.pos = d.seg.size /\ Return(u, received, "finished")
      \/ ~ends /\ dl' = [dl EXCEPT ![u] = received] /\ conn' = conn /\ temp' = temp
  BY DEF Data
<1> HIDE DEF received, ends
<1>7. ~ends => OpenIs(u, received) BY <1>2, <1>4, <1>5 DEF OpenIs
<1>8. CASE ends /\ Return(u, d, "failed")
  <2>1. Standing' BY <1>0, <1>1, <1>2, <1>8, ReturnStands
  <2>2. /\ \A v \in Users : v # u => dl'[v] = dl[v]
        /\ temp' = temp \/ (~temp' /\ status = "REMOVED")
        /\ dl'[u].open => /\ d.open /\ dl'[u].seg = d.seg /\ dl'[u].pos = d.pos
                          /\ dl'[u].live = d.live
    BY <1>0, <1>1, <1>8, ReturnData
  <2>3. u \in BadUsers BY <1>8 DEF ends
  <2> QED BY <1>2, <1>3, <2>1, <2>2, <2>3
<1>9. CASE ~ends /\ received.pos = d.seg.size /\ Return(u, received, "finished")
  <2>1. Ended(u, received) BY <1>2, <1>4, <1>5, <1>9 DEF Ended
  <2>2. Standing' BY <1>0, <1>4, <1>7, <1>9, <2>1, ReturnStands
  <2>3. /\ \A v \in Users : v # u => dl'[v] = dl[v]
        /\ temp' = temp \/ (~temp' /\ status = "REMOVED")
        /\ dl'[u].open => /\ received.open /\ dl'[u].seg = received.seg
                          /\ dl'[u].pos = received.pos /\ dl'[u].live = received.live
    BY <1>0, <1>4, <1>9, ReturnData
  <2> QED BY <1>2, <1>3, <1>4, <2>2, <2>3
<1>10. CASE ~ends /\ dl' = [dl EXCEPT ![u] = received] /\ conn' = conn /\ temp' = temp
  <2>1. dl'[u] = received /\ \A v \in Users : v # u => dl'[v] = dl[v]
    BY <1>0, <1>10 DEF TransfersOK
  <2>2. Stands(u, "RUNNING", received) BY <1>2, <1>4, <1>7, <1>10 DEF Stands
  <2>3. Standing' BY <1>1, <1>10, <2>1, <2>2, OneStands
  <2> QED BY <1>2, <1>3, <1>4, <1>10, <2>1, <2>3
<1> QED BY <1>6, <1>8, <1>9, <1>10

\* The unit that arrives is one that nobody else is asked for, and that is not
\* done.
LEMMA UnitIsNew ==
  ASSUME TransfersOK, OpenApart, NEW u \in Users, dl[u].open, dl[u].pos < dl[u].seg.size,
         OpenIs(u, dl[u])
  PROVE  LET at == dl[u].seg.start + dl[u].pos IN
         /\ at \in Nat /\ at < Size /\ at \notin Units(done)
         /\ \A v \in Users : at \notin Got(v)
<1> DEFINE at == dl[u].seg.start + dl[u].pos
<1>1. dl[u].seg \in FileSegs /\ dl[u].pos \in Nat
  BY DEF TransfersOK, DownloadIs, Download, OpenIs
<1>2. PICK a \in Int, n \in Int, p \in Nat :
        /\ a = dl[u].seg.start /\ n = dl[u].seg.size /\ p = dl[u].pos
        /\ a >= 0 /\ a + n <= Size /\ getEnd(dl[u].seg) = a + n /\ p < n
  BY <1>1, FileSegsAre
<1>3. at = a + p BY <1>2
<1>4. Size \in Nat BY SegmentAssumption
<1> HIDE DEF at
<1>5. at \in Nat /\ at < Size BY <1>2, <1>3, <1>4
<1>6. at \in Ask(u) BY <1>1, <1>2, <1>3, UnitOf DEF Ask
<1>7. ASSUME NEW v \in Users, at \in Got(v) PROVE FALSE
  <2>1. dl[v].open /\ at \in Ask(v) BY <1>7, GotAsked
  <2>2. v = u BY <1>6, <2>1 DEF OpenApart
  <2>3. at \in a..(a + p - 1) BY <1>2, <1>7, <2>2 DEF Got
  <2> QED BY <1>2, <1>3, <2>3
<1>8. at \notin Units(done) BY <1>6 DEF OpenApart
<1> QED BY <1>5, <1>7, <1>8 DEF at

\* With the unit that arrives, a leaf may become one that the download has in
\* full: it is the last of its leaf, and the leaf is written.
LEMMA DataData ==
  ASSUME Base, Work, Standing, DataRight, NEW u \in Users, Data(u)
  PROVE  Standing' /\ DataRight'
<1> DEFINE at == dl[u].seg.start + dl[u].pos
<1> DEFINE leaf == at \div BlockSize
<1>0. TransfersOK BY DEF Base
<1>1. /\ Standing' /\ dl[u].open /\ dl[u].pos < dl[u].seg.size
      /\ done' = done /\ status' = status /\ unlinked' = unlinked
      /\ temp' = temp \/ (~temp' /\ status = "REMOVED")
      /\ \A v \in Users : v # u => dl'[v] = dl[v]
      /\ dl'[u].open => /\ dl'[u].seg = dl[u].seg /\ dl'[u].live = dl[u].live
                        /\ u \notin BadUsers => dl'[u].pos = dl[u].pos + 1
  BY DataSteps
<1>2. OpenIs(u, dl[u]) /\ OpenApart BY <1>1, OpenAsks DEF DataRight
<1>3. /\ at \in Nat /\ at < Size /\ at \notin Units(done)
      /\ \A v \in Users : at \notin Got(v)
  BY <1>0, <1>1, <1>2, UnitIsNew
<1>4. disk' = CASE ~dl[u].live -> disk
                [] dl[u].live /\ u \in BadUsers -> disk \ {leaf}
                [] dl[u].live /\ u \notin BadUsers /\ ((at + 1) % BlockSize = 0 \/ at + 1 = Size)
                     -> disk \cup {leaf}
                [] OTHER -> disk
  BY DEF Data
<1>5. OpenApart'
  <2>1. \A v \in Users : dl'[v].open => dl[v].open /\ dl'[v].seg = dl[v].seg BY <1>1
  <2> QED BY <1>1, <1>2, <2>1, ApartStays DEF OpenApart
<1>6. Writing' BY <1>1 DEF DataRight, Writing
<1>7. status' # "DOWNLOADED" BY <1>1, OpenAsks
<1>8. \A v \in Users : v # u => Got(v)' = Got(v) BY <1>1 DEF Got
<1>9. ASSUME ~unlinked, FileExists', NEW b \in Leaves \ Damaged, Had(b)' PROVE b \in disk'
  <2>1. FileExists BY <1>1, <1>9 DEF FileExists
  <2>2. dl[u].live BY <1>1, <1>9 DEF DataRight, Writing
  <2>3. Had(b) => b \in disk BY <1>9, <2>1 DEF DataRight, LeavesRight
  <2>4. Had(b) => at \notin UnitsOf(Leaf(b)) BY <1>3 DEF Had
  <2>5. CASE Had(b)
    <3>1. b # leaf
      <4>1. b \in Leaves BY <1>9
      <4>2. at \in UnitsOf(Leaf(b)) <=> b = leaf BY <1>3, <4>1, LeafOfUnit
      <4> QED BY <2>4, <2>5, <4>2
    <3> QED BY <1>4, <2>2, <2>3, <2>5, <3>1
  <2>6. CASE ~Had(b)
    <3>1. PICK w \in Users : UnitsOf(Leaf(b)) \subseteq Got(w)' BY <1>1, <1>9, <2>6 DEF Had
    <3>2. w = u BY <1>8, <2>6, <3>1 DEF Had
    <3>3. UnitsOf(Leaf(b)) # {} BY <1>9, LeafNotEmpty
    <3>4. dl'[u].open /\ u \notin BadUsers BY <3>1, <3>2, <3>3 DEF Got
    <3>5. dl'[u].seg = dl[u].seg /\ dl'[u].pos = dl[u].pos + 1 BY <1>1, <3>4
    <3>6. PICK a \in Int, p \in Nat : a = dl[u].seg.start /\ p = dl[u].pos
      BY <1>0, PositionIs
    <3>7. /\ Got(u) = a..(a + p - 1)
          /\ \A x : x \in Got(u)' => x \in a..(a + p) /\ (x = at \/ x \in Got(u))
          /\ at = a + p
      <4>1. Got(u) = a..(a + p - 1) BY <1>1, <3>4, <3>6 DEF Got
      <4>2. Got(u)' = a..(a + (p + 1) - 1) BY <3>4, <3>5, <3>6 DEF Got
      <4>3. at = a + p BY <3>6
      <4> HIDE DEF at
      <4> QED BY <3>6, <4>1, <4>2, <4>3
    <3>8. at \in UnitsOf(Leaf(b)) BY <2>6, <3>1, <3>2, <3>7 DEF Had
    <3>9. b = leaf BY <1>3, <1>9, <3>8, LeafOfUnit
    <3>10. at + 1 \notin UnitsOf(Leaf(b))
      <4> HIDE DEF at
      <4>1. at + 1 \notin a..(a + p) BY <3>6, <3>7
      <4> QED BY <3>1, <3>2, <3>7, <4>1
    <3>11. (at + 1) % BlockSize = 0 \/ at + 1 = Size
      <4>1. b \in Leaves BY <1>9
      <4> HIDE DEF at
      <4> QED BY <1>3, <3>9, <3>10, <4>1, LeafEnds
    <3> QED BY <1>4, <2>2, <3>4, <3>9, <3>11
  <2> QED BY <2>5, <2>6
<1>10. LeavesRight' BY <1>1, <1>9 DEF LeavesRight
<1>11. Complete' BY <1>7 DEF Complete
<1> QED BY <1>1, <1>5, <1>6, <1>10, <1>11 DEF DataRight

\* When a download puts back what it got, nothing is had that was not had before.
LEMMA PutHad ==
  ASSUME Base, OpenApart, NEW u \in Users, ~dl'[u].open,
         \A v \in Users : v # u =>
           dl'[v].open = dl[v].open /\ dl'[v].seg = dl[v].seg /\ dl'[v].pos = dl[v].pos,
         \/ done' = done
         \/ \E sg \in FileSegs : /\ Aligned(sg) /\ UnitsOf(sg) \subseteq Got(u)
                                 /\ addFinishedSegment(sg)
  PROVE  OpenApart' /\ \A b \in Leaves : Had(b)' => Had(b)
<1>0. TransfersOK /\ done \subseteq FileSegs /\ Separated(done) BY DEF Base, QueueOK
<1>1. \A v \in Users : Got(v)' \subseteq Got(v) BY DEF Got
<1>2. CASE done' = done
  <2>1. OpenApart' BY <1>2, ApartStays DEF OpenApart
  <2> QED BY <1>1, <1>2, <2>1 DEF Had
<1>3. ASSUME NEW sg \in FileSegs, Aligned(sg), UnitsOf(sg) \subseteq Got(u), addFinishedSegment(sg)
      PROVE  OpenApart' /\ \A b \in Leaves : Had(b)' => Had(b)
  <2>1. Got(u) \subseteq Ask(u) /\ dl[u].open
    <3>1. Got(u) # {} BY <1>3, UnitOf
    <3> QED BY <1>0, <3>1, GotAsked
  <2>2. ASSUME NEW t \in done PROVE Apart(sg, t)
    <3>1. UnitsOf(t) \subseteq Units(done) BY UnitsAre
    <3>2. UnitsOf(sg) \cap UnitsOf(t) = {} BY <1>3, <2>1, <3>1 DEF OpenApart
    <3>3. t \in FileSegs BY <1>0
    <3> QED BY <3>2, <3>3, UnitsApart
  <2>3. Units(done') = Units(done) \cup UnitsOf(sg)
    <3>1. done' = Consolidate(done, sg).done BY <1>3 DEF addFinishedSegment
    <3> QED BY <1>0, <2>2, <3>1, ConsolidateAdds
  <2>4. OpenApart'
    <3>1. \A v \in Users : dl'[v].open =>
            dl[v].open /\ dl'[v].seg = dl[v].seg /\ Ask(v) \cap Units(done') = {}
      BY <1>3, <2>1, <2>3 DEF OpenApart
    <3> QED BY <3>1, ApartStays
  <2>5. ASSUME NEW b \in Leaves, Had(b)' PROVE Had(b)
    <3>1. CASE UnitsOf(Leaf(b)) \subseteq UnitsOf(sg) BY <1>3, <3>1 DEF Had
    <3>2. CASE UnitsOf(Leaf(b)) \cap UnitsOf(sg) = {} BY <1>1, <2>3, <2>5, <3>2 DEF Had
    <3> QED BY <1>3, <3>1, <3>2, LeafInOrOut
  <2> QED BY <2>4, <2>5
<1> QED BY <1>2, <1>3

\* What is kept of an interrupted download are whole leaves that it got.
LEMMA KeptGot ==
  ASSUME TransfersOK, NEW u \in Users, OpenIs(u, dl[u]), Kept(dl[u]) > 0
  PROVE  LET sg == Segment(dl[u].seg.start, Kept(dl[u])) IN
         sg \in FileSegs /\ Aligned(sg) /\ UnitsOf(sg) \subseteq Got(u)
<1>0. BlockSize \in Nat /\ BlockSize > 0 /\ Size \in Nat /\ Size > 0 BY SegmentAssumption
<1>1. /\ dl[u].seg \in FileSegs /\ Kept(dl[u]) \in Int /\ Kept(dl[u]) <= dl[u].pos
      /\ dl[u].pos <= dl[u].seg.size /\ dl[u].pos \in Nat /\ dl[u].blk \in {BlockSize, Size}
      /\ Segment(dl[u].seg.start, Kept(dl[u])) \in FileSegs
  BY KeptIs DEF TransfersOK, Download
<1>2. PICK a \in Int, n \in Int, p \in Nat, b \in Nat, k \in Int :
        /\ a = dl[u].seg.start /\ n = dl[u].seg.size /\ p = dl[u].pos /\ b = dl[u].blk
        /\ k = Kept(dl[u]) /\ a >= 0 /\ n >= 1 /\ a + n <= Size /\ getEnd(dl[u].seg) = a + n
        /\ b > 0 /\ k >= 1 /\ k <= p /\ p <= n /\ Segment(a, k) \in FileSegs
  <2>1. PICK k \in Int, p \in Nat : k = Kept(dl[u]) /\ p = dl[u].pos /\ k <= p /\ k >= 1
    BY <1>1
  <2>2. PICK a \in Int, n \in Int : /\ a = dl[u].seg.start /\ n = dl[u].seg.size /\ a >= 0 /\ n >= 1
                                    /\ a + n <= Size /\ getEnd(dl[u].seg) = a + n
    BY <1>1, FileSegsAre
  <2>3. PICK b \in Nat : b = dl[u].blk /\ b > 0 BY <1>0, <1>1
  <2>4. p <= n /\ Segment(a, k) \in FileSegs BY <1>1, <2>1, <2>2
  <2> QED BY <2>1, <2>2, <2>3, <2>4
<1>3. /\ dl[u].open /\ Aligned(dl[u].seg)
      /\ u \in BadUsers => p < b
      /\ b = BlockSize \/ (b = Size /\ dl[u].seg = Whole)
  BY <1>2 DEF OpenIs
<1>4. PICK j \in Nat : k = j * b /\ k >= b
  <2>1. k = roundDown(p, b) BY <1>2 DEF Kept
  <2>2. PICK j \in Nat : k = j * b
    <3>1. b > 0 BY <1>2
    <3>2. \E j \in Nat : roundDown(p, b) = j * b BY <3>1, RoundsDown
    <3> QED BY <2>1, <3>2
  <2>3. j # 0 BY <1>2, <2>2
  <2>4. 1 <= j BY <2>3
  <2>5. 1 * b <= j * b /\ 1 * b = b BY <1>2, <2>4, Multiples
  <2>6. k >= b BY <1>2, <2>2, <2>5
  <2> QED BY <2>2, <2>6
<1>5. u \notin BadUsers BY <1>2, <1>3, <1>4
<1>6. Segment(a, k).start = a /\ getEnd(Segment(a, k)) = a + k BY <1>2, SegmentIs
<1>7. Aligned(Segment(a, k))
  <2>1. CASE b = BlockSize
    <3>1. a # Size BY <1>0, <1>2
    <3>2. PICK m \in Nat : a = m * BlockSize BY <1>2, <1>3, <3>1 DEF Aligned, At
    <3>3. a + k = (m + j) * BlockSize /\ m + j \in Nat BY <1>0, <1>4, <2>1, <3>2
    <3> QED BY <1>6, <3>2, <3>3 DEF Aligned, At
  <2>2. CASE b = Size /\ dl[u].seg = Whole
    <3>1. a = 0 /\ n = Size BY <1>2, <2>2, WholeIs
    <3>2. k = Size BY <1>2, <1>4, <2>2, <3>1
    <3>3. Segment(a, k) = Whole BY <3>1, <3>2 DEF Whole
    <3> QED BY <3>3, WholeAligned
  <2> QED BY <1>3, <2>1, <2>2
<1>8. UnitsOf(Segment(a, k)) \subseteq Got(u)
  <2>1. Got(u) = a..(a + p - 1) BY <1>2, <1>3, <1>5 DEF Got
  <2>2. UnitsOf(Segment(a, k)) = a..(a + k - 1) BY <1>6 DEF UnitsOf
  <2>3. k <= p BY <1>2
  <2>4. a..(a + k - 1) \subseteq a..(a + p - 1) BY <2>3
  <2> QED BY <2>1, <2>2, <2>4
<1> QED BY <1>2, <1>7, <1>8

\* A download that failed is put back, and may take the file with it.
LEMMA FailedData ==
  ASSUME Base, Standing, DataRight, NEW u \in Users, onDownloadFailed(u)
  PROVE  Standing' /\ DataRight'
<1>0. TransfersOK /\ temp \in BOOLEAN BY DEF Base, FilesOK
<1>1. /\ status' = status
      /\ temp' = (temp /\ ~DeletesTemp(u))
      /\ unlinked' = (unlinked \/ (DeletesTemp(u) /\ {v \in Users : v # u /\ dl[v].live} # {}))
      /\ disk' = IF DeletesTemp(u) THEN {} ELSE disk
      /\ dl' = [v \in Users |-> IF v = u THEN NoDownload
                                ELSE [dl[v] EXCEPT !.live = @ /\ ~DeletesTemp(u)]]
      /\ \E c \in {"idle", "silent"} : conn' = [conn EXCEPT ![u] = c]
  BY DEF onDownloadFailed, After
<1>2. /\ dl'[u] = NoDownload /\ conn'[u] \in {"idle", "silent"}
      /\ \A v \in Users : v # u =>
           /\ conn'[v] = conn[v]
           /\ dl'[v].open = dl[v].open /\ dl'[v].seg = dl[v].seg /\ dl'[v].pos = dl[v].pos
           /\ dl'[v].type = dl[v].type /\ dl'[v].blk = dl[v].blk
           /\ dl'[v].result = dl[v].result /\ dl'[v].live = (dl[v].live /\ ~DeletesTemp(u))
  <2>1. dl'[u] = NoDownload /\ conn'[u] \in {"idle", "silent"} BY <1>0, <1>1 DEF TransfersOK
  <2>2. ASSUME NEW v \in Users, v # u
        PROVE  /\ conn'[v] = conn[v]
               /\ dl'[v].open = dl[v].open /\ dl'[v].seg = dl[v].seg /\ dl'[v].pos = dl[v].pos
               /\ dl'[v].type = dl[v].type /\ dl'[v].blk = dl[v].blk
               /\ dl'[v].result = dl[v].result /\ dl'[v].live = (dl[v].live /\ ~DeletesTemp(u))
    <3>1. conn'[v] = conn[v] BY <1>0, <1>1, <2>2 DEF TransfersOK
    <3>2. dl'[v] = [dl[v] EXCEPT !.live = @ /\ ~DeletesTemp(u)] BY <1>1, <2>2
    <3>3. dl[v] \in Download BY <1>0 DEF TransfersOK
    <3> QED BY <3>1, <3>2, <3>3 DEF Download
  <2> QED BY <2>1, <2>2
<1>3. Standing'
  <2> SUFFICES ASSUME NEW v \in Users PROVE Stands(v, conn'[v], dl'[v]) BY DEF Standing
  <2>1. CASE v = u BY <1>2, <2>1, NoneOpen, StandsClosed
  <2>2. CASE v # u
    <3>1. Stands(v, conn[v], dl[v]) BY DEF Standing
    <3> QED BY <1>2, <2>2, <3>1 DEF Stands, OpenIs, Ended
  <2> QED BY <2>1, <2>2
<1>4. \/ done' = done
      \/ \E sg \in FileSegs : /\ Aligned(sg) /\ UnitsOf(sg) \subseteq Got(u)
                              /\ addFinishedSegment(sg)
  <2> DEFINE sg == Segment(dl[u].seg.start, Kept(dl[u]))
  <2>1. done' = done \/ (Kept(dl[u]) > 0 /\ addFinishedSegment(sg)) BY DEF onDownloadFailed
  <2>2. OpenIs(u, dl[u]) BY DEF Standing, Stands
  <2>3. Kept(dl[u]) > 0 => sg \in FileSegs /\ Aligned(sg) /\ UnitsOf(sg) \subseteq Got(u)
    BY <1>0, <2>2, KeptGot
  <2> HIDE DEF sg
  <2> QED BY <2>1, <2>3
<1>5. OpenApart' /\ \A b \in Leaves : Had(b)' => Had(b)
  <2>1. ~dl'[u].open BY <1>2, NoneOpen
  <2> QED BY <1>2, <1>4, <2>1, PutHad DEF DataRight
<1>6. CASE ~DeletesTemp(u)
  <2>1. (temp' <=> temp) /\ (unlinked' <=> unlinked) /\ disk' = disk BY <1>1, <1>6
  <2>2. Writing'
    <3> SUFFICES ASSUME ~unlinked', NEW v \in Users, dl'[v].open
                 PROVE  dl'[v].live /\ (status' # "REMOVED" => temp')
      BY DEF Writing
    <3>1. v # u BY <1>2, NoneOpen
    <3>2. dl[v].open /\ (dl'[v].live <=> dl[v].live) BY <1>2, <1>6, <3>1
    <3>3. dl[v].live /\ (status # "REMOVED" => temp) BY <2>1, <3>2 DEF DataRight, Writing
    <3> QED BY <1>1, <2>1, <3>2, <3>3
  <2>3. LeavesRight' BY <1>1, <1>5, <2>1 DEF DataRight, LeavesRight, FileExists
  <2>4. Complete' BY <1>1, <2>1 DEF DataRight, Complete
  <2> QED BY <1>3, <1>5, <2>2, <2>3, <2>4 DEF DataRight
<1>7. CASE DeletesTemp(u)
  <2>1. temp /\ ~temp' BY <1>1, <1>7 DEF DeletesTemp
  <2>2. status' # "DOWNLOADED" BY <1>1, <2>1 DEF DataRight, Complete
  <2>3. LeavesRight' /\ Complete' BY <2>1, <2>2 DEF LeavesRight, FileExists, Complete
  <2>4. Writing'
    <3> SUFFICES ASSUME ~unlinked', NEW v \in Users, dl'[v].open PROVE FALSE BY DEF Writing
    <3>1. v # u /\ dl[v].open BY <1>2, NoneOpen
    <3>2. dl[v].live BY <1>1, <3>1 DEF DataRight, Writing
    <3> QED BY <1>1, <1>7, <3>1, <3>2
  <2> QED BY <1>3, <1>5, <2>3, <2>4 DEF DataRight
<1> QED BY <1>6, <1>7

\* A download that finished has got its segment.
LEMMA EndedGot ==
  ASSUME TransfersOK, NEW u \in Users, OpenIs(u, dl[u]), dl[u].open, dl[u].pos = dl[u].seg.size,
         u \notin BadUsers
  PROVE  dl[u].seg \in FileSegs /\ Aligned(dl[u].seg) /\ UnitsOf(dl[u].seg) \subseteq Got(u)
<1>1. dl[u].seg \in FileSegs /\ Aligned(dl[u].seg)
  BY DEF TransfersOK, DownloadIs, OpenIs
<1>2. PICK a \in Int, n \in Int : a = dl[u].seg.start /\ n = dl[u].seg.size /\ getEnd(dl[u].seg) = a + n
  BY <1>1, FileSegsAre
<1>3. Got(u) = a..(a + n - 1) BY <1>2 DEF Got
<1>4. UnitsOf(dl[u].seg) = a..(a + n - 1) BY <1>2 DEF UnitsOf
<1> QED BY <1>1, <1>3, <1>4

\* A segment is done; with the last one the file is, and all of it was had.
LEMMA CompletedData ==
  ASSUME Base, QueueOK', Work, Standing, DataRight, NEW u \in Users, onFileDownloadCompleted(u)
  PROVE  Standing' /\ DataRight'
<1> DEFINE whole == segmentsDone(Consolidate(done, dl[u].seg).done)
<1>0. TransfersOK /\ temp \in BOOLEAN BY DEF Base, FilesOK
<1>1. /\ conn[u] = "putting" /\ dl[u].result = "finished" /\ dl[u].type = "FILE"
      /\ addFinishedSegment(dl[u].seg) /\ done' = Consolidate(done, dl[u].seg).done
      /\ status' = IF whole /\ status = "QUEUED" THEN "DOWNLOADED" ELSE status
      /\ temp' = (temp /\ ~whole) /\ disk' = disk /\ unlinked' = unlinked
      /\ dl' = [dl EXCEPT ![u] = NoDownload] /\ conn' = [conn EXCEPT ![u] = "idle"]
  BY DEF onFileDownloadCompleted, addFinishedSegment
<1>2. /\ dl'[u] = NoDownload /\ conn'[u] = "idle"
      /\ \A v \in Users : v # u => dl'[v] = dl[v] /\ conn'[v] = conn[v]
  BY <1>0, <1>1 DEF TransfersOK
<1>3. ~dl'[u].open BY <1>2, NoneOpen
<1> HIDE DEF whole
<1>4. Standing'
  <2>1. Stands(u, "idle", NoDownload) BY NoneOpen, StandsClosed
  <2> QED BY <1>2, <2>1, OneStands
<1>5. OpenIs(u, dl[u]) /\ dl[u].open /\ dl[u].pos = dl[u].seg.size /\ u \notin BadUsers
  BY <1>1 DEF Standing, Stands, Ended
<1>6. dl[u].seg \in FileSegs /\ Aligned(dl[u].seg) /\ UnitsOf(dl[u].seg) \subseteq Got(u)
  BY <1>0, <1>5, EndedGot
<1>7. OpenApart' /\ \A b \in Leaves : Had(b)' => Had(b)
  BY <1>1, <1>2, <1>3, <1>6, PutHad DEF DataRight
<1>8. \A v \in Users : dl'[v].open => dl[v].open /\ dl'[v] = dl[v] BY <1>2, <1>3
<1>9. CASE status = "REMOVED"
  <2>1. status' = "REMOVED" /\ (temp' => temp) BY <1>1, <1>9
  <2>2. Writing' BY <1>1, <1>8, <2>1 DEF DataRight, Writing
  <2>3. LeavesRight' /\ Complete'
    BY <1>1, <1>7, <2>1 DEF DataRight, LeavesRight, FileExists, Complete
  <2> QED BY <1>4, <1>7, <2>2, <2>3 DEF DataRight
<1>10. CASE status # "REMOVED"
  <2>1. /\ status = "QUEUED" /\ status' = IF segmentsDone(done') THEN "DOWNLOADED" ELSE "QUEUED"
    BY <1>0, <1>10, CompletedRight
  <2>2. whole <=> segmentsDone(done') BY <1>1 DEF whole
  <2>3. ~unlinked => temp /\ FileExists BY <1>5, <1>10 DEF DataRight, Writing, FileExists
  <2>4. ASSUME ~unlinked, NEW b \in Leaves \ Damaged, Had(b)' PROVE b \in disk
    <3>1. Had(b) BY <1>7, <2>4
    <3> QED BY <2>3, <2>4, <3>1 DEF DataRight, LeavesRight
  <2>5. LeavesRight' BY <1>1, <2>4 DEF LeavesRight
  <2>6. CASE ~segmentsDone(done')
    <3>1. status' = "QUEUED" /\ temp' = temp BY <1>0, <1>1, <2>1, <2>2, <2>6
    <3>2. Writing' BY <1>1, <1>8, <1>10, <3>1 DEF DataRight, Writing
    <3>3. Complete' BY <3>1 DEF Complete
    <3> QED BY <1>4, <1>7, <2>5, <3>2, <3>3 DEF DataRight
  <2>7. CASE segmentsDone(done')
    <3>1. status' = "DOWNLOADED" /\ ~temp' BY <1>1, <2>1, <2>2, <2>7
    <3>2. Units(done') = 0..(Size - 1) BY <2>7, WholeIs DEF segmentsDone, Whole
    <3>3. ASSUME ~unlinked, NEW b \in Leaves \ Damaged PROVE b \in disk
      <4>1. UnitsOf(Leaf(b)) \subseteq 0..(Size - 1) BY LeafBounds, UnitOf
      <4>2. Had(b)' BY <3>2, <4>1 DEF Had
      <4> QED BY <2>4, <3>3, <4>2
    <3>4. Complete' BY <1>1, <3>1, <3>3 DEF Complete
    <3>5. ASSUME NEW v \in Users, dl'[v].open PROVE FALSE
      <4>1. dl[v].open /\ dl'[v] = dl[v] BY <1>8, <3>5
      <4>2. dl[v].seg.size > 0 BY <4>1, OpenAsks
      <4>3. Ask(v) # {} /\ Ask(v) \subseteq 0..(Size - 1) BY <1>0, <4>2, AskIs
      <4>4. Ask(v)' = Ask(v) BY <4>1 DEF Ask
      <4> QED BY <1>7, <3>2, <3>5, <4>3, <4>4 DEF OpenApart
    <3>6. Writing' BY <3>5 DEF Writing
    <3> QED BY <1>4, <1>7, <2>5, <3>4, <3>6 DEF DataRight
  <2> QED BY <2>6, <2>7
<1> QED BY <1>9, <1>10

\* What a recheck finds is applied to a file that is downloaded.
LEMMA ApplyData ==
  ASSUME Base, TransfersOK', Work, Standing, DataRight, status # "REMOVED", RecheckApply
  PROVE  Standing' /\ DataRight'
<1>0. temp \in BOOLEAN BY DEF Base, FilesOK
<1>1. /\ status = "DOWNLOADED" /\ status' = IF segmentsDone(done') THEN "DOWNLOADED" ELSE "QUEUED"
  BY ApplyWork
<1>2. /\ done' = Compared.done /\ dl' = dl /\ conn' = conn /\ disk' = disk /\ unlinked' = unlinked
      /\ \E right \in BOOLEAN : temp' = ((temp /\ ~right) \/ (status = "DOWNLOADED" /\ ~segmentsDone(Compared.done)))
  BY DEF RecheckApply
<1>3. ASSUME NEW v \in Users, dl[v].open PROVE FALSE BY <1>1, <1>3, OpenAsks
<1>4. Standing'
  <2>1. \A v \in Users : Stands(v, conn'[v], dl'[v]) BY <1>2 DEF Standing
  <2> QED BY <2>1 DEF Standing
<1>5. OpenApart' /\ Writing' BY <1>2, <1>3 DEF OpenApart, Writing
<1>6. ~temp /\ (~unlinked => Leaves \ Damaged \subseteq disk) BY <1>1 DEF DataRight, Complete
<1>7. LeavesRight' BY <1>2, <1>6 DEF LeavesRight
<1>8. Complete'
  <2>1. status' = "DOWNLOADED" => ~temp' BY <1>1, <1>2, <1>6
  <2> QED BY <1>2, <1>6, <2>1 DEF Complete
<1> QED BY <1>4, <1>5, <1>7, <1>8 DEF DataRight

\* At first nothing is there.
LEMMA DataInit ==
  ASSUME Init
  PROVE  Standing /\ DataRight
<1>1. /\ \A u \in Users : conn[u] = "idle" /\ dl[u] = NoDownload
      /\ status = "QUEUED" /\ ~temp
  BY DEF Init
<1>2. Standing BY <1>1, NoneOpen, StandsClosed DEF Standing
<1>3. OpenApart /\ Writing BY <1>1, NoneOpen DEF OpenApart, Writing
<1>4. LeavesRight /\ Complete BY <1>1 DEF LeavesRight, FileExists, Complete
<1> QED BY <1>2, <1>3, <1>4 DEF DataRight

\* Every step keeps the data right.
LEMMA DataStep ==
  ASSUME ~OverlapSlow, Base, Base', Work, Standing, DataRight, [Next]_vars
  PROVE  Standing' /\ DataRight'
<1>0. TransfersOK /\ QueueOK' /\ TransfersOK' BY DEF Base
<1>a. ASSUME Standing', NothingNew PROVE Standing' /\ DataRight' BY <1>a, NothingNewRight
<1>1. ASSUME NEW u \in Users, Connection(u) PROVE Standing' /\ DataRight'
  <2>1. CASE startDownload(u) \/ NoNeededPart(u) \/ Requesting(u) \/ FailedIdle(u)
    BY <1>0, <1>a, <2>1, MovesNothing
  <2>2. CASE getDownload(u) BY <1>a, <2>2, AssignsNothing
  <2>3. CASE FileNotAvailable(u) \/ TreeData(u) \/ Failed(u) BY <1>a, <2>3, EndsNothing
  <2>4. CASE SND(u)
    <3>1. CASE dl[u].type = "TREE" /\ conn' = [conn EXCEPT ![u] = "RUNNING"] /\ dl' = dl
                /\ temp' = temp
      BY <1>0, <1>a, <2>4, <3>1, TreeNothing
    <3>2. CASE dl[u].type = "FILE" /\ open(u) /\ conn' = [conn EXCEPT ![u] = "RUNNING"]
      BY <2>4, <3>2, OpensData
    <3>3. CASE Return(u, [dl[u] EXCEPT !.over = FALSE], "failed")
      BY <1>a, <2>4, <3>3, EndsNothing
    <3> QED BY <2>4, <3>1, <3>2, <3>3 DEF SND
  <2>5. CASE Data(u) BY <2>5, DataData
  <2>6. CASE onDownloadFailed(u) BY <2>6, FailedData
  <2>7. CASE onTreeDownloadCompleted(u) BY <1>0, <1>a, <2>7, TreeNothing
  <2>8. CASE onFileDownloadCompleted(u) BY <1>0, <2>8, CompletedData
  <2> QED BY <1>1, <2>1, <2>2, <2>3, <2>4, <2>5, <2>6, <2>7, <2>8 DEF Connection
<1>2. CASE DeleteTemp BY <1>0, <1>2, DeleteData
<1>3. CASE RecheckApply /\ status # "REMOVED" BY <1>0, <1>3, ApplyData
<1>4. CASE \/ \E u \in Users : removeFileSource(u)
           \/ \E u \in Users, info \in PartsInfos : addPartialSource(u, info)
           \/ removeQI \/ setBundlePriority
           \/ \E what \in {"bundle", "file"} : Resume(what)
           \/ \E b \in Damaged : Damage(b)
           \/ recheckFiles \/ RecheckValidate \/ RecheckReset \/ RecheckRead \/ RecheckEnd
           \/ RecheckApply /\ status = "REMOVED"
           \/ UNCHANGED vars
  BY <1>0, <1>a, <1>4, OthersNothing
<1> QED BY <1>1, <1>2, <1>3, <1>4 DEF Next, Recheck

\* A leaf inside a done segment counts as done.
LEMMA DataMeans ==
  ASSUME Base, DataRight
  PROVE  DoneIsRight
<1> SUFFICES ASSUME FileExists, ~unlinked, NEW b \in LeavesIn(done) \ Damaged PROVE b \in disk
  BY DEF DoneIsRight
<1>1. b \in Leaves \ Damaged /\ inSet(Leaf(b), done) BY DEF LeavesIn
<1>2. PICK t \in done : contains(t, Leaf(b)) BY <1>1 DEF inSet
<1>3. t \in FileSegs /\ Leaf(b) \in FileSegs BY <1>1, LeafBounds DEF Base, QueueOK
<1>4. /\ t.start \in Int /\ getEnd(t) \in Int /\ Leaf(b).start \in Int /\ getEnd(Leaf(b)) \in Int
      /\ t.start <= Leaf(b).start /\ getEnd(t) >= getEnd(Leaf(b))
  BY <1>2, <1>3, FileSegsAre DEF contains
<1>5. UnitsOf(Leaf(b)) \subseteq UnitsOf(t) BY <1>3, <1>4, UnitOf
<1>6. UnitsOf(t) \subseteq Units(done) BY UnitsAre
<1>7. Had(b) BY <1>5, <1>6 DEF Had
<1> QED BY <1>1, <1>7 DEF DataRight, LeavesRight

\* When slow sources are not overlapped and only finished files are checked,
\* whatever counts as done is right in the file: block hashes, not trust in the
\* sources, decide what an interrupted download keeps, and neither its end, that
\* of others, a file that is deleted nor a recheck makes more of it.
THEOREM DataStaysRight ==
  ASSUME ~OverlapSlow, ~RecheckUnfinished
  PROVE  Spec => []DoneIsRight
<1> DEFINE IInv == Base /\ Work /\ Standing /\ DataRight
<1>1. Init => IInv BY BaseInit, WorkInit, DataInit
<1>2. IInv /\ [Next]_vars => IInv' BY BaseStep, WorkStep, DataStep
<1>3. IInv => DoneIsRight BY DataMeans
<1> QED BY <1>1, <1>2, <1>3, PTL DEF Spec

-----------------------------------------------------------------------------
(* The refinement of SegmentedDownload.                                    *)

\* What the abstract specification sees: what is had,
Have == IF status = "REMOVED" THEN {} ELSE Units(done)
\* and what each source has been asked for.
Asked == [u \in Users |-> IF status = "QUEUED" THEN Ask(u) ELSE {}]

\* The units of a set of one segment.
LEMMA UnitsOne ==
  ASSUME NEW s
  PROVE  Units({s}) = UnitsOf(s)
<1>1. \A x : x \in Units({s}) <=> x \in UnitsOf(s) BY UnitsAre
<1> QED BY <1>1

\* The refinement mapping, in these terms.
GivenRight == Given = Asked

\* It holds before a step,
LEMMA GivenIs == Base /\ Work => GivenRight
<1> SUFFICES ASSUME Base, Work PROVE Given = Asked BY DEF GivenRight
<1>1. ASSUME NEW u \in Users PROVE Given[u] = Asked[u]
  <2>1. Given[u] = IF status # "REMOVED" /\ u \in Entries THEN Ask(u) ELSE {}
    BY UnitsOne, EntriesAre DEF Given, Ask
  <2>2. CASE status = "REMOVED" BY <2>1, <2>2 DEF Asked
  <2>3. CASE status # "REMOVED"
    <3>1. AssignedRight(u) /\ TransfersOK BY <2>3 DEF Work, Base
    <3>2. Ask(u) # {} => u \in Entries /\ status = "QUEUED" BY <3>1, AskIs DEF AssignedRight
    <3> QED BY <2>1, <2>3, <3>2 DEF Asked
  <2> QED BY <2>2, <2>3
<1> QED BY <1>1 DEF Given, Asked

\* and after it.
LEMMA GivenNext == Base' /\ Work' => GivenRight'
BY GivenIs, PTL

\* Steps that the abstract specification does not see.
LEMMA StutterMaps ==
  ASSUME GivenRight, GivenRight', status' = status,
         status # "REMOVED" => Units(done') = Units(done),
         status = "QUEUED" => \A v \in Users : Ask(v)' = Ask(v)
  PROVE  UNCHANGED Abstract!vars
<1>1. Asked' = Asked BY DEF GivenRight, Asked
<1>2. Have' = Have BY DEF Have
<1> QED BY <1>1, <1>2 DEF GivenRight, Abstract!vars, Have

\* A connection is given a part of the file that nobody has or has been given.
LEMMA GiveMaps ==
  ASSUME GivenRight, GivenRight', NEW u \in Users, status = "QUEUED", status' = "QUEUED",
         Ask(u) = {}, \A v \in Users : v # u => Ask(v)' = Ask(v) /\ Ask(u)' \cap Ask(v) = {},
         Ask(u)' # {}, Ask(u)' \subseteq 0..(Size - 1),
         Units(done') \in {Units(done), {}}, Ask(u)' \cap Units(done') = {}
  PROVE  Abstract!Give(u)
<1>1. Given[u] = {} /\ Given' = [Given EXCEPT ![u] = Ask(u)'] BY DEF GivenRight, Asked
<1>2. \A v \in Users : Ask(u)' \cap Given[v] = {} BY DEF GivenRight, Asked
<1>3. Have' \in {Have, {}} /\ Ask(u)' \ Have' # {} BY DEF Have
<1> QED BY <1>1, <1>2, <1>3 DEF Abstract!Give, Have

\* A connection brings what it was given, or a part of it.
LEMMA TakeMaps ==
  ASSUME GivenRight, GivenRight', NEW u \in Users, status = "QUEUED", status' = "QUEUED",
         Ask(u) # {}, Ask(u)' = {}, \A v \in Users : v # u => Ask(v)' = Ask(v),
         NEW S \in SUBSET Ask(u), Units(done') = Units(done) \cup S
  PROVE  Abstract!Take(u)
<1>1. Given[u] = Ask(u) /\ Given' = [Given EXCEPT ![u] = {}] BY DEF GivenRight, Asked
<1>2. Have' = Have \cup S BY DEF Have
<1> QED BY <1>1, <1>2 DEF Abstract!Take, Have

\* The last part completes the file.
LEMMA FinishMaps ==
  ASSUME GivenRight, GivenRight', NEW u \in Users, status = "QUEUED", status' = "DOWNLOADED",
         Units(done) # 0..(Size - 1), Units(done) \cup Ask(u) = 0..(Size - 1),
         Units(done') = 0..(Size - 1)
  PROVE  Abstract!Finish(u)
<1>1. Given[u] = Ask(u) /\ Given' = [v \in Users |-> {}] BY DEF GivenRight, Asked
<1> QED BY <1>1 DEF Abstract!Finish, Abstract!Nobody, Have

\* A file that is removed stays so.
LEMMA RemovedMaps ==
  ASSUME GivenRight, GivenRight', status = "REMOVED", status' = "REMOVED"
  PROVE  UNCHANGED Abstract!vars
BY StutterMaps

\* The file is removed.
LEMMA RemoveMaps ==
  ASSUME GivenRight', status # "REMOVED", status' = "REMOVED"
  PROVE  Abstract!Remove
<1>1. Given' = [v \in Users |-> {}] BY DEF GivenRight, Asked
<1> QED BY <1>1 DEF Abstract!Remove, Abstract!Nobody, Have

-----------------------------------------------------------------------------
(* Each step of the queue is one of the abstract specification, or none. *)

\* What is not asked for is nothing.
LEMMA NotAsked ==
  ASSUME TransfersOK, NEW u \in Users, ~(dl[u].seg.size > 0)
  PROVE  Ask(u) = {}
BY AskIs

\* The same after a step.
LEMMA NotAskedNext ==
  ASSUME TransfersOK', NEW u \in Users, ~(dl'[u].seg.size > 0)
  PROVE  Ask(u)' = {}
<1>1. /\ dl'[u].seg.start \in Int /\ dl'[u].seg.size \in Int
      /\ getEnd(dl'[u].seg) = dl'[u].seg.start + dl'[u].seg.size
  BY DEF TransfersOK, Download, getEnd
<1> QED BY <1>1 DEF Ask, UnitsOf

\* Steps that bring nothing are not seen.
LEMMA QuietMaps ==
  ASSUME GivenRight, GivenRight', Unasked
  PROVE  UNCHANGED Abstract!vars
<1>1. status = "QUEUED" => \A v \in Users : Ask(v)' = Ask(v) BY DEF Unasked, Ask
<1>2. status' = status /\ Units(done') = Units(done) BY DEF Unasked
<1> QED BY <1>1, <1>2, StutterMaps

\* getDownload gives, or loses what was had, or is not seen.
LEMMA AssignMaps ==
  ASSUME ~OverlapSlow, Base, Base', Work, Work', GivenRight, GivenRight', status # "REMOVED",
         NEW u \in Users, getDownload(u)
  PROVE  [Abstract!Next]_(Abstract!vars)
<1>0. /\ TransfersOK /\ TransfersOK' /\ AssignedRight(u) BY DEF Base, Work
<1>1. /\ status = "QUEUED" /\ u \notin Entries
      /\ \A v \in Users : v # u => dl'[v] = dl[v]
      /\ done' \in {done, {}}
      /\ dl'[u].seg.size > 0 => dl'[u].seg \in FileSegs
  BY AssignsRight
<1>2. status' = "QUEUED" /\ downloads' = Append(downloads, u) BY <1>1 DEF getDownload
<1>3. \A v : v \in Entries' <=> v \in Entries \/ v = u BY <1>0, <1>2, EntryAppended
<1>4. Ask(u) = {} BY <1>0, <1>1, NotAsked DEF AssignedRight
<1>5. \A v \in Users : v # u => Ask(v)' = Ask(v) BY <1>1 DEF Ask
<1>6. Units(done') \in {Units(done), {}} BY <1>1, NothingIs
<1>7. CASE dl'[u].seg.size > 0
  <2>1. Ask(u)' # {} /\ Ask(u)' \subseteq 0..(Size - 1)
    <3>1. Ask(u)' = UnitsOf(dl'[u].seg) BY DEF Ask
    <3>2. dl'[u].seg \in FileSegs BY <1>1, <1>7
    <3> QED BY <3>1, <3>2, UnitOf
  <2>2. ApartRight' BY <1>2 DEF Work
  <2>3. Ask(u)' \cap Units(done') = {} BY <1>3, <2>2 DEF ApartRight
  <2>4. ASSUME NEW v \in Users, v # u PROVE Ask(u)' \cap Ask(v) = {}
    <3>1. CASE v \in Entries'
      <4>1. Ask(u)' \cap Ask(v)' = {} BY <1>3, <2>2, <2>4, <3>1 DEF ApartRight
      <4> QED BY <1>5, <2>4, <4>1
    <3>2. CASE v \notin Entries'
      <4>1. v \notin Entries /\ AssignedRight(v) BY <1>3, <3>2 DEF Work
      <4> QED BY <1>0, <4>1, NotAsked DEF AssignedRight
    <3> QED BY <3>1, <3>2
  <2>5. Abstract!Give(u) BY <1>1, <1>2, <1>4, <1>5, <1>6, <2>1, <2>3, <2>4, GiveMaps
  <2> QED BY <2>5 DEF Abstract!Next
<1>8. CASE ~(dl'[u].seg.size > 0)
  <2>1. Ask(u)' = {} BY <1>0, <1>8, NotAskedNext
  <2>2. \A v \in Users : Ask(v)' = Ask(v) BY <1>4, <1>5, <2>1
  <2>3. CASE Units(done') = Units(done) BY <1>1, <1>2, <2>2, <2>3, StutterMaps
  <2>4. CASE Units(done') # Units(done)
    <3>1. Units(done') = {} /\ Units(done) # {} BY <1>6, <2>4
    <3>2. Given' = Given BY <1>1, <1>2, <2>2 DEF GivenRight, Asked
    <3>3. Abstract!Lose BY <1>1, <1>2, <3>1, <3>2 DEF Abstract!Lose
    <3> QED BY <3>3 DEF Abstract!Next
  <2> QED BY <2>3, <2>4
<1> QED BY <1>7, <1>8

\* A download that comes back with a part of its segment takes it.
LEMMA BackMaps ==
  ASSUME Base, Base', Work, GivenRight, GivenRight', status # "REMOVED", NEW u \in Users,
         onDownloadFailed(u) \/ onTreeDownloadCompleted(u)
  PROVE  [Abstract!Next]_(Abstract!vars)
<1>0. /\ QueueOK /\ TransfersOK /\ TransfersOK' /\ DoneRight /\ AssignedRight(u) BY DEF Base, Work
<1>1. /\ conn[u] = "putting" /\ status' = status
      /\ dl'[u] = NoDownload /\ \A v \in Users : v # u => Same(dl'[v], dl[v])
      /\ \/ done' = done
         \/ /\ dl[u].type = "FILE" /\ dl[u].result # "finished" /\ Kept(dl[u]) > 0
            /\ addFinishedSegment(Segment(dl[u].seg.start, Kept(dl[u])))
  BY <1>0, BackLeaves
<1>2. \A v \in Users : v # u => Ask(v)' = Ask(v) BY <1>1 DEF Same, Ask
<1>3. Ask(u)' = {} BY <1>0, <1>1, NoDownloadIs, NotAskedNext
<1>4. \E S \in SUBSET Ask(u) : Units(done') = Units(done) \cup S
  <2>1. CASE done' = done
    <3>1. Units(done') = Units(done) \cup {} /\ {} \in SUBSET Ask(u) BY <2>1
    <3> QED BY <3>1
  <2>2. CASE /\ dl[u].type = "FILE" /\ dl[u].result # "finished" /\ Kept(dl[u]) > 0
             /\ addFinishedSegment(Segment(dl[u].seg.start, Kept(dl[u])))
    <3> DEFINE sg == Segment(dl[u].seg.start, Kept(dl[u]))
    <3>1. /\ sg \in FileSegs /\ Aligned(sg) /\ UnitsOf(sg) \subseteq Ask(u)
          /\ \A t \in done : Apart(sg, t)
      BY <1>1, <2>2, KeptRight
    <3>2. addFinishedSegment(sg) BY <2>2
    <3> HIDE DEF sg
    <3>3. Units(done') = Units(done) \cup UnitsOf(sg) BY <1>0, <3>1, <3>2, SegmentJoins
    <3> QED BY <3>1, <3>3
  <2> QED BY <1>1, <2>1, <2>2
<1>5. CASE Ask(u) = {}
  <2>1. \A v \in Users : Ask(v)' = Ask(v) BY <1>2, <1>3, <1>5
  <2>2. Units(done') = Units(done) BY <1>4, <1>5
  <2> QED BY <1>1, <2>1, <2>2, StutterMaps
<1>6. CASE Ask(u) # {}
  <2>1. status = "QUEUED" BY <1>0, <1>6, NotAsked DEF AssignedRight
  <2>2. Abstract!Take(u) BY <1>1, <1>2, <1>3, <1>4, <1>6, <2>1, TakeMaps
  <2> QED BY <2>2 DEF Abstract!Next
<1> QED BY <1>5, <1>6

\* One that comes back with all of it takes it or finishes the file.
LEMMA CompletedMaps ==
  ASSUME Base, Base', Work, GivenRight, GivenRight', status # "REMOVED", NEW u \in Users,
         onFileDownloadCompleted(u)
  PROVE  [Abstract!Next]_(Abstract!vars)
<1>0. /\ QueueOK /\ QueueOK' /\ TransfersOK /\ TransfersOK' /\ ApartRight BY DEF Base, Work
<1>1. /\ status = "QUEUED" /\ u \in Entries /\ dl[u].seg.size > 0
      /\ Units(done') = Units(done) \cup Ask(u)
      /\ status' = IF segmentsDone(done') THEN "DOWNLOADED" ELSE "QUEUED"
  BY <1>0, CompletedRight
<1>2. dl'[u] = NoDownload /\ \A v \in Users : v # u => dl'[v] = dl[v]
  BY <1>0 DEF onFileDownloadCompleted, TransfersOK
<1>3. Ask(u)' = {} BY <1>0, <1>2, NoDownloadIs, NotAskedNext
<1>4. \A v \in Users : v # u => Ask(v)' = Ask(v) BY <1>2 DEF Ask
<1>5. Ask(u) # {} BY <1>0, <1>1, AskIs
<1>6. CASE segmentsDone(done')
  <2>1. Units(done') = 0..(Size - 1) BY <1>6, WholeIs DEF segmentsDone, Whole
  <2>2. Units(done) # 0..(Size - 1)
    <3>1. Ask(u) \subseteq 0..(Size - 1) BY <1>0, <1>1, AskIs
    <3>2. Ask(u) \cap Units(done) = {} BY <1>0, <1>1 DEF ApartRight
    <3> QED BY <1>5, <3>1, <3>2
  <2>3. Abstract!Finish(u) BY <1>1, <1>6, <2>1, <2>2, FinishMaps
  <2> QED BY <2>3 DEF Abstract!Next
<1>7. CASE ~segmentsDone(done')
  <2>1. Abstract!Take(u) BY <1>1, <1>3, <1>4, <1>5, <1>7, TakeMaps
  <2> QED BY <2>1 DEF Abstract!Next
<1> QED BY <1>6, <1>7

\* Dropping the done segments is doubt,
LEMMA ResetMaps ==
  ASSUME Base, Work, GivenRight, GivenRight', status # "REMOVED", RecheckReset
  PROVE  [Abstract!Next]_(Abstract!vars)
<1>1. /\ check.phase = "validated" /\ status' = status /\ transfers' = transfers
      /\ done' = {} \/ done' = done
  BY DEF RecheckReset, resetDownloaded
<1>2. status = "DOWNLOADED"
  <2>1. PhaseRight /\ status \in {"QUEUED", "DOWNLOADED"} BY DEF Work, Base, QueueOK
  <2> QED BY <1>1, <2>1 DEF PhaseRight
<1>3. CASE done' = done BY <1>1, <1>2, <1>3, StutterMaps
<1>4. CASE done' = {}
  <2>1. Given' = Given BY <1>1, <1>2 DEF GivenRight, Asked
  <2>2. Abstract!Doubt BY <1>1, <1>2, <1>4, <2>1, NothingIs DEF Abstract!Doubt
  <2> QED BY <2>2 DEF Abstract!Next
<1> QED BY <1>1, <1>3, <1>4

\* and adding those that are right is verification.
LEMMA ApplyMaps ==
  ASSUME Base, Base', Work, GivenRight, GivenRight', status # "REMOVED", RecheckApply
  PROVE  [Abstract!Next]_(Abstract!vars)
<1>0. QueueOK' /\ TransfersOK' BY DEF Base
<1>1. /\ Work' /\ status = "DOWNLOADED" /\ done = {} /\ Entries' = {}
      /\ status' = IF segmentsDone(done') THEN "DOWNLOADED" ELSE "QUEUED"
  BY <1>0, ApplyWork
<1>2. done' \subseteq FileSegs /\ Separated(done') BY <1>0 DEF QueueOK
<1>3. /\ Units(done') \subseteq 0..(Size - 1)
      /\ segmentsDone(done') <=> Units(done') = 0..(Size - 1)
  BY <1>2, UnitsFinite, WholeIsAll
<1>4. ASSUME NEW v \in Users PROVE Ask(v)' = {}
  <2>1. AssignedRight(v)' BY <1>1 DEF Work
  <2> QED BY <1>0, <1>1, <2>1, NotAskedNext DEF AssignedRight
<1>5. Given' = Given BY <1>1, <1>4 DEF GivenRight, Asked
<1>6. Abstract!Verify BY <1>1, <1>3, <1>5, NothingIs DEF Abstract!Verify
<1> QED BY <1>6 DEF Abstract!Next

\* The initial states map to initial states.
LEMMA InitMaps ==
  ASSUME Init
  PROVE  Abstract!Init
<1>1. done = {} /\ status = "QUEUED" /\ downloads = << >> BY DEF Init
<1>2. ToSet(downloads) = {} BY <1>1 DEF ToSet
<1>3. Given = [u \in Users |-> {}] BY <1>2 DEF Given
<1> QED BY <1>1, <1>3, NothingIs DEF Abstract!Init, Abstract!Nobody

\* Every step maps to a step, or is not seen.
LEMMA NextMaps ==
  ASSUME ~OverlapSlow, ~RecheckUnfinished, Base, Base', Work, Work', GivenRight, GivenRight',
         [Next]_vars
  PROVE  [Abstract!Next]_(Abstract!vars)
<1>1. CASE status = "REMOVED" BY <1>1, RemovedStays, RemovedMaps
<1>2. CASE status # "REMOVED"
  <2>1. ASSUME NEW u \in Users, Connection(u) PROVE [Abstract!Next]_(Abstract!vars)
    <3>1. CASE \/ SND(u) \/ FileNotAvailable(u) \/ Data(u) \/ TreeData(u) \/ Failed(u) \/ FailedIdle(u)
               \/ Requesting(u) \/ NoNeededPart(u)
      BY <3>1, TransferUnasked, QuietMaps
    <3>2. CASE onDownloadFailed(u) \/ onTreeDownloadCompleted(u) BY <1>2, <3>2, BackMaps
    <3>3. CASE onFileDownloadCompleted(u) BY <1>2, <3>3, CompletedMaps
    <3>4. CASE getDownload(u) BY <1>2, <3>4, AssignMaps
    <3>5. CASE startDownload(u)
      <4>1. Unasked BY <3>5 DEF startDownload, Unasked
      <4> QED BY <4>1, QuietMaps
    <3> QED BY <2>1, <3>1, <3>2, <3>3, <3>4, <3>5 DEF Connection
  <2>2. CASE removeQI
    <3>1. status' = "REMOVED" BY <2>2 DEF removeQI
    <3>2. Abstract!Remove BY <1>2, <3>1, RemoveMaps
    <3> QED BY <3>2 DEF Abstract!Next
  <2>3. CASE RecheckReset BY <1>2, <2>3, ResetMaps
  <2>4. CASE RecheckApply BY <1>2, <2>4, ApplyMaps
  <2>5. CASE \/ \E u \in Users : removeFileSource(u)
             \/ \E u \in Users, info \in PartsInfos : addPartialSource(u, info)
             \/ setBundlePriority \/ DeleteTemp
             \/ \E what \in {"bundle", "file"} : Resume(what)
             \/ \E b \in Damaged : Damage(b)
             \/ recheckFiles \/ RecheckValidate \/ RecheckRead \/ RecheckEnd
             \/ UNCHANGED vars
    BY <2>5, OtherUnasked, QuietMaps
  <2> QED BY <2>1, <2>2, <2>3, <2>4, <2>5 DEF Next, Recheck
<1> QED BY <1>1, <1>2

\* The queue's file is a segmented download, as SegmentedDownload specifies it:
\* no source is given what another one has been given or what is done, what is
\* had grows only by what was given, and the file is complete once, when all of
\* it is had.
THEOREM ImplementsSegmentedDownload ==
  ASSUME ~OverlapSlow, ~RecheckUnfinished
  PROVE  Spec => Refines
<1>1. Init => Base /\ Work /\ Abstract!Init BY BaseInit, WorkInit, InitMaps
<1>2. Base /\ Work /\ [Next]_vars => (Base /\ Work)' BY BaseStep, WorkStep
<1>3. Base /\ Work => GivenRight BY GivenIs
<1>4. /\ Base /\ Work /\ GivenRight /\ (Base /\ Work /\ GivenRight)' /\ [Next]_vars
      => [Abstract!Next]_(Abstract!vars)
  BY NextMaps
<1> QED BY <1>1, <1>2, <1>3, <1>4, PTL DEF Spec, Refines, Abstract!Spec

-----------------------------------------------------------------------------
(* Partial sources.                                                        *)

\* A partial source is asked for something inside one of its parts.
LEMMA NextOfPart ==
  ASSUME TransfersOK, SourcesOK, MultiChunk, BlockSize < Size, NEW u \in Users, parts[u] # NoParts,
         NEW S, S \subseteq FileSegs, Separated(S), NEW wanted \in Nat, NEW allow \in BOOLEAN,
         NEW r \in getNextSegment(u, S, BlockSize, wanted, allow), r.seg.size > 0
  PROVE  \E p \in parts[u] :
           /\ p[1] \in Nat /\ p[2] \in Nat
           /\ p[1] * BlockSize <= r.seg.start /\ getEnd(r.seg) <= p[2] * BlockSize
<1> DEFINE target == targetSize(wanted, getDownloadedBytes(S), BlockSize)
<1> DEFINE free == FreeSegments(target, BlockSize, S, Segs)
<1> DEFINE needed == NeededParts(free, parts[u], BlockSize, target)
<1>1. BlockSize \in Nat /\ BlockSize > 0 /\ Size \in Nat /\ ~(BlockSize >= Size)
  BY SegmentAssumption
<1>2. \/ r = Plain(NotNow) \/ r = Plain(NoSegment) \/ \E s \in needed : r = Plain(s)
  <2>1. r \in IF isPausedPrio \/ Len(downloads) >= MaxSegments THEN {Plain(NotNow)}
              ELSE IF needed # {} THEN {Plain(s) : s \in needed}
              ELSE checkOverlaps(BlockSize, FALSE)
    BY <1>1 DEF getNextSegment
  <2>2. checkOverlaps(BlockSize, FALSE) = {Plain(NoSegment)} BY DEF checkOverlaps
  <2> HIDE DEF needed
  <2> QED BY <2>1, <2>2
<1>3. Plain(NotNow).seg.size = 0 /\ Plain(NoSegment).seg.size = 0
  BY DEF Plain, NotNow, NoSegment, Segment
<1>4. PICK s \in needed : r = Plain(s)
  <2> HIDE DEF needed
  <2> QED BY <1>2, <1>3
<1>5. PICK n \in Nat : n > 0 /\ target = n * BlockSize BY DownloadedIs, TargetIs
<1>6. ASSUME NEW x \in free PROVE x \in FileSegs /\ Aligned(x)
  <2>1. x \in FreeSegments(n * BlockSize, BlockSize, S, Segs) BY <1>5, <1>6
  <2> HIDE DEF free
  <2> QED BY <1>5, <2>1, FreeAre
<1>7. \A p \in parts[u] : p \in Nat \X Nat /\ p[1] < p[2] BY QueueItemAssumption DEF SourcesOK
<1>8. needed = NeededParts(free, parts[u], BlockSize, n * BlockSize) BY <1>5
<1> HIDE DEF free, needed, target
<1>9. \E p \in parts[u] : p[1] * BlockSize <= s.start /\ getEnd(s) <= p[2] * BlockSize
  BY <1>4, <1>5, <1>6, <1>7, <1>8, NeededAre
<1> QED BY <1>4, <1>7, <1>9 DEF Plain

\* Only getDownload assigns a download to a connection.
LEMMA OnlyGetDownload ==
  ASSUME TransfersOK, [Next]_vars, NEW u \in Users, conn[u] = "starting", conn'[u] = "assigned"
  PROVE  getDownload(u)
<1>0. conn \in [Users -> Conns] BY DEF TransfersOK
<1>1. ASSUME conn' = conn PROVE FALSE BY <1>1
<1>2. ASSUME NEW v \in Users, NEW c, conn' = [conn EXCEPT ![v] = c],
             c # "assigned" \/ conn[v] # "starting"
      PROVE  FALSE
  BY <1>0, <1>2
<1>3. ASSUME NEW v \in Users, NEW d, NEW result, Return(v, d, result) PROVE FALSE
  <2>1. \/ conn' = [conn EXCEPT ![v] = "putting"] \/ conn' = [conn EXCEPT ![v] = After(result)]
    BY <1>3 DEF Return
  <2>2. After(result) # "assigned" BY DEF After
  <2> QED BY <1>2, <2>1, <2>2
<1>4. ASSUME NEW v \in Users, Connection(v) PROVE getDownload(u)
  <2>1. CASE SND(v)
    <3>1. \/ conn' = [conn EXCEPT ![v] = "RUNNING"] \/ Return(v, [dl[v] EXCEPT !.over = FALSE], "failed")
      BY <2>1 DEF SND
    <3> QED BY <1>2, <1>3, <3>1
  <2>2. CASE FileNotAvailable(v) BY <1>3, <2>2 DEF FileNotAvailable
  <2>3. CASE Data(v)
    <3>1. \/ Return(v, dl[v], "failed") \/ Return(v, [dl[v] EXCEPT !.pos = @ + 1], "finished")
          \/ conn' = conn
      BY <2>3 DEF Data
    <3> QED BY <1>1, <1>3, <3>1
  <2>4. CASE TreeData(v)
    <3>1. Return(v, dl[v], "finished") \/ Return(v, dl[v], "failed") BY <2>4 DEF TreeData
    <3> QED BY <1>3, <3>1
  <2>5. CASE Failed(v) BY <1>3, <2>5 DEF Failed
  <2>6. CASE FailedIdle(v) BY <1>2, <2>6 DEF FailedIdle
  <2>7. CASE Requesting(v) BY <1>2, <2>7 DEF Requesting
  <2>8. CASE NoNeededPart(v) BY <1>2, <2>8 DEF NoNeededPart
  <2>9. CASE startDownload(v) BY <1>2, <2>9 DEF startDownload
  <2>10. CASE onDownloadFailed(v)
    <3>1. conn' = [conn EXCEPT ![v] = After(dl[v].result)] /\ After(dl[v].result) # "assigned"
      BY <2>10 DEF onDownloadFailed, After
    <3> QED BY <1>2, <3>1
  <2>11. CASE onTreeDownloadCompleted(v) BY <1>2, <2>11 DEF onTreeDownloadCompleted
  <2>12. CASE onFileDownloadCompleted(v) BY <1>2, <2>12 DEF onFileDownloadCompleted
  <2>13. CASE getDownload(v)
    <3>1. conn' = [conn EXCEPT ![v] = "assigned"] BY <2>13 DEF getDownload
    <3>2. v = u BY <1>0, <3>1
    <3> QED BY <2>13, <3>2
  <2> QED BY <1>4, <2>1, <2>2, <2>3, <2>4, <2>5, <2>6, <2>7, <2>8, <2>9, <2>10, <2>11, <2>12, <2>13
       DEF Connection
<1>5. CASE \/ \E v \in Users : removeFileSource(v)
           \/ \E v \in Users, info \in PartsInfos : addPartialSource(v, info)
           \/ removeQI \/ setBundlePriority \/ DeleteTemp
           \/ \E what \in {"bundle", "file"} : Resume(what)
           \/ \E b \in Damaged : Damage(b)
           \/ recheckFiles \/ Recheck \/ UNCHANGED vars
  <2>1. conn' = conn
    BY <1>5 DEF removeFileSource, addPartialSource, removeQI, setBundlePriority, DeleteTemp, Resume,
       Damage, recheckFiles, Recheck, RecheckValidate, RecheckReset, RecheckRead, RecheckApply,
       RecheckEnd, vars, transfers
  <2> QED BY <1>1, <2>1
<1> QED BY <1>4, <1>5 DEF Next

\* What getDownload asks a partial source for.
LEMMA AskedOfPart ==
  ASSUME Base, MultiChunk, BlockSize < Size, NEW u \in Users, getDownload(u),
         parts[u] # NoParts, tree, dl'[u].seg.size > 0
  PROVE  \E p \in parts[u] :
           contains(Segment(p[1] * BlockSize, (p[2] - p[1]) * BlockSize), dl'[u].seg)
<1>0. /\ TransfersOK /\ SourcesOK /\ done \subseteq FileSegs /\ Separated(done)
      /\ BlockSize \in Nat /\ dl \in [Users -> Download]
  BY SegmentAssumption DEF Base, QueueOK, TransfersOK
<1>1. PICK S : S = (IF TempGone THEN {} ELSE done) OBVIOUS
<1>2. S \subseteq FileSegs /\ Separated(S) BY <1>0, <1>1 DEF Separated
<1>3. PICK wanted \in WantedSizes :
        \E d \in NewDownloads(u, S, wanted) : dl' = [initOverlapped(d) EXCEPT ![u] = d]
  BY <1>1 DEF getDownload
<1>4. PICK d \in NewDownloads(u, S, wanted) : dl' = [initOverlapped(d) EXCEPT ![u] = d] BY <1>3
<1>5. dl'[u] = d
  <2>1. u \in DOMAIN initOverlapped(d) BY <1>0 DEF initOverlapped
  <2> QED BY <1>4, <2>1
<1>6. PICK r \in getNextSegment(u, S, BlockSize, wanted, TRUE) :
        d = [NoDownload EXCEPT !.type = "FILE", !.seg = r.seg, !.over = r.over, !.blk = BlockSize]
  BY <1>4 DEF NewDownloads
<1>7. d.seg = r.seg BY <1>6 DEF NoDownload
<1>8. PICK allow \in BOOLEAN : r \in getNextSegment(u, S, BlockSize, wanted, allow) BY <1>6
<1>9. wanted \in Nat BY QueueItemAssumption
<1>10. PICK p \in parts[u] :
         /\ p[1] \in Nat /\ p[2] \in Nat
         /\ p[1] * BlockSize <= r.seg.start /\ getEnd(r.seg) <= p[2] * BlockSize
  BY <1>0, <1>2, <1>5, <1>7, <1>8, <1>9, NextOfPart
<1>11. (p[2] - p[1]) * BlockSize = p[2] * BlockSize - p[1] * BlockSize BY <1>0, <1>10
<1>12. PICK a \in Int, b \in Int : a = p[1] * BlockSize /\ b = p[2] * BlockSize BY <1>0, <1>10
<1>13. Segment(a, b - a).start = a /\ getEnd(Segment(a, b - a)) = b
  BY <1>12 DEF Segment, getEnd
<1>14. contains(Segment(a, b - a), r.seg) BY <1>10, <1>12, <1>13 DEF contains
<1> QED BY <1>5, <1>7, <1>11, <1>12, <1>14

\* The action property of AskedOfParts.
AskedOfPartsStep ==
  \A u \in Users :
       /\ conn[u] = "starting" /\ conn'[u] = "assigned"
       /\ parts[u] # NoParts /\ tree /\ dl'[u].seg.size > 0
       => \E p \in parts[u] :
            contains(Segment(p[1] * BlockSize, (p[2] - p[1]) * BlockSize), dl'[u].seg)

\* When the file is downloaded in segments of blocks, a source that announced
\* parts is asked for something inside one of them.
THEOREM PartsAsked ==
  ASSUME MultiChunk, BlockSize < Size
  PROVE  Spec => AskedOfParts
<1>1. Init => Base BY BaseInit
<1>2. Base /\ [Next]_vars => Base' BY BaseStep
<1>3. Base /\ [Next]_vars => [AskedOfPartsStep]_vars
  <2> SUFFICES ASSUME Base, [Next]_vars PROVE AskedOfPartsStep OBVIOUS
  <2>1. TransfersOK BY DEF Base
  <2> QED BY <2>1, OnlyGetDownload, AskedOfPart DEF AskedOfPartsStep
<1> QED BY <1>1, <1>2, <1>3, PTL DEF Spec, AskedOfParts, AskedOfPartsStep
=============================================================================
