------------------------------ MODULE Segments ------------------------------
(***************************************************************************)
(* Segments of a queued file and the algorithms that QueueItem runs on     *)
(* them: what is left to request, and how a downloaded segment joins the   *)
(* ones that are done.  Positions are in units of which a leaf of the      *)
(* file's hash tree has BlockSize; the last leaf may be shorter.           *)
(***************************************************************************)
EXTENDS Integers, FiniteSets, FiniteSetsExt

CONSTANTS
  Size,        \* QueueItem::size
  BlockSize    \* TigerTree::getBlockSize

ASSUME SegmentAssumption ==
  /\ Size \in Nat \ {0}
  /\ BlockSize \in 1..Size

Segment(start, size) == [start |-> start, size |-> size]

\* Results of getNextSegment: nothing is free, and the item takes no more
\* segments now.
NoSegment == Segment(0, 0)
NotNow == Segment(-1, 0)

getEnd(s) == s.start + s.size
overlaps(s, t) == s.start < getEnd(t) /\ t.start < getEnd(s)
contains(s, t) == s.start <= t.start /\ getEnd(s) >= getEnd(t)
Before(s, t) == s.start < t.start \/ (s.start = t.start /\ s.size < t.size)
inSet(s, S) == \E t \in S : contains(t, s)

roundDown(n, blk) == (n \div blk) * blk
roundUp(n, blk) == ((n + blk - 1) \div blk) * blk

Leaves == 0..((Size - 1) \div BlockSize)

\* (mutant) the last leaf is not cut at the end of the file
MutBlockSegment(pos) == Segment(pos, BlockSize)
blockSegment(pos) == Segment(pos, Min({Size - pos, BlockSize}))

Leaf(b) == blockSegment(b * BlockSize)
LeavesIn(S) == {b \in Leaves : inSet(Leaf(b), S)}

\* The first of an ordered set of segments.
Earliest(S) == CHOOSE s \in S : \A t \in S : ~Before(t, s)

Units(S) == UNION {s.start..(getEnd(s) - 1) : s \in S}
\* The sum of the sizes: how many units the segments have, each its own.
getDownloadedSegments(done) == Cardinality(UNION {{s} \X (1..s.size) : s \in done})
segmentsDone(done) == done = {Segment(0, Size)}

-----------------------------------------------------------------------------
(* addFinishedSegment: insert the segment, then walk the ordered set and   *)
(* replace each pair of neighbours that touch or overlap by one segment    *)
(* from the start of the first to the end of the second.  What replaces a  *)
(* pair ends where its second did, so that it is joined with the next one  *)
(* exactly when the second would be: neighbours that touch form chains,    *)
(* and each chain becomes one segment.  `bytes` is what the bundle is      *)
(* told: the growth of the first pair, or the whole segment when no pair   *)
(* was joined.                                                             *)

\* (mutant) segments that only touch stay apart
MutTouches(prev, s) == getEnd(prev) > s.start
Touches(prev, s) == getEnd(prev) >= s.start

\* s comes right before t in the ordered set S.
Neighbours(S, s, t) == Before(s, t) /\ ~\E r \in S : Before(s, r) /\ Before(r, t)
Joined(S, s, t) == Neighbours(S, s, t) /\ Touches(s, t)

\* s and t are the first and the last of segments that become one.
Firsts(S) == {t \in S : ~\E s \in S : Joined(S, s, t)}
Lasts(S) == {s \in S : ~\E t \in S : Joined(S, s, t)}
Chain(S, s, t) == ~Before(t, s) /\ ~\E r \in Firsts(S) : Before(s, r) /\ ~Before(t, r)

Join(prev, s) == Segment(prev.start, getEnd(s) - prev.start)

\* (mutant) the size of the pair's second segment is counted as new
MutJoinedBytes(prev, s, seg) == Join(prev, s).size - prev.size

JoinedBytes(prev, s, seg) ==
  Join(prev, s).size - (IF prev = seg THEN s.size ELSE prev.size)

Consolidate(done, seg) ==
  LET S == done \cup {seg}
      joined == {s \in S : \E t \in S : Joined(S, s, t)}
      first == Earliest(joined)
      next == CHOOSE t \in S : Joined(S, first, t)
      chains == {c \in Firsts(S) \X Lasts(S) : Chain(S, c[1], c[2])}
  IN [done  |-> {Join(c[1], c[2]) : c \in chains},
      bytes |-> IF joined = {} THEN seg.size ELSE JoinedBytes(first, next, seg)]

-----------------------------------------------------------------------------
(* getNextSegment.  `running` are the segments of the current downloads.   *)

\* The request when the whole file is one segment: what precedes the first
\* gap's end, rounded out to blocks.
Unchunked(done, blk) ==
  LET begun == done # {} /\ Earliest(done).start = 0
      rest == IF begun THEN done \ {Earliest(done)} ELSE done
      start == IF begun THEN roundDown(getEnd(Earliest(done)), blk) ELSE 0
      end == IF rest = {} THEN Size ELSE roundUp(Earliest(rest).start, blk)
  IN Segment(start, Min({Size, end}) - start)

\* Smaller blocks at the end of the transfer.
targetSize(wanted, downloaded, blk) ==
  LET left == (wanted * (Size * Size - downloaded * downloaded)) \div (Size * Size)
      target == Max({wanted \div 4, left})
  IN IF target > blk THEN roundDown(target, blk) ELSE blk

Block(start, cur) == Segment(start, Min({Size, start + cur}) - start)

\* (mutant) what is being downloaded is not taken
MutTaken(block, cur, blk, done, running) ==
  \E s \in done : IF cur <= blk THEN contains(s, block) ELSE overlaps(block, s)

\* Is the candidate taken?  A block that is only partly done may be requested
\* again when it cannot be made smaller.
Taken(block, cur, blk, done, running) ==
  \/ \E s \in done : IF cur <= blk THEN contains(s, block) ELSE overlaps(block, s)
  \/ \E s \in running : overlaps(block, s)

\* The free segments that the scan meets: at each position that it comes to, as
\* many blocks as are free, if any are; it goes on from their end, or from that
\* of one block.
FreeSegments(target, blk, done, running) ==
  LET Blocks(p, k) == Block(p, k * blk)
      Free(p) == {k \in 1..(target \div blk) :
                    ~Taken(Blocks(p, k), k * blk, blk, done, running)}
      scan[p \in 0..Size] ==
        IF p = Size THEN {}
        ELSE UNION {IF free = {} THEN scan[getEnd(Blocks(p, 1))]
                    ELSE {Blocks(p, Max(free))} \cup scan[getEnd(Blocks(p, Max(free)))] :
                      free \in {Free(p)}}
  IN scan[0]

\* (mutant) the end of the part is not looked at
MutPart(s, b, e, target) ==
  Segment(Max({s.start, b}), Min({getEnd(s) - Max({s.start, b}), target}))

Part(s, b, e, target) ==
  Segment(Max({s.start, b}), Min({Min({getEnd(s), e}) - Max({s.start, b}), target}))

\* What a partial source can give of the free segments; parts are pairs of
\* block numbers.
NeededParts(free, parts, blk, target) ==
  LET position(k) == Min({Size, k * blk})
      Needed(s, p) == \/ position(p[1]) <= s.start /\ s.start < position(p[2])
                      \/ s.start <= position(p[1]) /\ position(p[1]) < getEnd(s)
  IN {Part(x[1], position(x[2][1]), position(x[2][2]), target) :
        x \in {y \in free \X parts : Needed(y[1], y[2])}}

First(S) == CHOOSE s \in S : \A t \in S : s.start <= t.start

isNeededPart(parts, done, blk) ==
  \E p \in parts : ~\E s \in done :
    s.start <= p[1] * blk /\ getEnd(s) >= p[2] * blk
=============================================================================
