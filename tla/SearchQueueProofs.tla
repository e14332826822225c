-------------------------- MODULE SearchQueueProofs --------------------------
(***************************************************************************)
(* The queue of searches stays sorted, and no search overtakes one that is *)
(* not weaker, for queues of any length.                                   *)
(***************************************************************************)
EXTENDS SearchQueue, SequenceTheorems, TLAPS

\* Erasing position i moves what is behind it forward.
LEMMA EraseProperties ==
  ASSUME NEW S, NEW q \in Seq(S), NEW i \in 1..Len(q)
  PROVE  /\ Erase(q, i) \in Seq(S) /\ Len(Erase(q, i)) = Len(q) - 1
         /\ \A k \in 1..(Len(q) - 1) :
              Erase(q, i)[k] = IF k < i THEN q[k] ELSE q[k + 1]
<1> DEFINE a == SubSeq(q, 1, i - 1)
           b == SubSeq(q, i + 1, Len(q))
<1>1. /\ a \in Seq(S) /\ Len(a) = i - 1
      /\ \A k \in 1..(i - 1) : a[k] = q[k]
  BY SubSeqProperties
<1>2. /\ b \in Seq(S) /\ Len(b) = Len(q) - i
      /\ \A k \in 1..(Len(q) - i) : b[k] = q[i + k]
  BY SubSeqProperties
<1> HIDE DEF a, b
<1>3. a \in Seq(S) /\ b \in Seq(S) /\ Len(a) + Len(b) = Len(q) - 1
  BY <1>1, <1>2
<1>4. a \o b \in Seq(S) /\ Len(a \o b) = Len(q) - 1
  BY <1>3, ConcatProperties
<1>5. ASSUME NEW k \in 1..(Len(q) - 1)
      PROVE  (a \o b)[k] = IF k < i THEN q[k] ELSE q[k + 1]
  <2>1. (a \o b)[k] = IF k <= Len(a) THEN a[k] ELSE b[k - Len(a)]
    BY <1>3, ConcatProperties
  <2>2. CASE k < i BY <1>1, <2>1, <2>2
  <2>3. CASE ~(k < i)
    <3>1. k - (i - 1) \in 1..(Len(q) - i) /\ i + (k - (i - 1)) = k + 1 BY <2>3
    <3> QED BY <1>1, <1>2, <2>1, <2>3, <3>1
  <2> QED BY <2>2, <2>3
<1>6. Erase(q, i) = a \o b BY DEF Erase, a, b
<1> QED BY <1>4, <1>5, <1>6

\* Inserting behind position k leaves the first k where they are and moves the
\* others back by one.
LEMMA InsertProperties ==
  ASSUME NEW S, NEW q \in Seq(S), NEW k \in 0..Len(q), NEW s \in S
  PROVE  /\ InsertAfter(q, k, s) \in Seq(S)
         /\ Len(InsertAfter(q, k, s)) = Len(q) + 1
         /\ \A j \in 1..(Len(q) + 1) : InsertAfter(q, k, s)[j] =
              IF j <= k THEN q[j] ELSE IF j = k + 1 THEN s ELSE q[j - 1]
<1> DEFINE a == SubSeq(q, 1, k)
           m == <<s>>
           b == SubSeq(q, k + 1, Len(q))
           c == a \o m
<1>1. /\ a \in Seq(S) /\ Len(a) = k
      /\ \A j \in 1..k : a[j] = q[j]
  BY SubSeqProperties
<1>2. /\ b \in Seq(S) /\ Len(b) = Len(q) - k
      /\ \A j \in 1..(Len(q) - k) : b[j] = q[k + j]
  BY SubSeqProperties
<1>3. m \in Seq(S) /\ Len(m) = 1 /\ m[1] = s OBVIOUS
<1> HIDE DEF a, m, b
<1>4. /\ c \in Seq(S) /\ Len(c) = k + 1
      /\ \A j \in 1..(k + 1) : c[j] = IF j <= k THEN a[j] ELSE m[j - k]
  <2>1. a \in Seq(S) /\ m \in Seq(S) /\ Len(a) + Len(m) = k + 1 BY <1>1, <1>3
  <2>2. c \in Seq(S) /\ Len(c) = k + 1 BY <2>1, ConcatProperties
  <2>3. ASSUME NEW j \in 1..(k + 1)
        PROVE  c[j] = IF j <= Len(a) THEN a[j] ELSE m[j - Len(a)]
    BY <2>1, ConcatProperties
  <2> HIDE DEF c
  <2> QED BY <1>1, <2>2, <2>3
<1> HIDE DEF c
<1>5. c \in Seq(S) /\ b \in Seq(S) /\ Len(c) + Len(b) = Len(q) + 1
  BY <1>2, <1>4
<1>6. c \o b \in Seq(S) /\ Len(c \o b) = Len(q) + 1
  BY <1>5, ConcatProperties
<1>7. ASSUME NEW j \in 1..(Len(q) + 1)
      PROVE  (c \o b)[j] = IF j <= k THEN q[j] ELSE IF j = k + 1 THEN s ELSE q[j - 1]
  <2>1. (c \o b)[j] = IF j <= Len(c) THEN c[j] ELSE b[j - Len(c)]
    BY <1>5, ConcatProperties
  <2>2. CASE j <= k BY <1>1, <1>4, <2>1, <2>2
  <2>3. CASE j = k + 1
    <3>1. j \in 1..(k + 1) /\ ~(j <= k) /\ j - k = 1 BY <2>3
    <3>2. c[j] = s BY <1>3, <1>4, <3>1
    <3> QED BY <1>4, <2>1, <2>3, <3>1, <3>2
  <2>4. CASE j > k + 1
    <3>1. j - (k + 1) \in 1..(Len(q) - k) /\ k + (j - (k + 1)) = j - 1 BY <2>4
    <3>2. b[j - (k + 1)] = q[j - 1] BY <1>2, <3>1
    <3>3. (c \o b)[j] = b[j - (k + 1)] BY <1>4, <2>1, <2>4
    <3> QED BY <2>4, <3>2, <3>3
  <2>5. j <= k \/ j = k + 1 \/ j > k + 1 OBVIOUS
  <2> QED BY <2>2, <2>3, <2>4, <2>5
<1>8. InsertAfter(q, k, s) = c \o b BY DEF InsertAfter, a, m, b, c
<1>9. \A j \in 1..(Len(q) + 1) : InsertAfter(q, k, s)[j] =
        IF j <= k THEN q[j] ELSE IF j = k + 1 THEN s ELSE q[j - 1]
  BY <1>7, <1>8
<1> QED BY <1>6, <1>8, <1>9

-----------------------------------------------------------------------------
\* r has some of the elements of q, in the same order.
Subsequence(r, q) ==
  /\ \A i \in 1..Len(r) : \E a \in 1..Len(q) : q[a] = r[i]
  /\ \A i, j \in 1..Len(r) :
       i < j => \E a, b \in 1..Len(q) : a < b /\ q[a] = r[i] /\ q[b] = r[j]

\* Cancelling and sending only take elements away.
LEMMA EraseSubsequence ==
  ASSUME NEW S, NEW q \in Seq(S), NEW i \in 1..Len(q)
  PROVE  Erase(q, i) \in Seq(S) /\ Subsequence(Erase(q, i), q)
<1> DEFINE r == Erase(q, i)
           at(k) == IF k < i THEN k ELSE k + 1
<1>1. /\ r \in Seq(S) /\ Len(r) = Len(q) - 1
      /\ \A k \in 1..(Len(q) - 1) : r[k] = IF k < i THEN q[k] ELSE q[k + 1]
  BY EraseProperties
<1> HIDE DEF r
<1>2. Len(q) \in Nat OBVIOUS
<1>3. \A k \in 1..Len(r) : at(k) \in 1..Len(q) /\ q[at(k)] = r[k]
  BY <1>1, <1>2
<1>4. \A k, l \in 1..Len(r) : k < l => at(k) < at(l)
  BY <1>1, <1>2
<1> HIDE DEF at
<1>5. Subsequence(r, q) BY <1>3, <1>4 DEF Subsequence
<1> QED BY <1>1, <1>5 DEF r

\* Taking the first search keeps the order of the others.
LEMMA TailSubsequence ==
  ASSUME NEW S, NEW q \in Seq(S), q # << >>
  PROVE  Tail(q) \in Seq(S) /\ Subsequence(Tail(q), q)
<1> DEFINE r == Tail(q)
<1>1. /\ r \in Seq(S) /\ Len(r) = Len(q) - 1
      /\ \A k \in 1..Len(r) : r[k] = q[k + 1]
  BY HeadTailProperties
<1> HIDE DEF r
<1>2. Len(q) \in Nat OBVIOUS
<1>3. \A k \in 1..Len(r) : k + 1 \in 1..Len(q) /\ q[k + 1] = r[k]
  BY <1>1, <1>2
<1>4. \A k, l \in 1..Len(r) : k < l => k + 1 < l + 1
  BY <1>1, <1>2
<1>5. Subsequence(r, q) BY <1>3, <1>4 DEF Subsequence
<1> QED BY <1>1, <1>5 DEF r

\* Nothing is lost of order and uniqueness, and nobody overtakes, when
\* searches are only taken away.
LEMMA SubsequenceKeeps ==
  ASSUME SearchInvariant, searchQueue' \in Seq(Searches),
         Subsequence(searchQueue', searchQueue)
  PROVE  /\ SortedQueue'
         /\ \A i, j \in 1..Len(searchQueue') :
              searchQueue'[i] = searchQueue'[j] => i = j
         /\ \A s \in Searches : InQueue(s)' => InQueue(s)
         /\ \A s1, s2 \in Searches :
              Before(searchQueue', s2, s1) => Before(searchQueue, s2, s1)
<1> DEFINE q == searchQueue
           r == searchQueue'
<1>1. /\ \A i, j \in 1..Len(q) : i < j => priority[q[i]] >= priority[q[j]]
      /\ \A i, j \in 1..Len(q) : q[i] = q[j] => i = j
  BY DEF SearchInvariant, SortedQueue, NoDuplicates
<1>2. /\ \A i \in 1..Len(r) : \E a \in 1..Len(q) : q[a] = r[i]
      /\ \A i, j \in 1..Len(r) :
           i < j => \E a, b \in 1..Len(q) : a < b /\ q[a] = r[i] /\ q[b] = r[j]
  BY DEF Subsequence
<1>3. Len(r) \in Nat /\ Len(q) \in Nat BY DEF SearchInvariant, TypeOK
<1>4. SortedQueue'
  <2> SUFFICES ASSUME NEW i \in 1..Len(r), NEW j \in 1..Len(r), i < j
               PROVE  priority[r[i]] >= priority[r[j]]
    BY DEF SortedQueue
  <2>1. PICK a, b \in 1..Len(q) : a < b /\ q[a] = r[i] /\ q[b] = r[j] BY <1>2
  <2> QED BY <1>1, <2>1
<1>5. ASSUME NEW i \in 1..Len(r), NEW j \in 1..Len(r), r[i] = r[j]
      PROVE  i = j
  <2>1. ASSUME NEW x \in 1..Len(r), NEW y \in 1..Len(r), x < y, r[x] = r[y]
        PROVE  FALSE
    <3>1. PICK a, b \in 1..Len(q) : a < b /\ q[a] = r[x] /\ q[b] = r[y]
      BY <1>2, <2>1
    <3>2. a = b BY <1>1, <2>1, <3>1
    <3> QED BY <1>3, <3>1, <3>2
  <2>2. i < j \/ j < i \/ i = j BY <1>3
  <2> QED BY <1>5, <2>1, <2>2
<1>6. \A s \in Searches : InQueue(s)' => InQueue(s) BY <1>2 DEF InQueue
<1>7. \A s1, s2 \in Searches : Before(r, s2, s1) => Before(q, s2, s1)
  <2> HIDE DEF q, r
  <2> QED BY <1>2 DEF Before
<1> QED BY <1>4, <1>5, <1>6, <1>7

\* A new search goes behind its equals and in front of the weaker ones.
LEMMA InsertKeeps ==
  ASSUME SearchInvariant, NEW s \in Searches, Insert(s)
  PROVE  /\ searchQueue' \in Seq(Searches)
         /\ SortedQueue'
         /\ \A i, j \in 1..Len(searchQueue') :
              searchQueue'[i] = searchQueue'[j] => i = j
         /\ \A x \in Searches : InQueue(x)' => x = s \/ InQueue(x)
         /\ \A s1, s2 \in Searches :
              InQueue(s1) /\ Before(searchQueue', s2, s1)
                => Before(searchQueue, s2, s1) \/ priority[s2] > priority[s1]
<1>0. PICK k \in 0..Len(searchQueue) :
        UpperBound(k, s) /\ searchQueue' = InsertAfter(searchQueue, k, s)
  BY DEF Insert
<1> DEFINE q == searchQueue
           r == InsertAfter(q, k, s)
<1>1. q \in Seq(Searches) /\ Len(q) \in Nat /\ k \in 0..Len(q)
  BY DEF SearchInvariant, TypeOK
<1>2. /\ r \in Seq(Searches) /\ Len(r) = Len(q) + 1
      /\ \A j \in 1..Len(r) :
           r[j] = IF j <= k THEN q[j] ELSE IF j = k + 1 THEN s ELSE q[j - 1]
  <2> HIDE DEF q
  <2>1. /\ InsertAfter(q, k, s) \in Seq(Searches)
        /\ Len(InsertAfter(q, k, s)) = Len(q) + 1
        /\ \A j \in 1..(Len(q) + 1) : InsertAfter(q, k, s)[j] =
             IF j <= k THEN q[j] ELSE IF j = k + 1 THEN s ELSE q[j - 1]
    <3> HIDE DEF r
    <3> QED BY <1>1, InsertProperties
  <2>2. r = InsertAfter(q, k, s)
    OBVIOUS
  <2> HIDE DEF r
  <2> QED BY <2>1, <2>2
<1>3. /\ \A i, j \in 1..Len(q) : i < j => priority[q[i]] >= priority[q[j]]
      /\ \A i, j \in 1..Len(q) : q[i] = q[j] => i = j
      /\ \A i \in 1..Len(q) : q[i] # s
  BY DEF SearchInvariant, SortedQueue, NoDuplicates, InQueue, Insert
<1>4. /\ \A i \in 1..k : priority[q[i]] >= priority[s]
      /\ \A i \in (k + 1)..Len(q) : priority[q[i]] < priority[s]
  BY <1>0 DEF UpperBound
<1>5. /\ \A i \in 1..Len(q) : q[i] \in Searches /\ priority[q[i]] \in Int
      /\ priority[s] \in Int
  BY <1>1, SearchAssumption
<1>6. searchQueue' = r BY <1>0
<1> HIDE DEF q, r
<1>7. ASSUME NEW i \in 1..Len(r), NEW j \in 1..Len(r), i < j
      PROVE  priority[r[i]] >= priority[r[j]] /\ r[i] # r[j]
  <2>1. CASE j <= k
    <3>1. r[i] = q[i] /\ r[j] = q[j] /\ i \in 1..Len(q) /\ j \in 1..Len(q)
      BY <1>1, <1>2, <1>7, <2>1
    <3> QED BY <1>3, <1>7, <3>1
  <2>2. CASE i <= k /\ j = k + 1
    <3>1. r[i] = q[i] /\ r[j] = s /\ i \in 1..k /\ i \in 1..Len(q)
      BY <1>1, <1>2, <2>2
    <3> QED BY <1>3, <1>4, <3>1
  <2>3. CASE i <= k /\ j > k + 1
    <3>1. /\ r[i] = q[i] /\ r[j] = q[j - 1] /\ i < j - 1
          /\ i \in 1..Len(q) /\ j - 1 \in 1..Len(q)
      BY <1>1, <1>2, <2>3
    <3>2. i # j - 1 BY <3>1
    <3> QED BY <1>3, <3>1, <3>2
  <2>4. CASE i = k + 1
    <3>1. /\ r[i] = s /\ r[j] = q[j - 1]
          /\ j - 1 \in (k + 1)..Len(q) /\ j - 1 \in 1..Len(q)
      BY <1>1, <1>2, <1>7, <2>4
    <3>2. priority[q[j - 1]] < priority[s] /\ q[j - 1] # s BY <1>3, <1>4, <3>1
    <3>3. priority[q[j - 1]] \in Int BY <1>5, <3>1
    <3> QED BY <1>5, <3>1, <3>2, <3>3
  <2>5. CASE i > k + 1
    <3>1. /\ r[i] = q[i - 1] /\ r[j] = q[j - 1] /\ i - 1 < j - 1
          /\ i - 1 \in 1..Len(q) /\ j - 1 \in 1..Len(q)
      BY <1>1, <1>2, <1>7, <2>5
    <3>2. i - 1 # j - 1 BY <3>1
    <3> QED BY <1>3, <3>1, <3>2
  <2>6. \/ j <= k
        \/ i <= k /\ j = k + 1
        \/ i <= k /\ j > k + 1
        \/ i = k + 1
        \/ i > k + 1
    BY <1>2, <1>1
  <2> QED BY <2>1, <2>2, <2>3, <2>4, <2>5, <2>6
<1>8. \A i, j \in 1..Len(r) : r[i] = r[j] => i = j
  <2>1. Len(r) \in Nat BY <1>1, <1>2
  <2> QED BY <1>7, <2>1
<1>9. ASSUME NEW i \in 1..Len(r)
      PROVE  r[i] = s \/ \E a \in 1..Len(q) : q[a] = r[i]
  <2>1. CASE i <= k BY <1>1, <1>2, <2>1
  <2>2. CASE i = k + 1 BY <1>2, <2>2
  <2>3. CASE i > k + 1
    <3>1. i - 1 \in 1..Len(q) /\ r[i] = q[i - 1] BY <1>1, <1>2, <2>3
    <3> QED BY <3>1
  <2> QED BY <1>1, <1>2, <2>1, <2>2, <2>3
<1>10. ASSUME NEW i \in 1..Len(r), NEW j \in 1..Len(r), i < j,
              r[j] # s
       PROVE  \/ \E a, b \in 1..Len(q) : a < b /\ q[a] = r[i] /\ q[b] = r[j]
              \/ priority[r[i]] > priority[r[j]]
  <2>1. CASE j <= k BY <1>1, <1>2, <1>10, <2>1
  <2>2. j # k + 1 BY <1>2, <1>10
  <2>3. CASE i <= k /\ j > k + 1
    <3>1. /\ r[i] = q[i] /\ r[j] = q[j - 1] /\ i < j - 1
          /\ i \in 1..Len(q) /\ j - 1 \in 1..Len(q)
      BY <1>1, <1>2, <2>3
    <3> QED BY <3>1
  <2>4. CASE i = k + 1
    <3>1. r[i] = s /\ r[j] = q[j - 1] /\ j - 1 \in (k + 1)..Len(q)
      BY <1>1, <1>2, <1>10, <2>4
    <3>2. priority[q[j - 1]] < priority[s] BY <1>4, <3>1
    <3>3. priority[q[j - 1]] \in Int BY <1>5, <1>1, <3>1
    <3> QED BY <1>5, <3>1, <3>2, <3>3
  <2>5. CASE i > k + 1
    <3>1. /\ r[i] = q[i - 1] /\ r[j] = q[j - 1] /\ i - 1 < j - 1
          /\ i - 1 \in 1..Len(q) /\ j - 1 \in 1..Len(q)
      BY <1>1, <1>2, <1>10, <2>5
    <3> QED BY <3>1
  <2>6. \/ j <= k
        \/ j = k + 1
        \/ i <= k /\ j > k + 1
        \/ i = k + 1
        \/ i > k + 1
    BY <1>1, <1>2
  <2> QED BY <2>1, <2>2, <2>3, <2>4, <2>5, <2>6
<1>11. SortedQueue' BY <1>6, <1>7 DEF SortedQueue
<1>12. \A x \in Searches : InQueue(x)' => x = s \/ InQueue(x)
  BY <1>6, <1>9 DEF InQueue, q
<1>13. ASSUME NEW s1 \in Searches, NEW s2 \in Searches,
              InQueue(s1), Before(r, s2, s1)
       PROVE  Before(q, s2, s1) \/ priority[s2] > priority[s1]
  <2>1. s1 # s BY <1>3, <1>13 DEF InQueue, q
  <2>2. PICK i, j \in 1..Len(r) : i < j /\ r[i] = s2 /\ r[j] = s1
    BY <1>13 DEF Before
  <2> QED BY <1>10, <2>1, <2>2 DEF Before
<1> QED BY <1>2, <1>6, <1>8, <1>11, <1>12, <1>13 DEF q

-----------------------------------------------------------------------------
\* What every step does to the queue.
LEMMA QueueStep ==
  ASSUME SearchInvariant, [Next]_vars
  PROVE  \/ UNCHANGED searchQueue
         \/ /\ searchQueue' \in Seq(Searches)
            /\ Subsequence(searchQueue', searchQueue)
         \/ \E s \in Searches : Insert(s)
<1>0. searchQueue \in Seq(Searches) BY DEF SearchInvariant, TypeOK
<1>1. ASSUME NEW o, cancelSearch(o)
      PROVE  \/ UNCHANGED searchQueue
             \/ /\ searchQueue' \in Seq(Searches)
                /\ Subsequence(searchQueue', searchQueue)
  <2>1. CASE UNCHANGED searchQueue BY <2>1
  <2>2. CASE \E i \in 1..Len(searchQueue) : searchQueue' = Erase(searchQueue, i)
    BY <1>0, <2>2, EraseSubsequence
  <2> QED BY <1>1, <2>1, <2>2 DEF cancelSearch
<1>2. ASSUME NEW o \in Owners, Cancel(o)
      PROVE  \/ UNCHANGED searchQueue
             \/ /\ searchQueue' \in Seq(Searches)
                /\ Subsequence(searchQueue', searchQueue)
  BY <1>1, <1>2 DEF Cancel
<1>3. ASSUME NEW s \in Searches, Add(s)
      PROVE  \/ UNCHANGED searchQueue
             \/ /\ searchQueue' \in Seq(Searches)
                /\ Subsequence(searchQueue', searchQueue)
  <2>1. CASE owner[s] = NoOwner BY <1>3, <2>1 DEF Add
  <2>2. CASE owner[s] # NoOwner
    <3>1. cancelSearch(owner[s]) BY <1>3, <2>2 DEF Add
    <3> QED BY <1>1, <3>1
  <2> QED BY <2>1, <2>2
<1>4. CASE Pop
  <2>1. CASE UNCHANGED searchQueue BY <2>1
  <2>2. CASE searchQueue # << >> /\ searchQueue' = Tail(searchQueue)
    BY <1>0, <2>2, TailSubsequence
  <2> QED BY <1>4, <2>1, <2>2 DEF Pop
<1>5. CASE CheckTime \/ Connect \/ Disconnect \/ reloadSettings \/ Elapse \/ UNCHANGED vars
  BY <1>5 DEF CheckTime, Connect, Disconnect, reloadSettings, Elapse, vars
<1> QED BY <1>2, <1>3, <1>4, <1>5 DEF Next

\* What every step does to the searches that are being added.
LEMMA AddingStep ==
  ASSUME SearchInvariant, [Next]_vars
  PROVE  \/ UNCHANGED adding /\ ~\E s \in Searches : Insert(s)
         \/ /\ \E s \in Searches : ~InQueue(s) /\ adding' = adding \cup {s}
            /\ ~\E s \in Searches : Insert(s)
         \/ \E s \in Searches : Insert(s)
BY DEF Next, Cancel, Add, CheckTime, Pop, Connect, Disconnect, reloadSettings,
       Elapse, vars

\* The other variables keep their types.
LEMMA OtherTypes ==
  ASSUME SearchInvariant, [Next]_vars
  PROVE  /\ popping' \in BOOLEAN /\ age' \in 0..MaxAge
         /\ minInterval' \in MinIntervals /\ connected' \in BOOLEAN
<1>0. /\ popping \in BOOLEAN /\ age \in 0..MaxAge
      /\ minInterval \in MinIntervals /\ connected \in BOOLEAN
  BY DEF SearchInvariant, TypeOK
<1>1. popping' \in BOOLEAN /\ minInterval' \in MinIntervals /\ connected' \in BOOLEAN
  BY <1>0, Zenon DEF Next, Cancel, Add, Insert, CheckTime, Pop, Connect, Disconnect,
     reloadSettings, Elapse, vars
<1>2. UNCHANGED age \/ age' = 0 \/ (age < MaxAge /\ age' = age + 1)
  BY DEF Next, Cancel, Add, Insert, CheckTime, Pop, Connect, Disconnect,
     reloadSettings, Elapse, vars
<1>3. age' \in 0..MaxAge BY <1>0, <1>2, SearchAssumption
<1> QED BY <1>1, <1>3

\* SearchQueue::add, maybePop and cancelSearch keep the queue sorted by
\* priority and free of duplicates, for any number of threads and searches.
THEOREM QueueSorted == Spec => []SearchInvariant
<1>1. Init => SearchInvariant
  <2> SUFFICES ASSUME Init PROVE SearchInvariant OBVIOUS
  <2>1. TypeOK
    <3>1. searchQueue \in Seq(Searches) /\ adding \subseteq Searches BY DEF Init
    <3>2. age \in 0..MaxAge BY SearchAssumption DEF Init
    <3>3. /\ popping \in BOOLEAN /\ connected \in BOOLEAN
          /\ minInterval \in MinIntervals
      BY Zenon DEF Init
    <3> QED BY <3>1, <3>2, <3>3 DEF TypeOK
  <2>2. SortedQueue /\ NoDuplicates
    BY DEF Init, SortedQueue, NoDuplicates
  <2> QED BY <2>1, <2>2 DEF SearchInvariant
<1>2. SearchInvariant /\ [Next]_vars => SearchInvariant'
  <2> SUFFICES ASSUME SearchInvariant, [Next]_vars PROVE SearchInvariant' OBVIOUS
  <2>1. CASE \E s \in Searches : Insert(s)
    <3>1. PICK s \in Searches : Insert(s) BY <2>1
    <3>2. adding' = adding \ {s} BY <3>1 DEF Insert
    <3>3. TypeOK'
      BY <3>1, <3>2, InsertKeeps, OtherTypes DEF TypeOK, SearchInvariant
    <3>4. NoDuplicates'
      <4>1. \A x \in adding' : ~InQueue(x)'
        BY <3>1, <3>2, InsertKeeps DEF SearchInvariant, NoDuplicates, TypeOK
      <4> QED BY <3>1, <4>1, InsertKeeps DEF NoDuplicates
    <3> QED BY <3>1, <3>3, <3>4, InsertKeeps DEF SearchInvariant
  <2>2. CASE ~\E s \in Searches : Insert(s)
    <3>1. /\ searchQueue' \in Seq(Searches)
          /\ SortedQueue'
          /\ \A i, j \in 1..Len(searchQueue') :
               searchQueue'[i] = searchQueue'[j] => i = j
          /\ \A s \in Searches : InQueue(s)' => InQueue(s)
      <4>1. CASE UNCHANGED searchQueue
        BY <4>1 DEF SearchInvariant, TypeOK, SortedQueue, NoDuplicates, InQueue
      <4>2. CASE /\ searchQueue' \in Seq(Searches)
                 /\ Subsequence(searchQueue', searchQueue)
        BY <4>2, SubsequenceKeeps
      <4> QED BY <2>2, <4>1, <4>2, QueueStep
    <3>2. /\ adding' \subseteq Searches
          /\ \A s \in adding' : ~InQueue(s)
      BY <2>2, AddingStep DEF SearchInvariant, TypeOK, NoDuplicates
    <3>3. TypeOK' BY <3>1, <3>2, OtherTypes DEF TypeOK
    <3>4. NoDuplicates' BY <3>1, <3>2 DEF NoDuplicates
    <3> QED BY <3>1, <3>3, <3>4 DEF SearchInvariant
  <2> QED BY <2>1, <2>2
<1> QED BY <1>1, <1>2, PTL DEF Spec

\* Only a stronger search gets in front of one that waits already
\* (std::upper_bound in SearchQueue::add).
THEOREM Overtaking == Spec => NoOvertaking
<1>1. SearchInvariant /\ [Next]_vars =>
        [\A s1, s2 \in Searches :
           InQueue(s1) /\ Before(searchQueue', s2, s1) /\ ~Before(searchQueue, s2, s1)
             => priority[s2] > priority[s1]]_vars
  <2> SUFFICES ASSUME SearchInvariant, [Next]_vars,
                      NEW s1 \in Searches, NEW s2 \in Searches,
                      InQueue(s1), Before(searchQueue', s2, s1),
                      ~Before(searchQueue, s2, s1)
               PROVE  priority[s2] > priority[s1]
    OBVIOUS
  <2>1. CASE UNCHANGED searchQueue BY <2>1
  <2>2. CASE /\ searchQueue' \in Seq(Searches)
             /\ Subsequence(searchQueue', searchQueue)
    BY <2>2, SubsequenceKeeps
  <2>3. CASE \E s \in Searches : Insert(s) BY <2>3, InsertKeeps
  <2> QED BY <2>1, <2>2, <2>3, QueueStep
<1> QED BY <1>1, QueueSorted, PTL DEF Spec, NoOvertaking
=============================================================================
