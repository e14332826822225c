---------------------------- MODULE SearchQueue ----------------------------
(***************************************************************************)
(* The outgoing search queue of a hub connection.  Any thread queues and   *)
(* cancels searches; the hub's timer sends the first one once the interval *)
(* of its priority has passed since the last search was sent.  Every       *)
(* operation takes the lock, but `add` and `maybePop` take it twice and    *)
(* let go of it in between.                                                *)
(***************************************************************************)
EXTENDS Integers, Sequences

CONSTANTS
  Searches,      \* search objects
  Owners,        \* callers that identify themselves
  NoOwner,       \* the owner of an anonymous search
  owner,         \* the owner of each search
  priority,      \* the priority of each search, as numbered by enum Priority
  MinIntervals,  \* values of the hub's minimum interval setting
  MaxAge         \* the age of the last search saturates here

ASSUME SearchAssumption ==
  /\ NoOwner \notin Owners
  /\ owner \in [Searches -> Owners \cup {NoOwner}]
  /\ priority \in [Searches -> Int]
  /\ MinIntervals \subseteq Nat
  /\ MaxAge \in Nat

VARIABLES
  searchQueue,   \* searches waiting to be sent
  adding,        \* searches whose `add` has cancelled the owner's older one
  popping,       \* has maybePop found that the queue time is over?
  age,           \* time since lastSearchTick, in units of five seconds
  minInterval,   \* setting of the hub, same unit
  connected      \* Client::isConnected

vars == <<searchQueue, adding, popping, age, minInterval, connected>>

Init ==
  /\ searchQueue = << >>
  /\ adding = {}
  /\ popping = FALSE
  /\ age = 0
  /\ minInterval \in MinIntervals
  /\ connected = FALSE

-----------------------------------------------------------------------------
Erase(q, i) == SubSeq(q, 1, i - 1) \o SubSeq(q, i + 1, Len(q))
InsertAfter(q, k, s) == (SubSeq(q, 1, k) \o <<s>>) \o SubSeq(q, k + 1, Len(q))

InQueue(s) == \E i \in 1..Len(searchQueue) : searchQueue[i] = s

getInterval(p) ==
  LET ret == CASE p >= 5 -> 1     \* HIGHEST, HIGH
               [] p = 4  -> 2     \* NORMAL
               [] p = 3  -> 3     \* LOW
               [] OTHER  -> 4
  IN IF ret > minInterval THEN ret ELSE minInterval

\* getCurrentQueueTime() = 0
QueueTimeOver ==
  searchQueue # << >> => age >= getInterval(priority[Head(searchQueue)])

\* cancelSearch: the owner's first search is erased.
cancelSearch(o) ==
  \/ \E i \in 1..Len(searchQueue) :
       /\ owner[searchQueue[i]] = o
       /\ \A j \in 1..(i - 1) : owner[searchQueue[j]] # o
       /\ searchQueue' = Erase(searchQueue, i)
  \/ /\ \A i \in 1..Len(searchQueue) : owner[searchQueue[i]] # o
     /\ UNCHANGED searchQueue

Cancel(o) ==
  /\ cancelSearch(o)
  /\ UNCHANGED <<adding, popping, age, minInterval, connected>>

\* hubSearch refuses a hub that is not connected; `add` begins by cancelling.
Add(s) ==
  /\ connected /\ s \notin adding /\ ~InQueue(s)
  /\ IF owner[s] = NoOwner THEN UNCHANGED searchQueue ELSE cancelSearch(owner[s])
  /\ adding' = adding \cup {s}
  /\ UNCHANGED <<popping, age, minInterval, connected>>

\* Mutant of UpperBound: the new search goes before its equals.
LowerBound(k, s) ==
  /\ \A i \in 1..k : priority[searchQueue[i]] > priority[s]
  /\ \A i \in (k + 1)..Len(searchQueue) : priority[searchQueue[i]] <= priority[s]

\* Mutant of UpperBound: the priority is not looked at.
BackOfQueue(k, s) == k = Len(searchQueue)

\* std::upper_bound with PrioritySort: k searches are not weaker than s.  It
\* is defined only if the queue is sorted.
UpperBound(k, s) ==
  /\ \A i \in 1..k : priority[searchQueue[i]] >= priority[s]
  /\ \A i \in (k + 1)..Len(searchQueue) : priority[searchQueue[i]] < priority[s]

\* The rest of `add`.
Insert(s) ==
  /\ s \in adding
  /\ \E k \in 0..Len(searchQueue) :
       UpperBound(k, s) /\ searchQueue' = InsertAfter(searchQueue, k, s)
  /\ adding' = adding \ {s}
  /\ UNCHANGED <<popping, age, minInterval, connected>>

\* on(Second) of a connected hub: maybePop looks at the time ...
CheckTime ==
  /\ connected /\ ~popping /\ QueueTimeOver
  /\ popping' = TRUE
  /\ UNCHANGED <<searchQueue, adding, age, minInterval, connected>>

\* Mutant of Pop: the newest search is taken.
PopBack ==
  /\ popping
  /\ popping' = FALSE
  /\ \/ /\ searchQueue # << >>
        /\ searchQueue' = SubSeq(searchQueue, 1, Len(searchQueue) - 1)
        /\ age' = 0
     \/ searchQueue = << >> /\ UNCHANGED <<searchQueue, age>>
  /\ UNCHANGED <<adding, minInterval, connected>>

\* ... and takes the search that is first by now.
Pop ==
  /\ popping
  /\ popping' = FALSE
  /\ \/ /\ searchQueue # << >>
        /\ searchQueue' = Tail(searchQueue)
        /\ age' = 0
     \/ searchQueue = << >> /\ UNCHANGED <<searchQueue, age>>
  /\ UNCHANGED <<adding, minInterval, connected>>

\* The queue outlives the connection to the hub.
Connect ==
  /\ ~connected /\ connected' = TRUE
  /\ UNCHANGED <<searchQueue, adding, popping, age, minInterval>>

Disconnect ==
  /\ connected /\ connected' = FALSE
  /\ UNCHANGED <<searchQueue, adding, popping, age, minInterval>>

reloadSettings ==
  /\ minInterval' \in MinIntervals
  /\ UNCHANGED <<searchQueue, adding, popping, age, connected>>

Elapse ==
  /\ age < MaxAge
  /\ age' = age + 1
  /\ UNCHANGED <<searchQueue, adding, popping, minInterval, connected>>

-----------------------------------------------------------------------------
Next ==
  \/ \E o \in Owners : Cancel(o)
  \/ \E s \in Searches : Add(s) \/ Insert(s)
  \/ CheckTime \/ Pop
  \/ Connect \/ Disconnect \/ reloadSettings \/ Elapse

\* The hub's timer fires every second and time passes.
Fairness == WF_vars(CheckTime) /\ WF_vars(Pop) /\ WF_vars(Elapse)

Spec == Init /\ [][Next]_vars /\ Fairness

-----------------------------------------------------------------------------
(* Properties *)

TypeOK ==
  /\ searchQueue \in Seq(Searches)
  /\ adding \subseteq Searches
  /\ popping \in BOOLEAN
  /\ age \in 0..MaxAge
  /\ minInterval \in MinIntervals
  /\ connected \in BOOLEAN

\* The queue is sorted by priority whenever the lock is free, whichever
\* searches were added, cancelled and sent in between: std::upper_bound
\* relies on it.
SortedQueue ==
  \A i, j \in 1..Len(searchQueue) :
    i < j => priority[searchQueue[i]] >= priority[searchQueue[j]]

\* A search object is in the queue once.
NoDuplicates ==
  /\ \A i, j \in 1..Len(searchQueue) :
       searchQueue[i] = searchQueue[j] => i = j
  /\ \A s \in adding : ~InQueue(s)

SearchInvariant == TypeOK /\ SortedQueue /\ NoDuplicates

Before(q, s1, s2) ==
  \E i, j \in 1..Len(q) : i < j /\ q[i] = s1 /\ q[j] = s2

\* Nobody is overtaken by a search of the same or a lower priority, whatever
\* the other threads do: s2 gets in front of s1 only if it is stronger.
NoOvertaking ==
  [][\A s1, s2 \in Searches :
       InQueue(s1) /\ Before(searchQueue', s2, s1) /\ ~Before(searchQueue, s2, s1)
         => priority[s2] > priority[s1]]_vars

\* A search of the highest priority leaves the queue if the hub stays
\* connected, however many others are queued behind it.
HighestLeaves ==
  <>[]connected =>
    \A s \in Searches :
      (\A x \in Searches : priority[x] <= priority[s]) => []<>(~InQueue(s))

\* At most one search of an owner is queued ("Queues a new search, removes all
\* possible existing items from the same owner").
OneSearchPerOwner ==
  \A i, j \in 1..Len(searchQueue) :
    owner[searchQueue[i]] = owner[searchQueue[j]] /\ i # j
      => owner[searchQueue[i]] = NoOwner

\* A search is sent no sooner than its interval allows ("Pops the next search
\* item if one is available and it's allowed by the search intervals").
IntervalRespected ==
  [][Pop /\ searchQueue # << >>
       => age >= getInterval(priority[Head(searchQueue)])]_vars

=============================================================================
