------------------------- MODULE SegmentedDownload --------------------------
(***************************************************************************)
(* What the queue promises for a file that is downloaded in segments: the  *)
(* sources are given disjoint work that is still to be done, what is had   *)
(* only grows by work that was given, or is lost as a whole, and the file  *)
(* is complete exactly once, when all of it is had.                        *)
(***************************************************************************)
EXTENDS Naturals

CONSTANTS
  Users,       \* the sources
  Positions    \* the units of the file

VARIABLES
  have,        \* units that need not be requested
  given,       \* what each source has been asked for
  state        \* QUEUED, DOWNLOADED or REMOVED

vars == <<have, given, state>>

Nobody == [u \in Users |-> {}]

Init == have = {} /\ given = Nobody /\ state = "QUEUED"

\* A source is asked for something that nobody else has been asked for.  A
\* block may be asked for again as long as a part of it is missing.  The file
\* may turn out to be gone from the disk at this point.
Give(u) ==
  /\ state = "QUEUED" /\ given[u] = {}
  /\ \E S \in SUBSET Positions :
       /\ \A v \in Users : S \cap given[v] = {}
       /\ given' = [given EXCEPT ![u] = S]
       /\ have' \in {have, {}}
       /\ S \ have' # {}
  /\ UNCHANGED state

Lose ==
  /\ state = "QUEUED" /\ have # {}
  /\ have' = {}
  /\ UNCHANGED <<given, state>>

\* A source returns what it was given, all of it or a first part.
Take(u) ==
  /\ state = "QUEUED" /\ given[u] # {}
  /\ \E S \in SUBSET given[u] : have' = have \cup S
  /\ given' = [given EXCEPT ![u] = {}]
  /\ UNCHANGED state

Finish(u) ==
  /\ state = "QUEUED" /\ have # Positions
  /\ have \cup given[u] = Positions
  /\ have' = Positions
  /\ given' = Nobody
  /\ state' = "DOWNLOADED"

Remove ==
  /\ state # "REMOVED"
  /\ state' = "REMOVED"
  /\ given' = Nobody
  /\ have' = {}

\* A finished file is checked: what is had is forgotten, and then found again.
\* If something is missing, the file is queued again.
Doubt ==
  /\ state = "DOWNLOADED"
  /\ have' = {}
  /\ UNCHANGED <<given, state>>

Verify ==
  /\ state = "DOWNLOADED" /\ have = {}
  /\ have' \in SUBSET Positions
  /\ state' = IF have' = Positions THEN "DOWNLOADED" ELSE "QUEUED"
  /\ UNCHANGED given

Next == Lose \/ Remove \/ Doubt \/ Verify \/ \E u \in Users : Give(u) \/ Take(u) \/ Finish(u)

Spec == Init /\ [][Next]_vars
=============================================================================
