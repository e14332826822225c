--------------------------- MODULE UploadManager ---------------------------
(***************************************************************************)
(* Upload slots (transfer/upload/UploadManager.cpp) and the queue of users *)
(* that wait for one (transfer/upload/UploadQueueManager.cpp).             *)
(*                                                                         *)
(* Every upload connection runs in its own socket thread; a thread's place *)
(* in the code is task[c].  A request is served under slotCS, but a        *)
(* connection that fails gives its slot back without it, and the counters  *)
(* are plain uint8_t members: `x++' is a load and a later store.  Only     *)
(* changeMultiConnSlot holds cs while it does so.  The timer thread        *)
(* notifies the waiting users and posts the deletion of idle uploads to    *)
(* the thread of their connection.                                         *)
(*                                                                         *)
(* Left out: which file is sent and how (a failed open is a               *)
(* nondeterministic choice), the transfer's speed (lowSpeedSlotsRemaining  *)
(* may or may not find it low), and the connection attempt that follows a  *)
(* notification (a connection may arrive at any time).                     *)
(***************************************************************************)
EXTENDS Integers, Sequences, FiniteSets, Lists

CONSTANTS
    Conns,         \* upload connections
    Users,
    UserOf,        \* the user of each connection
    Mcn,           \* connections of users that support multiple connections
    Nmdc,          \* connections that use the NMDC commands
    MiniSlots,     \* connections with FLAG_SUPPORTS_MINISLOTS
    Tokens,        \* transfer tokens of one connection (the bound on posted deletions)
    SlotCount,     \* AutoLimitUtil::getSlots
    SlotsPerUser,  \* AutoLimitUtil::getSlotsPerUser, 0 for no limit
    ExtraSlots,    \* SETTING(EXTRA_SLOTS)
    SmallLimit,    \* the 8 of parseSlotHookedThrow
    Requests,      \* what is asked for: a subset of {"normal", "mini", "small"}
    Grants,        \* what the hooks may answer for each user
    Ops,           \* users that are operators of their hub
    LowSpeed,      \* SETTING(AUTO_SLOTS) speed limit is set
    MaxAutoOpened, \* AutoLimitUtil::getMaxAutoOpened
    Wrap,          \* the values of a uint8_t: 256, less where a run bounds the drift
    Delays,        \* may a segment end before its file (TRUE) or with it (FALSE)
    Leavers        \* users that go offline and return

Hooks == {"none", "file", "user", "reject"}

ASSUME UploadAssumption ==
    /\ IsFiniteSet(Conns) /\ IsFiniteSet(Users)
    /\ UserOf \in [Conns -> Users]
    /\ Mcn \subseteq Conns /\ Nmdc \subseteq Conns \ Mcn /\ MiniSlots \subseteq Conns
    /\ Wrap \in Nat \ {0} /\ SlotCount \in 0..(Wrap - 1) /\ SlotsPerUser \in Nat
    /\ ExtraSlots \in Nat /\ SmallLimit \in Nat /\ MaxAutoOpened \in Nat
    /\ Requests \subseteq {"normal", "mini", "small"}
    /\ Grants \in [Users -> SUBSET Hooks]
    /\ Ops \subseteq Users
    /\ LowSpeed \in BOOLEAN /\ Delays \subseteq BOOLEAN /\ Leavers \subseteq Users
    /\ "none" \notin Tokens

VARIABLES
    conn,       \* connection: its state, its slot and its current upload
    closing,    \* connections that were told to disconnect
    task,       \* where the thread of each connection is
    count,      \* the uint8_t counters
    multi,      \* multiUploads: MCN upload connections per user
    uploads,    \* running uploads, <<connection, token>>
    delayed,    \* delayUploads: finished segments that may be resumed
    posted,     \* deletions of delayed uploads posted to their connections
    queue,      \* uploadQueue: users waiting for a slot
    notified,   \* notifiedUsers, with the age of the notification
    timerFree,  \* free slots as read by the timer, -1 when it is not notifying
    online

connVars  == <<conn, closing, task>>
slotVars  == <<count, multi>>
fileVars  == <<uploads, delayed, posted>>
queueVars == <<queue, notified, timerFree, online>>
vars == <<connVars, slotVars, fileVars, queueVars>>

FileSlots == {"small", "mini", "file"}
SlotKinds == FileSlots \cup {"none", "user"}
Counters  == {"running", "mcn", "small", "extra"}

\* Places inside the slotCS section of prepareFile.
Section == {"gate", "parse", "refuse", "open", "drop", "dropStore", "add", "addStore", "finish"}
\* A counter has been loaded and not yet stored.
Storing == {"dropStore", "addStore", "loseStore"}
Places  == Section \cup {"idle", "unqueue", "lose", "loseStore"}

\* Mutant: the counters do not wrap around.
unbounded(n) == n
u8(n) == n % Wrap

NewConnection == [state |-> "closed", slot |-> "none", upload |-> "none"]
Idle == [pc |-> "idle", request |-> "normal", new |-> "none", reg |-> 0]

Init ==
    /\ conn = [c \in Conns |-> NewConnection]
    /\ closing = {}
    /\ task = [c \in Conns |-> Idle]
    /\ count = [k \in Counters |-> 0]
    /\ multi = [u \in Users |-> 0]
    /\ uploads = {} /\ delayed = {} /\ posted = {}
    /\ queue = <<>>
    /\ notified = [u \in Users |-> "no"]
    /\ timerFree = -1
    /\ online = Users

-----------------------------------------------------------------------------
(* Locks and the questions asked about the slots. *)

pc(c) == task[c].pc
\* Mutant: prepareFile does not take slotCS.
NoSlotCS == TRUE
SlotCSFree == \A c \in Conns : pc(c) \notin Section

\* The slot a counter operation of the thread is about: the new one while it
\* is added, the present one while it is given back.
SlotAt(c) == IF pc(c) \in {"add", "addStore"} THEN task[c].new ELSE conn[c].slot

\* The counter of a slot; "multi" is changeMultiConnSlot.
CounterOf(c, slot) ==
    CASE slot = "user"  -> IF c \in Mcn THEN "multi" ELSE "running"
      [] slot = "mini"  -> "extra"
      [] slot = "small" -> "small"
      [] OTHER          -> "none"

\* cs is held from the change of multiUploads to the store of runningUsers.
HoldsCs(c) == pc(c) \in Storing /\ CounterOf(c, SlotAt(c)) = "multi"
\* Mutant: changeMultiConnSlot does not take cs.
NoCs == TRUE
CsFree == \A c \in Conns : ~HoldsCs(c)

Type(slot) == CASE slot = "none" -> 0 [] slot = "user" -> 2 [] OTHER -> 1

NonNegative(n) == IF n > 0 THEN n ELSE 0
getFreeSlots == NonNegative(SlotCount - count["running"])
getFreeExtraSlots == NonNegative(ExtraSlots - count["extra"])

Notified == {u \in Users : notified[u] # "no"}
Queued(u) == \E i \in DOMAIN queue : queue[i] = u
Unqueued(u) == Filter(queue, Users \ {u})

allowUser(u) == (queue = <<>> /\ Notified = {}) \/ u \in Notified

\* Whether an extra slot may be opened because the uploads are slow: the
\* measured speed and the 30 seconds since the last grant are left open.
lowSpeedSlotsRemaining ==
    IF LowSpeed /\ SlotCount + MaxAutoOpened > count["running"] THEN BOOLEAN ELSE {FALSE}

standardSlotsRemaining(u, low) == (getFreeSlots > 0 /\ allowUser(u)) \/ low

getFreeMultiConn ==
    SlotCount - count["running"] - count["mcn"] + Cardinality({u \in Users : multi[u] > 0})

Highest(others) == CHOOSE n \in {0} \cup {multi[v] : v \in others} :
                       \A v \in others : multi[v] <= n

allowNewMultiConn(c) ==
    LET u    == UserOf[c]
        more == multi[u] + 1
    IN  IF multi[u] > 0
        THEN /\ more <= Highest(Users \ {u}) \/ (getFreeMultiConn > 0 /\ allowUser(u))
             /\ SlotsPerUser > 0 => more <= SlotsPerUser
        ELSE getFreeSlots > 0 /\ allowUser(u)

\* parseSlotHookedThrow after the MCN check; "none" is the refusal.
parseSlot(c, hook, low) ==
    IF c \in Mcn /\ task[c].request = "small"
           /\ (conn[c].slot = "small" \/ count["small"] <= SmallLimit)
      THEN "small"
    ELSE IF hook = "user" \/ standardSlotsRemaining(UserOf[c], low)
      THEN "user"
    ELSE IF hook = "none" /\ task[c].request # "normal" /\ c \in MiniSlots
              /\ (conn[c].slot = "mini" \/ UserOf[c] \in Ops \/ getFreeExtraSlots > 0)
      THEN "mini"
    ELSE hook

-----------------------------------------------------------------------------
(* The steps of prepareFile. *)

\* The thread moves on; the values it no longer needs are forgotten.
Go(c, place) == task' = [task EXCEPT ![c] = [Idle EXCEPT !.pc = place]]
GoWith(c, place, slot) == task' = [task EXCEPT ![c] = [Idle EXCEPT !.pc = place, !.new = slot]]

\* A request that names a file of the share enters the slotCS section.
Get(c, request) ==
    /\ pc(c) = "idle" /\ conn[c].state = "GET" /\ SlotCSFree
    /\ task' = [task EXCEPT ![c].pc = "gate", ![c].request = request]
    /\ UNCHANGED <<conn, closing, slotVars, fileVars, queueVars>>

\* The permanent slot is kept; a user with MCN uploads may be refused.
Gate(c) ==
    /\ pc(c) = "gate" /\ CsFree
    /\ IF conn[c].slot = "user"
       THEN GoWith(c, "open", "user")
       ELSE IF task[c].request # "small" /\ multi[UserOf[c]] > 0 /\ ~allowNewMultiConn(c)
       THEN Go(c, "refuse")
       ELSE task' = [task EXCEPT ![c].pc = "parse"]
    /\ UNCHANGED <<conn, closing, slotVars, fileVars, queueVars>>

Parse(c, hook) ==
    /\ pc(c) = "parse"
    /\ \E low \in lowSpeedSlotsRemaining :
         LET slot == parseSlot(c, hook, low)
         IN  /\ hook # "reject"
             /\ IF slot = "none"
                THEN Go(c, "refuse")
                ELSE GoWith(c, "open", slot)
    /\ UNCHANGED <<conn, closing, slotVars, fileVars, queueVars>>

\* A hook threw HookRejectException.
Rejected(c) ==
    /\ pc(c) = "parse" /\ "reject" \in Grants[UserOf[c]]
    /\ closing' = closing \cup {c}
    /\ Go(c, "idle")
    /\ UNCHANGED <<conn, slotVars, fileVars, queueVars>>

\* No slot: the user is queued unless he has MCN uploads already.
Refuse(c) ==
    LET u == UserOf[c] IN
    /\ pc(c) = "refuse" /\ CsFree
    /\ queue' = IF multi[u] > 0 \/ Queued(u) THEN queue ELSE Append(queue, u)
    /\ closing' = closing \cup {c}
    /\ Go(c, "idle")
    /\ UNCHANGED <<conn, slotVars, fileVars, notified, timerFree, online>>

DelayedOf(c) == {x \in delayed : x[1] = c}

\* resumeStream: a delayed upload of the connection is deleted, resumed or not.
\* The new upload has a token that no list and no posted deletion knows.
Open(c) ==
    /\ pc(c) = "open" /\ CsFree
    /\ delayed' = delayed \ DelayedOf(c)
    /\ \E t \in Tokens :
         /\ <<c, t>> \notin uploads \cup delayed \cup posted
         /\ uploads' = uploads \cup {<<c, t>>}
         /\ conn' = [conn EXCEPT ![c].upload = t]
    /\ IF Type(conn[c].slot) = Type(task[c].new) THEN Go(c, "unqueue") ELSE GoWith(c, "drop", task[c].new)
    /\ UNCHANGED <<closing, slotVars, posted, queueVars>>

\* toUpload failed: the delayed upload is gone, the slot is not touched.
OpenFailed(c) ==
    /\ pc(c) = "open" /\ CsFree
    /\ delayed' = delayed \ DelayedOf(c)
    /\ conn' = [conn EXCEPT ![c].upload = IF DelayedOf(c) = {} THEN @ ELSE "none"]
    /\ Go(c, "idle")
    /\ UNCHANGED <<closing, slotVars, uploads, posted, queueVars>>

-----------------------------------------------------------------------------
(* updateSlotCounts and removeSlot: a counter is loaded, then stored. *)

Delta(c) == IF pc(c) \in {"add", "addStore"} THEN 1 ELSE -1

StoreOf == [drop |-> "dropStore", add |-> "addStore", lose |-> "loseStore"]

\* What follows when the old slot is given back (the new one is set), the new
\* one is counted, or the slot of a failed connection is lost.
Counted(c, place) ==
    CASE place \in {"drop", "dropStore"} ->
           /\ conn' = [conn EXCEPT ![c].slot = task[c].new]
           /\ GoWith(c, "add", task[c].new)
           /\ UNCHANGED <<closing>>
      [] place \in {"add", "addStore"} ->
           /\ Go(c, IF task[c].new = "user" THEN "finish" ELSE "unqueue")
           /\ UNCHANGED <<conn, closing>>
      [] OTHER ->
           /\ conn' = [conn EXCEPT ![c] = NewConnection]
           /\ closing' = closing \ {c}
           /\ Go(c, "idle")

\* NOSLOT, or a slot of a hook that no counter follows.
NotCounted(c) ==
    /\ pc(c) \in DOMAIN StoreOf
    /\ CounterOf(c, SlotAt(c)) = "none"
    /\ Counted(c, pc(c))
    /\ UNCHANGED <<slotVars, fileVars, queueVars>>

Load(c) ==
    /\ pc(c) \in DOMAIN StoreOf
    /\ LET k == CounterOf(c, SlotAt(c))
       IN  /\ k \in Counters
           /\ task' = [task EXCEPT ![c].pc = StoreOf[@], ![c].reg = count[k]]
    /\ UNCHANGED <<conn, closing, slotVars, fileVars, queueVars>>

\* changeMultiConnSlot: the first connection of a user takes a slot of
\* runningUsers and his last one returns it; cs stays held for that store.
changeMultiConnSlot(c) ==
    LET u == UserOf[c]
        n == multi[u] + Delta(c)
    IN
    /\ pc(c) \in DOMAIN StoreOf
    /\ CounterOf(c, SlotAt(c)) = "multi"
    /\ CsFree
    /\ IF n >= 0
       THEN /\ multi' = [multi EXCEPT ![u] = n]
            /\ count' = [count EXCEPT !["mcn"] = u8(@ + Delta(c))]
            /\ IF 0 \in {n, multi[u]}
               THEN /\ task' = [task EXCEPT ![c].pc = StoreOf[@], ![c].reg = count["running"]]
                    /\ UNCHANGED <<conn, closing>>
               ELSE Counted(c, pc(c))
       ELSE Counted(c, pc(c)) /\ UNCHANGED slotVars
    /\ UNCHANGED <<fileVars, queueVars>>

Store(c) ==
    /\ pc(c) \in Storing
    /\ LET k == CounterOf(c, SlotAt(c))
       IN  count' = [count EXCEPT ![IF k = "multi" THEN "running" ELSE k] = u8(task[c].reg + Delta(c))]
    /\ Counted(c, pc(c))
    /\ UNCHANGED <<multi, fileVars, queueVars>>

\* disconnectExtraMultiConn picks a running upload of a user with the most
\* connections; the order of the lists it searches is left open.
Extra == {x \in uploads : /\ \A v \in Users : multi[v] <= multi[UserOf[x[1]]]
                          /\ conn[x[1]].slot = "user"}

disconnectExtraMultiConn(low) ==
    IF low \/ getFreeMultiConn >= 0 \/ \A u \in Users : multi[u] <= 1
    THEN closing' = closing
    ELSE \E u \in {v \in Users : \A w \in Users : multi[w] <= multi[v]} :
           LET mine == {x \in Extra : UserOf[x[1]] = u}
           IN  IF mine = {} THEN closing' = closing
               ELSE \E x \in mine : closing' = closing \cup {x[1]}

\* The end of the slotCS section for a user that got a permanent slot.
Finish(c) ==
    /\ pc(c) = "finish" /\ CsFree
    /\ \E low \in lowSpeedSlotsRemaining : disconnectExtraMultiConn(low)
    /\ Go(c, "unqueue")
    /\ UNCHANGED <<conn, slotVars, fileVars, queueVars>>

\* removeQueue, outside slotCS; then the transfer starts or, in NMDC, the
\* length is sent.
removeQueue(c) ==
    LET u == UserOf[c] IN
    /\ pc(c) = "unqueue"
    /\ queue' = Unqueued(u)
    /\ notified' = [notified EXCEPT ![u] = "no"]
    /\ conn' = [conn EXCEPT ![c].state = IF c \in Nmdc THEN "SEND" ELSE "RUNNING"]
    /\ Go(c, "idle")
    /\ UNCHANGED <<closing, slotVars, fileVars, timerFree, online>>

-----------------------------------------------------------------------------
(* The other events of a connection. *)

addConnection(c) ==
    /\ pc(c) = "idle" /\ conn[c].state = "closed"
    /\ conn' = [conn EXCEPT ![c].state = "GET"]
    /\ posted' = {x \in posted : x[1] # c}
    /\ UNCHANGED <<closing, task, slotVars, uploads, delayed, queueVars>>

Send(c) ==
    /\ pc(c) = "idle" /\ conn[c].state = "SEND"
    /\ conn' = [conn EXCEPT ![c].state = "RUNNING"]
    /\ UNCHANGED <<closing, task, slotVars, fileVars, queueVars>>

\* removeUpload(aUpload, aDelay): an upload that is already delayed is deleted.
removeUpload(c, delay) ==
    LET x == <<c, conn[c].upload>> IN
    /\ uploads' = uploads \ (IF x \in delayed THEN {} ELSE {x})
    /\ delayed' = IF delay /\ x \notin delayed THEN delayed \cup {x} ELSE delayed \ {x}
    /\ UNCHANGED posted

\* The segment is sent; delay says whether it ends before the file does.
TransmitDone(c, delay) ==
    /\ pc(c) = "idle" /\ conn[c].state = "RUNNING" /\ CsFree
    /\ removeUpload(c, delay)
    /\ conn' = [conn EXCEPT ![c].state = "GET",
                            ![c].upload = IF delay THEN @ ELSE "none"]
    /\ UNCHANGED <<closing, task, slotVars, queueVars>>

\* The upload is removed; removeConnection then gives the slot back without
\* slotCS.
Failed(c) ==
    /\ pc(c) = "idle" /\ conn[c].state # "closed"
    /\ IF conn[c].upload = "none"
       THEN UNCHANGED <<uploads, delayed, posted>>
       ELSE CsFree /\ removeUpload(c, FALSE)
    /\ conn' = [conn EXCEPT ![c].upload = "none"]
    /\ Go(c, "lose")
    /\ UNCHANGED <<closing, slotVars, queueVars>>

\* abortUpload and disconnectOfflineUsers.
Disconnect(c) ==
    /\ \E x \in uploads \cup delayed : x[1] = c
    /\ CsFree
    /\ closing' = closing \cup {c}
    /\ UNCHANGED <<conn, task, slotVars, fileVars, queueVars>>

\* The timer finds a delayed upload that was idle for DELAY_SECONDS and posts
\* its deletion once.
checkExpiredDelayUploads(x) ==
    /\ x \notin posted /\ CsFree
    /\ posted' = posted \cup {x}
    /\ UNCHANGED <<connVars, slotVars, uploads, delayed, queueVars>>

\* Mutant: the callback deletes whatever upload the connection has.
KnownConnection(x) == conn[x[1]].upload # "none"
\* getAsyncWrapper: the upload is looked up again when the callback runs.
Known(x) == x \in uploads \cup delayed

deleteExpired(x) ==
    /\ pc(x[1]) = "idle" /\ CsFree
    /\ posted' = posted \ {x}
    /\ IF Known(x)
       THEN /\ delayed' = delayed \ {x}
            /\ conn' = [conn EXCEPT ![x[1]].upload = "none"]
       ELSE UNCHANGED <<delayed, conn>>
    /\ UNCHANGED <<closing, task, slotVars, uploads, queueVars>>

-----------------------------------------------------------------------------
(* The timer and the users of the queue. *)

\* freeSlotF() is evaluated before notifyQueuedUsers takes the queue's lock.
Second ==
    /\ timerFree = -1
    /\ timerFree' = getFreeSlots
    /\ UNCHANGED <<connVars, slotVars, fileVars, queue, notified, online>>

OnlineIn(positions) == {i \in positions : queue[i] \in online}

\* The positions that the loop of notifyQueuedUsers takes off the queue: it
\* stops when as many online users were notified as uint8_t freeslots says.
Taken(free) ==
    {i \in DOMAIN queue : Cardinality(OnlineIn(1..(i - 1))) < free}

Reservable == u8(timerFree - Cardinality(Notified))

notifyQueuedUsers ==
    LET taken == IF timerFree = 0 THEN {} ELSE Taken(Reservable)
        told  == {queue[i] : i \in OnlineIn(taken)}
    IN
    /\ timerFree # -1
    /\ queue' = SubSeq(queue, Cardinality(taken) + 1, Len(queue))
    /\ notified' = [u \in Users |-> IF u \in told THEN "fresh" ELSE notified[u]]
    /\ timerFree' = -1
    /\ UNCHANGED <<connVars, slotVars, fileVars, online>>

\* A notification older than 90 seconds is dropped, with the user's place.
\* Mutant: only users that are waiting again are dropped.
ExpiredWaiting(u) == notified[u] = "old" /\ Queued(u)
ExpiredUser(u) == notified[u] = "old"
Minute ==
    /\ \E u \in Users : ExpiredUser(u)
    /\ queue' = Filter(queue, {u \in Users : ~ExpiredUser(u)})
    /\ notified' = [u \in Users |-> IF ExpiredUser(u) THEN "no" ELSE notified[u]]
    /\ UNCHANGED <<connVars, slotVars, fileVars, timerFree, online>>

Elapse(u) ==
    /\ notified[u] = "fresh"
    /\ notified' = [notified EXCEPT ![u] = "old"]
    /\ UNCHANGED <<connVars, slotVars, fileVars, queue, timerFree, online>>

UserDisconnected(u) ==
    /\ u \in online \cap Leavers
    /\ online' = online \ {u}
    /\ queue' = Unqueued(u)
    /\ UNCHANGED <<connVars, slotVars, fileVars, notified, timerFree>>

UserConnected(u) ==
    /\ u \notin online
    /\ online' = online \cup {u}
    /\ UNCHANGED <<connVars, slotVars, fileVars, queue, notified, timerFree>>

-----------------------------------------------------------------------------
Request(c) ==
    \/ \E r \in Requests : Get(c, r)
    \/ Gate(c)
    \/ \E hook \in Grants[UserOf[c]] : Parse(c, hook)
    \/ Rejected(c)
    \/ Refuse(c)
    \/ Open(c)
    \/ OpenFailed(c)
    \/ NotCounted(c)
    \/ Load(c)
    \/ changeMultiConnSlot(c)
    \/ Store(c)
    \/ Finish(c)
    \/ removeQueue(c)

Event(c) ==
    \/ addConnection(c)
    \/ Send(c)
    \/ \E delay \in Delays : TransmitDone(c, delay)
    \/ Failed(c)
    \/ Disconnect(c)

Timer ==
    \/ Second
    \/ notifyQueuedUsers
    \/ Minute
    \/ \E x \in delayed : checkExpiredDelayUploads(x)

User(u) ==
    \/ Elapse(u)
    \/ UserDisconnected(u)
    \/ UserConnected(u)

Next ==
    \/ \E c \in Conns : Request(c) \/ Event(c)
    \/ Timer
    \/ \E x \in posted : deleteExpired(x)
    \/ \E u \in Users : User(u)

Spec == Init /\ [][Next]_vars

(* The timer thread runs every second and every minute, and time passes. *)
LiveSpec ==
    /\ Spec
    /\ WF_vars(Second) /\ WF_vars(notifyQueuedUsers) /\ WF_vars(Minute)
    /\ \A u \in Users : WF_vars(Elapse(u))

-----------------------------------------------------------------------------
(* Properties. *)

ConnType == [state : {"closed", "GET", "SEND", "RUNNING"}, slot : SlotKinds,
             upload : Tokens \cup {"none"}]
TaskType == [pc : Places, request : {"normal", "mini", "small"}, new : SlotKinds, reg : 0..(Wrap - 1)]

\* The types of the variables; the counters keep the eight bits of
\* UploadManager.h:101 whatever the races between the threads do to them.
TypeOK ==
    /\ conn \in [Conns -> ConnType]
    /\ closing \subseteq Conns
    /\ task \in [Conns -> TaskType]
    /\ count \in [Counters -> 0..(Wrap - 1)]
    /\ multi \in [Users -> Nat]
    /\ uploads \subseteq Conns \X Tokens
    /\ delayed \subseteq Conns \X Tokens
    /\ posted \subseteq Conns \X Tokens
    /\ queue \in Seq(Users)
    /\ notified \in [Users -> {"no", "fresh", "old"}]
    /\ timerFree \in -1..(Wrap - 1)
    /\ online \subseteq Users

\* Places of a request before and after its upload is created, and of a
\* connection that failed.
Asking == {"gate", "parse", "refuse", "open"}
Answering == {"drop", "dropStore", "add", "addStore", "finish", "unqueue"}
Losing == {"lose", "loseStore"}

Transferring(c) ==
    \/ pc(c) \in Answering
    \/ pc(c) = "idle" /\ conn[c].state \in {"SEND", "RUNNING"}

\* The upload of a connection is on exactly one of the two lists, and every
\* upload on a list is the one its connection points to: what the dcasserts of
\* resumeStream, removeUpload, removeConnection and Upload::Upload rely on.  The
\* upload is on the running list exactly while the connection transfers, so
\* neither a late deletion posted by checkExpiredDelayUploads nor a resumed
\* request deletes an upload that is being sent.
UploadOwned ==
    /\ \A x \in uploads \cup delayed : conn[x[1]].upload = x[2]
    /\ uploads \cap delayed = {}
    /\ \A c \in Conns :
         LET x == <<c, conn[c].upload>> IN
         /\ conn[c].upload # "none" => x \in uploads \cup delayed
         /\ x \in uploads <=> Transferring(c)

\* UploadOwned with what makes it inductive: a request is served in STATE_GET, a
\* connection that is gone has no upload, and a posted deletion is of an upload
\* that was delayed.
UploadInvariant ==
    /\ UploadOwned
    /\ \A c \in Conns :
         /\ pc(c) \in Asking \cup Answering => conn[c].state = "GET"
         /\ pc(c) \in Losing \/ conn[c].state = "closed" => conn[c].upload = "none"
    /\ posted \cap uploads = {}

\* Whether the permanent slot of an MCN connection is counted in multiUploads.
HasMulti(c) ==
    /\ c \in Mcn /\ conn[c].slot = "user"
    /\ pc(c) \notin {"add", "loseStore"}

\* A store of runningUsers by a thread in changeMultiConnSlot is pending.
Pending(d) == Cardinality({c \in Conns : HoldsCs(c) /\ Delta(c) = d})

\* With MCN connections only, where every change of runningUsers and
\* mcnConnections is made under cs, multiUploads has the number of slots of each
\* user, mcnConnections their sum and runningUsers the number of such users.
McnCounted ==
    /\ \A u \in Users : multi[u] = Cardinality({c \in Conns : UserOf[c] = u /\ HasMulti(c)})
    /\ count["mcn"] = Cardinality({c \in Conns : HasMulti(c)})
    /\ count["running"] + Pending(1) = Cardinality({u \in Users : multi[u] > 0}) + Pending(-1)

\* With MCN connections only, runningUsers grows beyond the slots of the
\* settings and those opened for a low speed only for a user to whom a hook may
\* grant a slot: for everybody else the check of standardSlotsRemaining still
\* holds when the slot is counted, because of slotCS and although slots are
\* given back without it.
WithinSlots ==
    [][ /\ count'["running"] > count["running"]
        /\ count'["running"] > SlotCount + (IF LowSpeed THEN MaxAutoOpened ELSE 0)
        => \E c \in Conns : /\ pc(c) = "addStore" /\ pc(c)' # pc(c)
                            /\ "user" \in Grants[UserOf[c]] ]_vars

\* A waiting user is notified or leaves the queue unless the slots run out
\* again and again: a reservation of a user that does not come is dropped by
\* on(Minute) and his slot offered to the next one.
QueueServed ==
    \A u \in Users : []<>(getFreeSlots = 0) \/ (Queued(u) ~> ~Queued(u))

Holders == {UserOf[c] : c \in {d \in Mcn : conn[d].slot = "user"}}
Singles == {c \in Conns \ Mcn : conn[c].slot = "user"}

\* getFreeSlots returns the number of free slots when no thread is changing one.
FreeSlotsExact ==
    (\A c \in Conns : pc(c) = "idle") =>
        getFreeSlots = NonNegative(SlotCount - Cardinality(Holders) - Cardinality(Singles))

\* notifyQueuedUsers reserves no more slots than were free.
ReservedSlots ==
    [][ \A u \in Users : notified[u] = "no" /\ notified'[u] = "fresh"
                             => Cardinality(Notified') <= timerFree ]_vars
=============================================================================
