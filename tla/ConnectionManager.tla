-------------------------- MODULE ConnectionManager --------------------------
(***************************************************************************)
(* The download side of ConnectionManager: connection queue items (CQIs),  *)
(* the user connections that serve them, the one-second timer that sends   *)
(* connect requests, and the MCN rules that let a peer be downloaded from  *)
(* over several connections.                                               *)
(*                                                                         *)
(* Threads: one socket thread per user connection, the timer thread, the   *)
(* hub thread, and any number of callers of getDownloadConnection.  A      *)
(* handler that releases `cs` between two critical sections is split where *)
(* the lock is released; sections that only hold the shared lock are split *)
(* where another reader can observe or overwrite what they decided on.     *)
(***************************************************************************)
EXTENDS Integers, Sequences, FiniteSets

CONSTANTS
  Users,          \* remote users
  LeavingUsers,   \* those that may leave and rejoin the hubs
  McnUsers,       \* those whose client supports multiple connections (MCN1)
  Tokens,         \* connect tokens; the pool bounds the number of items
  Conns,          \* UserConnection objects; bounds the simultaneous ones
  Hub,            \* the hub thread
  NoUser, NoToken,
  FileKinds,      \* kinds of files that may be queued
  OwnLimit,       \* AutoLimitUtil::getSlotsPerUser(true), 0: unlimited
  RemoteLimits,   \* values a peer may announce as CO in its INF
  AttemptLimit,   \* SETTING(DOWNCONN_PER_SEC), 0: unlimited
  MaxErrors,      \* errors saturate here
  MaxInvites,     \* connect requests in flight per token
  MaxEvents,      \* queued State callbacks per connection
  ProtocolErrors, \* may attempts fail with a protocol error?
  PeerRepeatsInf  \* may a peer send its INF twice?

ASSUME ConstantsAssumption ==
  /\ McnUsers \subseteq Users
  /\ LeavingUsers \subseteq Users
  /\ NoUser \notin Users
  /\ NoToken \notin Tokens
  /\ Hub \notin Conns
  /\ FileKinds \subseteq {"small", "normal"}
  /\ OwnLimit \in Nat
  /\ RemoteLimits \subseteq Nat
  /\ AttemptLimit \in Nat
  /\ MaxErrors \in Nat
  /\ MaxInvites \in Nat \ {0}
  /\ MaxEvents \in Nat \ {0}
  /\ ProtocolErrors \in BOOLEAN
  /\ PeerRepeatsInf \in BOOLEAN

VARIABLES
  downloads,             \* the download CQIs, in list order, by token
  cqi,                   \* the item of each token
  removedDownloadTokens, \* tokens of items removed before they were ACTIVE
  timer,                 \* the timer thread inside on(Second)
  uc,                    \* the user connections
  mcnUser,               \* user for whom a thread is inside createNewMCN
  invited,               \* connect requests the peer has not answered yet
  caller,                \* the thread inside getDownloadConnection
  wants,                 \* kinds of files queued from each user
  online,                \* users online in some hub
  fatal                  \* history: items whose last outcome was a protocol
                         \* error that nobody has forced or overcome since

itemVars == <<downloads, cqi, removedDownloadTokens, fatal>>
connVars == <<uc, mcnUser>>
queueVars == <<caller, wants, online>>
vars == <<itemVars, timer, connVars, invited, queueVars>>

-----------------------------------------------------------------------------
(* Values *)

Types == {"ANY", "SMALL", "MCN_NORMAL"}
\* lastAttempt as the code's comparisons see it: never or forced (0), less
\* than 50 s ago, past the time-out, past the retry delay.  "minusOne" is the
\* value resetFatalError looks for.
Ages == {"zero", "fresh", "late", "due", "minusOne"}

Item == [user : Users \cup {NoUser}, state : {"WAITING", "CONNECTING", "ACTIVE"},
         downloadType : Types, lastAttempt : Ages, errors : (-1)..MaxErrors,
         maxRemoteConns : Nat, mcn : BOOLEAN, running : BOOLEAN]

NewItem(u) ==
  [user |-> u, state |-> "WAITING", downloadType |-> "ANY",
   lastAttempt |-> "zero", errors |-> 0, maxRemoteConns |-> 0,
   mcn |-> FALSE, running |-> FALSE]

\* `pc` is the place of the connection's socket thread between two critical
\* sections; `dm` says whether DownloadManager listens to the connection.
Connection == [user : Users \cup {NoUser}, token : Tokens \cup {NoToken},
               state : {"FREE", "INF", "SND", "RUNNING", "IDLE"},
               pc : {"none", "add", "assoc", "check", "fail", "fatal",
                     "putCQI", "put"},
               inf : BOOLEAN, assoc : BOOLEAN, small : BOOLEAN, dm : BOOLEAN,
               idler : BOOLEAN, revive : BOOLEAN, events : 0..MaxEvents]

NoConnection ==
  [user |-> NoUser, token |-> NoToken, state |-> "FREE", pc |-> "none",
   inf |-> FALSE, assoc |-> FALSE, small |-> FALSE, dm |-> FALSE,
   idler |-> FALSE, revive |-> FALSE, events |-> 0]

\* One thread at a time calls getDownloadConnection.
Call == [pc : {"none", "idle", "add"}, user : Users \cup {NoUser}, small : BOOLEAN]
NoCall == [pc |-> "none", user |-> NoUser, small |-> FALSE]

Init ==
  /\ downloads = << >>
  /\ cqi = [t \in Tokens |-> NewItem(NoUser)]
  /\ removedDownloadTokens = {}
  /\ timer = [pc |-> "sleep", idx |-> 0, attempts |-> 0, removed |-> {}]
  /\ uc = [c \in Conns |-> NoConnection]
  /\ mcnUser = [x \in Conns \cup {Hub} |-> NoUser]
  /\ invited = [t \in Tokens |-> 0]
  /\ caller = NoCall
  /\ wants = [u \in Users |-> {}]
  /\ online = Users
  /\ fatal = {}

-----------------------------------------------------------------------------
(* The lock `cs`: shared by the timer's scan and by a connection between   *)
(* the check and the update of addDownloadConnection, exclusive while the  *)
(* timer removes items.  Every other section is a single step.             *)

RLock == timer.pc # "remove"
\* Mutant of WLock: the shared lock taken where the exclusive one is needed.
SharedWLock == RLock
WLock == timer.pc \in {"sleep", "purge"} /\ \A c \in Conns : uc[c].pc # "assoc"

Queued(t) == \E i \in 1..Len(downloads) : downloads[i] = t
RemoveAt(s, i) == SubSeq(s, 1, i - 1) \o SubSeq(s, i + 1, Len(s))
Increment(n, bound) == IF n < bound THEN n + 1 ELSE n

\* createToken draws at random until the token is unused: a token comes back
\* only once nothing in the system remembers it.
Unused(t) ==
  /\ ~Queued(t)
  /\ invited[t] = 0
  /\ t \notin removedDownloadTokens
  /\ t \notin timer.removed
  /\ \A c \in Conns : uc[c].token # t

getCQIUnsafe(t, item) ==
  /\ Unused(t)
  /\ downloads' = Append(downloads, t)
  /\ cqi' = [cqi EXCEPT ![t] = item]
  /\ fatal' = fatal \ {t}

\* What is left of the item's token once the item is deleted.
putCQIUnsafe(t, i) ==
  /\ downloads' = RemoveAt(downloads, i)
  /\ cqi' = [cqi EXCEPT ![t] = NewItem(cqi[t].user)]
  /\ removedDownloadTokens' = IF cqi[t].state = "ACTIVE"
                                THEN removedDownloadTokens
                                ELSE removedDownloadTokens \cup {t}
  /\ fatal' = fatal \ {t}

-----------------------------------------------------------------------------
(* QueueManager::startDownload, as far as ConnectionManager looks at it *)

KindsOf(type) == CASE type = "SMALL"      -> FileKinds \cap {"small"}
                   [] type = "MCN_NORMAL" -> FileKinds \cap {"normal"}
                   [] OTHER               -> FileKinds

hasDownload(u, type) == u \in online /\ wants[u] \cap KindsOf(type) # {}

-----------------------------------------------------------------------------
(* ConnectionQueueItem *)

allowNewConnections(item, running) ==
  /\ item.maxRemoteConns = 0 \/ running < item.maxRemoteConns
  /\ OwnLimit = 0 \/ running < OwnLimit

allowConnect(t, attempts) ==
  \/ cqi[t].lastAttempt = "zero" /\ attempts < 2 * AttemptLimit
  \/ /\ AttemptLimit = 0 \/ attempts < AttemptLimit
     /\ cqi[t].lastAttempt \in {"zero", "due"}

isTimeout(t) ==
  cqi[t].state = "CONNECTING" /\ cqi[t].lastAttempt \in {"zero", "late", "due"}

resetFatalError(item) ==
  IF item.lastAttempt = "minusOne" THEN [item EXCEPT !.lastAttempt = "zero"]
                                   ELSE item

\* An existing item of the user forbids a new one.
Blocks(item, u, small) ==
  /\ item.user = u
  /\ \/ ~item.mcn
     \/ item.downloadType = "MCN_NORMAL" /\ ~item.running /\ ~small
     \/ item.downloadType = "SMALL" /\ small

\* allowNewMCNUnsafe over the list s of the items q.  The limits are read from
\* the item the loop ended with: the last one of the whole list.
allowNewMCN(s, q, u, small) ==
  LET ofUser  == {i \in 1..Len(s) : q[s[i]].user = u}
      running == {i \in ofUser : q[s[i]].downloadType = "MCN_NORMAL"
                                   /\ q[s[i]].running}
  IN /\ \A i \in ofUser : ~Blocks(q[s[i]], u, small)
     /\ ofUser # {} /\ ~small =>
          allowNewConnections(q[s[Len(s)]], Cardinality(running))

-----------------------------------------------------------------------------
(* on(Second): attemptDownloads scans the list under the shared lock, and  *)
(* the items it decided to drop are removed under the exclusive one.       *)

TimerStart ==
  /\ timer.pc = "sleep" /\ RLock
  /\ timer' = [pc |-> "scan", idx |-> 1, attempts |-> 0, removed |-> {}]
  /\ UNCHANGED <<itemVars, connVars, queueVars, invited>>

Current == downloads[timer.idx]
NextItem == [timer EXCEPT !.pc = "scan", !.idx = @ + 1]
DropItem == [NextItem EXCEPT !.removed = @ \cup {Current}]

Scanning == timer.pc = "scan" /\ timer.idx <= Len(downloads)
ScanStep == UNCHANGED <<connVars, queueVars, downloads, removedDownloadTokens, fatal>>

\* Mutant of ProtocolFailure: the test is forgotten.
NoProtocolFailure(t) == FALSE
ProtocolFailure(t) == cqi[t].errors = -1 /\ cqi[t].lastAttempt # "zero"

\* ACTIVE items and items waiting after a protocol error are skipped, items
\* of offline users are dropped.
TimerSkip ==
  /\ Scanning
  /\ \/ /\ \/ cqi[Current].state = "ACTIVE"
           \/ /\ cqi[Current].user \in online
              /\ \/ ProtocolFailure(Current)
                 \/ /\ ~allowConnect(Current, timer.attempts)
                    /\ ~isTimeout(Current)
        /\ timer' = NextItem
     \/ /\ cqi[Current].state # "ACTIVE"
        /\ cqi[Current].user \notin online
        /\ timer' = DropItem
  /\ UNCHANGED <<cqi, invited>>
  /\ ScanStep

Attemptable(t) ==
  cqi[t].state # "ACTIVE" /\ cqi[t].user \in online /\ ~ProtocolFailure(t)

\* A request that got no answer: the error is counted and listeners are told
\* before the state is written back.
TimerTimeout ==
  /\ Scanning
  /\ Attemptable(Current)
  /\ ~allowConnect(Current, timer.attempts) /\ isTimeout(Current)
  /\ cqi' = [cqi EXCEPT ![Current].errors = Increment(@, MaxErrors)]
  /\ timer' = [timer EXCEPT !.pc = "timeout"]
  /\ UNCHANGED invited
  /\ ScanStep

\* Mutant of TimerSetWaiting: the error is counted but the item stays as it is.
TimerKeepConnecting ==
  /\ timer.pc = "timeout"
  /\ timer' = NextItem
  /\ UNCHANGED <<cqi, invited>>
  /\ ScanStep

TimerSetWaiting ==
  /\ timer.pc = "timeout"
  /\ cqi' = [cqi EXCEPT ![Current].state = "WAITING"]
  /\ timer' = NextItem
  /\ UNCHANGED invited
  /\ ScanStep

\* attemptDownloadUnsafe up to the call of connectUnsafe.  `kind` is the kind
\* of the file startDownload chose ("none": files exist but none can start),
\* `slot` whether the download limits let it start.
Alone(t) == \A i \in 1..Len(downloads) :
              downloads[i] # t => cqi[downloads[i]].user # cqi[t].user

AttemptType(t, kind) ==
  LET type == cqi[t].downloadType
  IN IF type = "SMALL" /\ ~hasDownload(cqi[t].user, type) /\ Alone(t) THEN "ANY"
     ELSE IF type = "ANY" /\ kind = "small" THEN "SMALL"
     ELSE type

MayConnect(t) ==
  \/ cqi[t].state = "WAITING"
  \/ /\ cqi[t].lastAttempt = "zero" /\ cqi[t].state = "CONNECTING"
     /\ \A c \in Conns : uc[c].token # t

TimerAttempt(kind, slot) ==
  /\ Scanning
  /\ Attemptable(Current) /\ allowConnect(Current, timer.attempts)
  /\ LET t    == Current
         u    == cqi[t].user
         type == IF cqi[t].downloadType = "SMALL"
                   THEN AttemptType(t, "none") ELSE cqi[t].downloadType
     IN /\ IF hasDownload(u, type)
             THEN kind \in (wants[u] \cap KindsOf(type)) \cup {"none"}
             ELSE kind = "none"
        /\ slot => kind # "none"
        /\ IF hasDownload(u, type) /\ slot /\ MayConnect(t)
             THEN /\ cqi' = [cqi EXCEPT ![t].downloadType = AttemptType(t, kind)]
                  /\ timer' = [timer EXCEPT !.pc = "connect"]
             ELSE /\ cqi' = [cqi EXCEPT ![t].downloadType = AttemptType(t, kind),
                                        ![t].lastAttempt = "fresh"]
                  /\ timer' = IF hasDownload(u, type) THEN NextItem ELSE DropItem
  /\ UNCHANGED invited
  /\ ScanStep

\* connectUnsafe: the hub is asked to connect; on success a request is on its
\* way to the peer.
AttemptedItem(item, result) ==
  [item EXCEPT !.state = IF result = "sent" THEN "CONNECTING" ELSE "WAITING",
               !.errors = CASE result = "sent"          -> @
                            [] result = "protocolError" -> -1
                            [] OTHER                    -> Increment(@, MaxErrors),
               !.lastAttempt = "fresh"]

TimerConnect(result) ==
  /\ timer.pc = "connect"
  /\ result = "protocolError" => ProtocolErrors
  /\ cqi' = [cqi EXCEPT ![Current] = AttemptedItem(@, result)]
  /\ invited' = IF result = "sent"
                  THEN [invited EXCEPT ![Current] = Increment(@, MaxInvites)]
                  ELSE invited
  /\ timer' = [NextItem EXCEPT !.attempts = IF result = "sent" THEN @ + 1 ELSE @]
  /\ fatal' = IF result = "protocolError" THEN fatal \cup {Current} ELSE fatal
  /\ UNCHANGED <<connVars, queueVars, downloads, removedDownloadTokens>>

TimerScanned ==
  /\ timer.pc = "scan" /\ timer.idx > Len(downloads)
  /\ timer' = [pc |-> IF timer.removed = {} THEN "sleep" ELSE "purge",
               idx |-> 0, attempts |-> 0, removed |-> timer.removed]
  /\ UNCHANGED <<itemVars, connVars, queueVars, invited>>

TimerPurge ==
  /\ timer.pc = "purge" /\ WLock
  /\ timer' = [timer EXCEPT !.pc = "remove"]
  /\ UNCHANGED <<itemVars, connVars, queueVars, invited>>

\* The items are looked up by token only: what has happened to them since the
\* scan is not looked at.
TimerRemove ==
  /\ timer.pc = "remove"
  /\ \/ \E t \in timer.removed :
          /\ timer' = [timer EXCEPT !.removed = @ \ {t}]
          /\ \/ \E i \in 1..Len(downloads) :
                  downloads[i] = t /\ putCQIUnsafe(t, i)
             \/ /\ ~Queued(t)
                /\ UNCHANGED itemVars
     \/ /\ timer.removed = {}
        /\ timer' = [timer EXCEPT !.pc = "sleep"]
        /\ UNCHANGED itemVars
  /\ UNCHANGED <<connVars, queueVars, invited>>

-----------------------------------------------------------------------------
(* The connection of a peer that answers a request, up to its association  *)
(* with an item                                                            *)

Ready(c) == uc[c].state # "FREE" /\ uc[c].pc = "none" /\ mcnUser[c] = NoUser

\* The peer connects (or asks us to), and both sides have sent their SUP.
Handshake(c, t) ==
  /\ uc[c].state = "FREE" /\ mcnUser[c] = NoUser /\ invited[t] > 0
  /\ invited' = [invited EXCEPT ![t] = @ - 1]
  /\ uc' = [uc EXCEPT ![c] = [NoConnection EXCEPT
              !.user = cqi[t].user, !.token = t, !.state = "INF"]]
  /\ UNCHANGED <<itemVars, queueVars, timer, mcnUser>>

\* putConnection: the connection is forgotten and its socket closed.
Forget(c) == uc' = [uc EXCEPT ![c] = NoConnection]

\* on(INF), for a token we have handed out.  A token of neither an item nor a
\* removed item makes the connection an upload, outside this module.
INF(c, co) ==
  /\ Ready(c) /\ RLock /\ uc[c].state = "INF"
  /\ uc[c].inf => PeerRepeatsInf
  /\ LET t == uc[c].token
     IN \/ /\ Queued(t)
           /\ cqi' = [cqi EXCEPT ![t].errors = 0,
                        ![t].maxRemoteConns =
                           IF uc[c].user \in McnUsers THEN co ELSE @]
           /\ fatal' = fatal \ {t}
           /\ uc' = [uc EXCEPT ![c].inf = TRUE, ![c].pc = "add"]
        \/ /\ ~Queued(t) /\ t \in removedDownloadTokens
           /\ uc' = [uc EXCEPT ![c].inf = TRUE]
           /\ UNCHANGED <<cqi, fatal>>
        \/ /\ ~Queued(t) /\ t \notin removedDownloadTokens
           /\ Forget(c)
           /\ UNCHANGED <<cqi, fatal>>
  /\ UNCHANGED <<queueVars, downloads, removedDownloadTokens, timer, mcnUser, invited>>

\* findDownloadUnsafe: by token for MCN connections, by user for the others.
IsDownloadOf(c, t) == IF uc[c].user \in McnUsers THEN uc[c].token = t
                                                 ELSE cqi[t].user = uc[c].user
findDownload(c, t) ==
  /\ IsDownloadOf(c, t)
  /\ \E i \in 1..Len(downloads) :
       downloads[i] = t /\ \A j \in 1..(i - 1) : ~IsDownloadOf(c, downloads[j])

\* addDownloadConnection, the test
AddDownloadCheck(c) ==
  /\ uc[c].pc = "add" /\ RLock
  /\ IF \E t \in Tokens : findDownload(c, t) /\ cqi[t].state # "ACTIVE"
       THEN uc' = [uc EXCEPT ![c].pc = "assoc"]
       ELSE Forget(c)
  /\ UNCHANGED <<itemVars, queueVars, timer, mcnUser, invited>>

\* addDownloadConnection, the update; the shared lock is held since the test.
ActiveItem(item, isMCN) ==
  [item EXCEPT !.state = "ACTIVE",
               !.downloadType = IF isMCN /\ @ # "SMALL" THEN "MCN_NORMAL" ELSE @,
               !.mcn = @ \/ isMCN]

AddDownloadConnection(c) ==
  /\ uc[c].pc = "assoc"
  /\ \E t \in Tokens :
       LET isMCN == uc[c].user \in McnUsers
           small == isMCN /\ cqi[t].downloadType = "SMALL"
       IN /\ findDownload(c, t)
          /\ cqi' = [cqi EXCEPT ![t] = ActiveItem(@, isMCN)]
          /\ uc' = [uc EXCEPT ![c] = [@ EXCEPT
               !.token = t, !.assoc = TRUE, !.small = small, !.dm = TRUE,
               !.pc = "check"]]
          /\ fatal' = fatal \ {t}
  /\ UNCHANGED <<queueVars, downloads, removedDownloadTokens, timer, mcnUser,
                 invited>>

-----------------------------------------------------------------------------
(* DownloadManager, as far as it moves the state of a connection *)

getDownloadType(c) == IF uc[c].small THEN "SMALL"
                      ELSE IF uc[c].user \in McnUsers THEN "MCN_NORMAL"
                      ELSE "ANY"

SetState(c, state) ==
  uc' = [uc EXCEPT ![c].state = state, ![c].pc = "none",
                   ![c].idler = (state = "IDLE"),
                   ![c].events = IF uc[c].state = state THEN @
                                 ELSE Increment(@, MaxEvents)]

IdlerFor(c, u, small) ==
  uc[c].idler /\ uc[c].user = u /\ (u \in McnUsers => uc[c].small = small)

\* checkDownloads: `started` when getDownload returned a download.
CheckDownloads(c, started) ==
  /\ uc[c].pc = "check"
  /\ LET has == wants[uc[c].user] \cap KindsOf(getDownloadType(c)) # {}
     IN \/ /\ started /\ has
           /\ SetState(c, "SND")
        \/ /\ ~started
           /\ has \/ uc[c].state = "RUNNING"
           /\ IF \E d \in Conns : IdlerFor(d, uc[c].user, uc[c].small)
                THEN uc' = [uc EXCEPT ![c].pc = "none"]
                ELSE SetState(c, "IDLE")
        \/ /\ ~started /\ ~has /\ uc[c].state # "RUNNING"
           /\ uc' = [uc EXCEPT ![c].pc = "none", ![c].dm = FALSE]
  /\ UNCHANGED <<itemVars, queueVars, timer, mcnUser, invited>>

\* startData: the peer sends.
StartData(c) ==
  /\ Ready(c) /\ uc[c].dm /\ uc[c].state = "SND"
  /\ SetState(c, "RUNNING")
  /\ UNCHANGED <<itemVars, queueVars, timer, mcnUser, invited>>

\* endData: the segment is complete, the next one is looked for.
EndData(c) ==
  /\ Ready(c) /\ uc[c].dm /\ uc[c].state = "RUNNING"
  /\ uc' = [uc EXCEPT ![c].pc = "check"]
  /\ UNCHANGED <<itemVars, queueVars, timer, mcnUser, invited>>

\* reviveThreaded: an idle connection is asked to look for downloads again.
Revive(c) ==
  /\ Ready(c) /\ uc[c].revive
  /\ uc' = [uc EXCEPT ![c].revive = FALSE, ![c].idler = FALSE,
                      ![c].pc = IF uc[c].idler THEN "check" ELSE "none"]
  /\ UNCHANGED <<itemVars, queueVars, timer, mcnUser, invited>>

-----------------------------------------------------------------------------
(* Running, idle and failed downloads *)

IsExtra(t, x) ==
  /\ cqi[t].mcn /\ cqi[t].downloadType = "MCN_NORMAL"
  /\ cqi[x].user = cqi[t].user /\ x # t
  /\ cqi[x].downloadType # "SMALL" /\ cqi[x].state # "ACTIVE"

\* removeExtraMCNUnsafe while item t becomes `item`: the first inactive normal
\* item of the same user is removed.
removeExtraMCN(t, item) ==
  \/ \E i \in 1..Len(downloads) :
       LET x == downloads[i]
       IN /\ IsExtra(t, x)
          /\ \A j \in 1..(i - 1) : ~IsExtra(t, downloads[j])
          /\ downloads' = RemoveAt(downloads, i)
          /\ cqi' = [cqi EXCEPT ![t] = item, ![x] = NewItem(cqi[x].user)]
          /\ removedDownloadTokens' = removedDownloadTokens \cup {x}
  \/ /\ \A i \in 1..Len(downloads) : ~IsExtra(t, downloads[i])
     /\ cqi' = [cqi EXCEPT ![t] = item]
     /\ UNCHANGED <<downloads, removedDownloadTokens>>

\* Mutants of FailedItem: FLAG_RUNNING is not unset; an item that fails before
\* anything was received keeps its state.
FailedKeepsRunning(item, fatalError) ==
  IF item.state = "WAITING" THEN item
  ELSE [item EXCEPT !.state = "WAITING",
          !.errors = IF fatalError THEN -1 ELSE Increment(@, MaxErrors),
          !.lastAttempt = "fresh"]

FailedKeepsState(item, fatalError) ==
  IF item.running THEN [item EXCEPT !.running = FALSE, !.state = "WAITING"] ELSE item

FailedItem(item, fatalError) ==
  IF item.state = "WAITING" THEN [item EXCEPT !.running = FALSE]
  ELSE [item EXCEPT !.running = FALSE, !.state = "WAITING",
          !.errors = IF fatalError THEN -1 ELSE Increment(@, MaxErrors),
          !.lastAttempt = "fresh"]

\* failDownload, called by `thread`; a small slot that failed before it was
\* used leaves the thread inside createNewMCN.
failDownload(t, fatalError, thread) ==
  /\ WLock
  /\ \/ /\ Queued(t)
        /\ removeExtraMCN(t, FailedItem(cqi[t], fatalError))
        /\ fatal' = IF fatalError /\ cqi[t].state # "WAITING"
                      THEN fatal \cup {t} ELSE fatal
        /\ mcnUser' = [mcnUser EXCEPT ![thread] =
             IF /\ cqi[t].mcn /\ cqi[t].downloadType = "SMALL"
                /\ cqi[t].state = "ACTIVE"
                /\ allowNewMCN(downloads, cqi, cqi[t].user, FALSE)
               THEN cqi[t].user ELSE NoUser]
     \/ /\ ~Queued(t)
        /\ UNCHANGED <<itemVars, mcnUser>>

onIdle(c) ==
  /\ WLock
  /\ \/ \E t \in Tokens :
          /\ findDownload(c, t) /\ cqi[t].running
          /\ removeExtraMCN(t, [cqi[t] EXCEPT !.running = FALSE])
          /\ UNCHANGED fatal
     \/ /\ \A t \in Tokens : findDownload(c, t) => ~cqi[t].running
        /\ UNCHANGED itemVars
  /\ UNCHANGED mcnUser

onDownloadRunning(c) ==
  /\ RLock
  /\ \/ \E t \in Tokens :
          LET q == [cqi EXCEPT ![t].running = TRUE]
          IN /\ findDownload(c, t) /\ ~cqi[t].running
             /\ cqi' = q
             /\ mcnUser' = [mcnUser EXCEPT ![c] =
                  IF q[t].mcn /\ allowNewMCN(downloads, q, q[t].user, FALSE)
                    THEN uc[c].user ELSE NoUser]
     \/ /\ \A t \in Tokens : findDownload(c, t) => cqi[t].running
        /\ UNCHANGED <<cqi, mcnUser>>
  /\ UNCHANGED <<downloads, removedDownloadTokens, fatal>>

\* on(State): the callback acts on the state of the moment it runs in.
StateEvent(c) ==
  /\ Ready(c) /\ uc[c].events > 0
  /\ uc' = [uc EXCEPT ![c].events = @ - 1]
  /\ \/ uc[c].state = "IDLE" /\ onIdle(c)
     \/ uc[c].state = "RUNNING" /\ onDownloadRunning(c)
     \/ /\ uc[c].state \notin {"IDLE", "RUNNING"}
        /\ UNCHANGED <<itemVars, mcnUser>>
  /\ UNCHANGED <<queueVars, timer, invited>>

\* createNewMCN: the limits were checked in an earlier critical section.  The
\* queue is asked just before the lock is taken; the two are one step because
\* a stale answer only yields an item the next scan drops (or none, which is
\* the order in which the file was added afterwards).
createNewMCN(thread) ==
  /\ mcnUser[thread] # NoUser /\ WLock
  /\ LET u == mcnUser[thread]
     IN \/ /\ hasDownload(u, "MCN_NORMAL")
           /\ \E t \in Tokens : getCQIUnsafe(t,
                [NewItem(u) EXCEPT !.downloadType = "MCN_NORMAL", !.mcn = TRUE])
        \/ /\ ~hasDownload(u, "MCN_NORMAL")
           /\ UNCHANGED <<downloads, cqi, fatal>>
  /\ mcnUser' = [mcnUser EXCEPT ![thread] = NoUser]
  /\ UNCHANGED <<queueVars, removedDownloadTokens, timer, uc, invited>>

\* The tree of a finished file could not be saved: QueueManager fails the item
\* while its connection is still up, and DownloadManager lets go of it.
TreeSaveFailed(c) ==
  /\ Ready(c) /\ uc[c].dm /\ uc[c].state = "RUNNING" /\ ProtocolErrors
  /\ failDownload(uc[c].token, TRUE, c)
  /\ uc' = [uc EXCEPT ![c].dm = FALSE]
  /\ UNCHANGED <<queueVars, timer, invited>>

\* The peer answers a request with STA "protocol unsupported" (hub thread).
ProtocolUnsupported(t) ==
  /\ ProtocolErrors /\ invited[t] > 0 /\ mcnUser[Hub] = NoUser
  /\ invited' = [invited EXCEPT ![t] = @ - 1]
  /\ failDownload(t, TRUE, Hub)
  /\ UNCHANGED <<queueVars, timer, uc>>

\* failed(): the socket reports an error, a protocol error or the end of the
\* connection, whoever asked for it.  What to do with the item of an idle
\* connection is decided before the lock is taken.
Failed(c, protocolError) ==
  /\ Ready(c)
  /\ protocolError => ProtocolErrors
  /\ uc' = [uc EXCEPT ![c].pc =
       CASE ~uc[c].assoc -> "put"
         [] uc[c].assoc /\ uc[c].state = "IDLE"
              /\ ~hasDownload(uc[c].user, getDownloadType(c)) -> "putCQI"
         [] OTHER -> IF protocolError THEN "fatal" ELSE "fail"]
  /\ UNCHANGED <<itemVars, queueVars, timer, mcnUser, invited>>

FailedDownload(c) ==
  /\ uc[c].pc \in {"fail", "fatal"}
  /\ failDownload(uc[c].token, uc[c].pc = "fatal", c)
  /\ uc' = [uc EXCEPT ![c].pc = "put"]
  /\ UNCHANGED <<queueVars, timer, invited>>

\* putCQI: the code asserts that the item is in the list and dereferences it;
\* with no item there is no step.
PutCQI(c) ==
  /\ uc[c].pc = "putCQI" /\ WLock
  /\ \E i \in 1..Len(downloads) :
       downloads[i] = uc[c].token /\ putCQIUnsafe(uc[c].token, i)
  /\ uc' = [uc EXCEPT ![c].pc = "put"]
  /\ UNCHANGED <<queueVars, timer, mcnUser, invited>>

PutConnection(c) ==
  /\ uc[c].pc = "put" /\ mcnUser[c] = NoUser /\ WLock
  /\ Forget(c)
  /\ UNCHANGED <<itemVars, queueVars, timer, mcnUser, invited>>

-----------------------------------------------------------------------------
(* Callers *)

\* getDownloadConnection first tries to revive an idle connection ...
CheckIdle ==
  /\ caller.pc = "idle"
  /\ \/ \E c \in Conns :
          /\ IdlerFor(c, caller.user, caller.small)
          /\ uc' = [uc EXCEPT ![c].revive = TRUE]
          /\ caller' = NoCall
     \/ /\ \A c \in Conns : ~IdlerFor(c, caller.user, caller.small)
        /\ caller' = [caller EXCEPT !.pc = "add"]
        /\ UNCHANGED uc
  /\ UNCHANGED <<itemVars, timer, mcnUser, invited, wants, online>>

\* ... and then adds an item unless one of the user's items forbids it.  The
\* first such item is handed to resetFatalError when it waits.
getDownloadConnection ==
  LET Blocker(i) == Blocks(cqi[downloads[i]], caller.user, caller.small)
  IN /\ caller.pc = "add" /\ WLock
     /\ \/ /\ allowNewMCN(downloads, cqi, caller.user, caller.small)
           /\ \E t \in Tokens : getCQIUnsafe(t, [NewItem(caller.user) EXCEPT
                !.downloadType = IF caller.small THEN "SMALL" ELSE "ANY"])
        \/ \E i \in 1..Len(downloads) :
             LET t == downloads[i]
             IN /\ Blocker(i) /\ \A j \in 1..(i - 1) : ~Blocker(j)
                /\ cqi' = IF cqi[t].mcn /\ ~cqi[t].running
                            THEN [cqi EXCEPT ![t] = resetFatalError(cqi[t])]
                            ELSE cqi
                /\ UNCHANGED <<downloads, fatal>>
        \/ /\ ~allowNewMCN(downloads, cqi, caller.user, caller.small)
           /\ \A i \in 1..Len(downloads) : ~Blocker(i)
           /\ UNCHANGED <<downloads, cqi, fatal>>
     /\ caller' = NoCall
     /\ UNCHANGED <<connVars, removedDownloadTokens, timer, invited, wants, online>>

\* force(): an idle connection is revived, another item is attempted at once.
force(t) ==
  /\ RLock
  /\ \/ \E c \in Conns :
          /\ uc[c].idler /\ uc[c].token = t
          /\ uc' = [uc EXCEPT ![c].revive = TRUE]
          /\ UNCHANGED <<cqi, fatal>>
     \/ /\ \A c \in Conns : ~(uc[c].idler /\ uc[c].token = t)
        /\ Queued(t)
        /\ cqi' = [cqi EXCEPT ![t].lastAttempt = "zero"]
        /\ fatal' = fatal \ {t}
        /\ UNCHANGED uc
  /\ UNCHANGED <<queueVars, downloads, removedDownloadTokens, timer, mcnUser, invited>>

-----------------------------------------------------------------------------
(* The queue, the hubs, the network and the clock *)

CallFor(u, small) == [pc |-> "idle", user |-> u, small |-> small]

AddFile(u, kind) ==
  /\ u \in online /\ kind \notin wants[u] /\ caller.pc = "none"
  /\ wants' = [wants EXCEPT ![u] = @ \cup {kind}]
  /\ caller' = CallFor(u, kind = "small")
  /\ UNCHANGED <<itemVars, connVars, timer, invited, online>>

FilesFinished(u, kind) ==
  /\ kind \in wants[u]
  /\ wants' = [wants EXCEPT ![u] = @ \ {kind}]
  /\ UNCHANGED <<itemVars, connVars, timer, invited, caller, online>>

UserDisconnected(u) ==
  /\ u \in online \cap LeavingUsers
  /\ online' = online \ {u}
  /\ UNCHANGED <<itemVars, connVars, timer, invited, caller, wants>>

\* QueueManager asks for a connection when a source comes online.
UserConnected(u) ==
  /\ u \notin online /\ caller.pc = "none"
  /\ online' = online \cup {u}
  /\ caller' = IF wants[u] = {} THEN caller ELSE CallFor(u, FALSE)
  /\ UNCHANGED <<itemVars, connVars, timer, invited, wants>>

\* A request is lost, or the peer ignores it.
LoseRequest(t) ==
  /\ invited[t] > 0
  /\ invited' = [invited EXCEPT ![t] = @ - 1]
  /\ UNCHANGED <<itemVars, connVars, queueVars, timer>>

\* The timer runs every second: it sees every CONNECTING item at least once
\* between its time-out (50 s) and its retry delay (60 s or more).
Elapse(t) ==
  /\ Queued(t) /\ timer.pc = "sleep"
  /\ \/ /\ cqi[t].lastAttempt = "fresh"
        /\ cqi' = [cqi EXCEPT ![t].lastAttempt = "late"]
     \/ /\ cqi[t].lastAttempt = "late" /\ cqi[t].state # "CONNECTING"
        /\ cqi' = [cqi EXCEPT ![t].lastAttempt = "due"]
  /\ UNCHANGED <<connVars, queueVars, downloads, removedDownloadTokens, fatal,
                 timer, invited>>

\* on(Minute): removed tokens are forgotten after 90 seconds.
ForgetRemoved(t) ==
  /\ WLock /\ t \in removedDownloadTokens
  /\ removedDownloadTokens' = removedDownloadTokens \ {t}
  /\ UNCHANGED <<connVars, queueVars, downloads, cqi, fatal, timer, invited>>

-----------------------------------------------------------------------------
TimerStep ==
  \/ TimerStart \/ TimerSkip \/ TimerTimeout \/ TimerSetWaiting
  \/ \E kind \in FileKinds \cup {"none"}, slot \in BOOLEAN : TimerAttempt(kind, slot)
  \/ \E result \in {"sent", "failed", "protocolError"} : TimerConnect(result)
  \/ TimerScanned \/ TimerPurge \/ TimerRemove

SocketStep(c) ==
  \/ \E t \in Tokens : Handshake(c, t)
  \/ \E co \in RemoteLimits : INF(c, co)
  \/ AddDownloadCheck(c) \/ AddDownloadConnection(c)
  \/ \E started \in BOOLEAN : CheckDownloads(c, started)
  \/ StartData(c) \/ EndData(c) \/ Revive(c) \/ StateEvent(c)
  \/ TreeSaveFailed(c)
  \/ \E protocolError \in BOOLEAN : Failed(c, protocolError)
  \/ FailedDownload(c) \/ PutCQI(c) \/ PutConnection(c)

CallerStep ==
  \/ CheckIdle \/ getDownloadConnection
  \/ \E t \in Tokens : force(t)

EnvironmentStep ==
  \/ \E u \in Users, kind \in FileKinds : AddFile(u, kind) \/ FilesFinished(u, kind)
  \/ \E u \in Users : UserDisconnected(u) \/ UserConnected(u)
  \/ \E t \in Tokens : \/ LoseRequest(t) \/ Elapse(t) \/ ForgetRemoved(t)
                       \/ ProtocolUnsupported(t)

Next ==
  \/ TimerStep
  \/ \E c \in Conns : SocketStep(c)
  \/ \E thread \in Conns \cup {Hub} : createNewMCN(thread)
  \/ CallerStep
  \/ EnvironmentStep

\* The timer thread never stops, a socket thread that holds the lock gets on,
\* and time passes; nothing is assumed of peers or callers.
Fairness ==
  /\ WF_vars(TimerStep)
  /\ \A c \in Conns : WF_vars(AddDownloadConnection(c))
  /\ \A t \in Tokens : SF_vars(Elapse(t))

Spec == Init /\ [][Next]_vars /\ Fairness

-----------------------------------------------------------------------------
(* Properties *)

ItemsTypeOK ==
  /\ downloads \in Seq(Tokens)
  /\ cqi \in [Tokens -> Item]
  /\ removedDownloadTokens \subseteq Tokens
  /\ fatal \subseteq Tokens

TimerTypeOK ==
  /\ timer \in [pc : {"sleep", "scan", "timeout", "connect", "purge", "remove"},
                idx : Nat, attempts : Nat, removed : SUBSET Tokens]
  /\ timer.pc = "scan" => timer.idx > 0
  /\ timer.pc \in {"timeout", "connect"} => timer.idx \in 1..Len(downloads)

ConnsTypeOK ==
  /\ uc \in [Conns -> Connection]
  /\ mcnUser \in [Conns \cup {Hub} -> Users \cup {NoUser}]

QueueTypeOK ==
  /\ caller \in Call
  /\ wants \in [Users -> SUBSET FileKinds]
  /\ online \subseteq Users

\* The type invariant.  The timer keeps the position of the item it is busy
\* with while it calls out, so the list must not change under it.
TypeOK == /\ ItemsTypeOK /\ TimerTypeOK /\ ConnsTypeOK /\ QueueTypeOK
          /\ invited \in [Tokens -> 0..MaxInvites]

InUse(t) == cqi[t].state = "ACTIVE" \/ (cqi[t].mcn /\ cqi[t].running)
Serves(c, t) == uc[c].assoc /\ uc[c].token = t /\ uc[c].pc # "put"

\* An item that is ACTIVE, or counted as a running download, has a connection
\* in DownloadManager's hands whose failure will release it ("ACTIVE, // In one
\* up/downmanager"): the timer skips such an item and the running ones count
\* against the connection limits, so an orphan would never be tried again.
NoOrphanItem == \A t \in Tokens : InUse(t) => \E c \in Conns : Serves(c, t)

\* What NoOrphanItem needs to be inductive: where the socket thread stands
\* says whether its connection has been given to DownloadManager, ...
PhaseOK(conn) ==
  /\ conn.pc \in {"add", "assoc"} => conn.state = "INF" /\ conn.inf /\ ~conn.assoc
  /\ conn.pc \in {"check", "fail", "fatal", "putCQI"} => conn.assoc
  /\ conn.state \in {"SND", "RUNNING", "IDLE"} \/ conn.idler => conn.assoc
  /\ conn.assoc => conn.inf /\ conn.state # "FREE"

ConnectionPhases == \A c \in Conns : PhaseOK(uc[c])

\* ... a connection's token belongs to an item of its user, ...
TokenOwners ==
  \A c \in Conns, t \in Tokens : uc[c].token = t => uc[c].user = cqi[t].user

\* ... only users that support it have MCN items, ...
McnItems ==
  /\ \A t \in Tokens : cqi[t].mcn => cqi[t].user \in McnUsers
  /\ \A x \in Conns \cup {Hub} : mcnUser[x] \in McnUsers \cup {NoUser}

\* ... and an item that has left the list is neither active nor running.
UnqueuedItems ==
  \A t \in Tokens : ~Queued(t) => cqi[t].state = "WAITING" /\ ~cqi[t].running

\* The inductive invariant behind NoOrphanItem.
OrphanInvariant ==
  ConnectionPhases /\ TokenOwners /\ McnItems /\ UnqueuedItems /\ NoOrphanItem

\* An item whose last outcome is a protocol error sends no further connect
\* request, whatever else fails or times out meanwhile, until it is forced or
\* its peer completes a handshake.
NoUnforcedReconnect ==
  [][\A t \in Tokens : invited'[t] > invited[t] => t \notin fatal]_vars

\* A request to connect is given up: unless the user keeps forcing attempts,
\* no item stays CONNECTING for ever.  The exception is an item that keeps the
\* mark of a protocol error: attemptDownloads skips it before the time-out, so
\* that a forced attempt the peer does not answer is never given up.
ConnectingEnds ==
  \/ []<><<\E t \in Tokens : force(t)>>_vars
  \/ \A t \in Tokens : []<>(cqi[t].state # "CONNECTING" \/ cqi[t].errors = -1)

\* putCQI finds the item of the connection it is called for
\* (dcassert(i != container.end())).
PutCQIFindsItem == \A c \in Conns : uc[c].pc = "putCQI" => Queued(uc[c].token)

\* At most one waiting normal item per user ("we should keep only one waiting
\* connection").
OneWaitingItem ==
  \A t1, t2 \in Tokens :
    /\ Queued(t1) /\ Queued(t2) /\ t1 # t2
    /\ cqi[t1].user = cqi[t2].user
    /\ \A t \in {t1, t2} : cqi[t].state = "WAITING" /\ cqi[t].downloadType # "SMALL"
    => FALSE

\* At most one small slot item per user.
OneSmallItem ==
  \A t1, t2 \in Tokens :
    /\ Queued(t1) /\ Queued(t2)
    /\ cqi[t1].user = cqi[t2].user
    /\ cqi[t1].downloadType = "SMALL" /\ cqi[t2].downloadType = "SMALL"
    => t1 = t2

\* A new request for a user whose waiting item had a protocol error forces
\* that item ("Force in case we joined a new hub and there was a protocol
\* error").
NewRequestForces ==
  [][getDownloadConnection /\ downloads' = downloads =>
       \A i \in 1..Len(downloads) :
         LET t == downloads[i]
         IN Blocks(cqi[t], caller.user, caller.small) /\ cqi[t].mcn
              /\ ~cqi[t].running /\ cqi[t].errors = -1
              => cqi'[t].lastAttempt = "zero"]_vars

\* Files queued from an online user have an item to be fetched with once the
\* call of getDownloadConnection has returned.
RequestLeavesItem ==
  \A u \in online :
    wants[u] # {} /\ caller.user # u
      => \E i \in 1..Len(downloads) : cqi[downloads[i]].user = u

=============================================================================
