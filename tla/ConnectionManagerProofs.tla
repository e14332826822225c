----------------------- MODULE ConnectionManagerProofs -----------------------
(***************************************************************************)
(* The types of the connection manager, the timer's position in its list   *)
(* included; what becomes of items with a protocol error; and that no item *)
(* is left without a connection, for peers that send their INF once: for   *)
(* every number of users, tokens and connections.                          *)
(***************************************************************************)
EXTENDS ConnectionManager, SequenceTheorems, TLAPS

\* Removing one position of a list keeps its type and every other element.
LEMMA RemoveAtProperties ==
  ASSUME NEW S, NEW s \in Seq(S), NEW i \in 1..Len(s)
  PROVE  /\ RemoveAt(s, i) \in Seq(S) /\ Len(RemoveAt(s, i)) = Len(s) - 1
         /\ \A k \in 1..(Len(s) - 1) :
              RemoveAt(s, i)[k] = IF k < i THEN s[k] ELSE s[k + 1]
         /\ \A j \in 1..Len(s) : j # i =>
              \E k \in 1..Len(RemoveAt(s, i)) : RemoveAt(s, i)[k] = s[j]
<1> DEFINE a == SubSeq(s, 1, i - 1)
           b == SubSeq(s, i + 1, Len(s))
<1>1. /\ a \in Seq(S) /\ Len(a) = i - 1
      /\ \A k \in 1..(i - 1) : a[k] = s[k]
  BY SubSeqProperties
<1>2. /\ b \in Seq(S) /\ Len(b) = Len(s) - i
      /\ \A k \in 1..(Len(s) - i) : b[k] = s[i + k]
  BY SubSeqProperties
<1>3. /\ a \o b \in Seq(S) /\ Len(a \o b) = Len(s) - 1
      /\ \A k \in 1..(Len(s) - 1) : (a \o b)[k] = IF k < i THEN s[k] ELSE s[k + 1]
  <2> HIDE DEF a, b
  <2>0. a \in Seq(S) /\ b \in Seq(S) /\ Len(a) + Len(b) = Len(s) - 1
    BY <1>1, <1>2
  <2>1. a \o b \in Seq(S) /\ Len(a \o b) = Len(s) - 1
    BY <2>0, ConcatProperties
  <2>2. ASSUME NEW k \in 1..(Len(s) - 1)
        PROVE  (a \o b)[k] = IF k <= Len(a) THEN a[k] ELSE b[k - Len(a)]
    BY <2>0, ConcatProperties
  <2>3. ASSUME NEW k \in 1..(Len(s) - 1)
        PROVE  (a \o b)[k] = IF k < i THEN s[k] ELSE s[k + 1]
    <3>1. CASE k < i BY <1>1, <2>2, <3>1
    <3>2. CASE ~(k < i)
      <4>1. k - (i - 1) \in 1..(Len(s) - i) /\ i + (k - (i - 1)) = k + 1 BY <3>2
      <4> QED BY <1>1, <1>2, <2>2, <3>2, <4>1
    <3> QED BY <3>1, <3>2
  <2> QED BY <2>1, <2>3
<1>4. ASSUME NEW j \in 1..Len(s), j # i
      PROVE  \E k \in 1..(Len(s) - 1) : (a \o b)[k] = s[j]
  <2> HIDE DEF a, b
  <2>1. CASE j < i
    <3>1. j \in 1..(Len(s) - 1) BY <2>1
    <3>2. (a \o b)[j] = s[j] BY <1>3, <2>1, <3>1
    <3> QED BY <3>1, <3>2
  <2>2. CASE j > i
    <3>1. j - 1 \in 1..(Len(s) - 1) /\ ~(j - 1 < i) /\ (j - 1) + 1 = j BY <2>2
    <3>2. (a \o b)[j - 1] = s[(j - 1) + 1] BY <1>3, <3>1
    <3>3. (a \o b)[j - 1] = s[j] BY <3>1, <3>2
    <3> QED BY <3>1, <3>3
  <2>3. j < i \/ j > i BY <1>4
  <2> QED BY <2>1, <2>2, <2>3
<1> QED BY <1>3, <1>4 DEF RemoveAt

\* A saturating counter stays within its bound.
LEMMA IncrementType ==
  ASSUME NEW lo \in Int, NEW bound \in Int, NEW n \in lo..bound
  PROVE  Increment(n, bound) \in lo..bound
BY DEF Increment

\* What a step leaves alone keeps its type.
LEMMA Frames ==
  /\ ItemsTypeOK /\ UNCHANGED itemVars => ItemsTypeOK'
  /\ TimerTypeOK /\ UNCHANGED <<timer, downloads>> => TimerTypeOK'
  /\ ConnsTypeOK /\ UNCHANGED connVars => ConnsTypeOK'
  /\ QueueTypeOK /\ UNCHANGED queueVars => QueueTypeOK'
BY DEF ItemsTypeOK, TimerTypeOK, ConnsTypeOK, QueueTypeOK, itemVars, connVars, queueVars

\* The timer's item changes, the list does not.
LEMMA ItemChange ==
  ASSUME ItemsTypeOK, NEW t \in Tokens, NEW item \in Item,
         cqi' = [cqi EXCEPT ![t] = item],
         UNCHANGED <<downloads, removedDownloadTokens>>, fatal' \subseteq Tokens
  PROVE  ItemsTypeOK'
BY DEF ItemsTypeOK

\* While nobody is busy with a position, the list may change.
LEMMA TimerAway ==
  ASSUME TimerTypeOK, UNCHANGED timer, timer.pc \notin {"timeout", "connect"}
  PROVE  TimerTypeOK'
BY DEF TimerTypeOK

\* A new item has the type of an item.
LEMMA NewItemType ==
  ASSUME NEW u \in Users \cup {NoUser}
  PROVE  NewItem(u) \in Item
BY ConstantsAssumption DEF ConstantsAssumption, NewItem, Item, Types, Ages

\* Counting an error keeps the number of errors in its range.
LEMMA ItemIncrement ==
  ASSUME NEW item \in Item
  PROVE  Increment(item.errors, MaxErrors) \in (-1)..MaxErrors
BY ConstantsAssumption DEF ConstantsAssumption, Item, Increment

\* The initial state is well typed.
LEMMA InitType == Init => TypeOK
<1> SUFFICES ASSUME Init PROVE TypeOK
  OBVIOUS
<1> USE ConstantsAssumption DEF ConstantsAssumption
<1>1. NewItem(NoUser) \in Item BY NewItemType
<1>2. NoConnection \in Connection BY DEF NoConnection, Connection
<1>3. NoCall \in Call BY DEF NoCall, Call
<1> QED BY <1>1, <1>2, <1>3
        DEF Init, TypeOK, ItemsTypeOK, TimerTypeOK, ConnsTypeOK, QueueTypeOK

\* Removing the item at a position of the list, and adding one to it.
LEMMA PutCQIType ==
  ASSUME ItemsTypeOK, NEW t \in Tokens, NEW i \in 1..Len(downloads), putCQIUnsafe(t, i)
  PROVE  ItemsTypeOK'
<1>1. downloads' \in Seq(Tokens)
  BY RemoveAtProperties DEF putCQIUnsafe, ItemsTypeOK
<1>2. NewItem(cqi[t].user) \in Item
  BY NewItemType DEF ItemsTypeOK, Item
<1> QED BY <1>1, <1>2 DEF putCQIUnsafe, ItemsTypeOK

\* getCQIUnsafe appends a token and writes a well-typed item.
LEMMA GetCQIType ==
  ASSUME ItemsTypeOK, NEW t \in Tokens, NEW item \in Item, getCQIUnsafe(t, item),
         UNCHANGED removedDownloadTokens
  PROVE  ItemsTypeOK'
<1>1. downloads' \in Seq(Tokens)
  BY AppendProperties DEF getCQIUnsafe, ItemsTypeOK
<1> QED BY <1>1 DEF getCQIUnsafe, ItemsTypeOK

\* The item the timer is busy with, and the timer's next position.
LEMMA CurrentType ==
  ASSUME ItemsTypeOK, TimerTypeOK, Scanning \/ timer.pc \in {"timeout", "connect"}
  PROVE  /\ timer.idx \in 1..Len(downloads)
         /\ Current \in Tokens
         /\ cqi[Current] \in Item
<1>1. timer.idx \in 1..Len(downloads)
  BY DEF Scanning, TimerTypeOK, ItemsTypeOK
<1> QED BY <1>1 DEF ItemsTypeOK, Current

\* The timer moves on to the next item, with or without dropping this one.
LEMMA NextItemType ==
  ASSUME TimerTypeOK, Current \in Tokens, timer' = NextItem \/ timer' = DropItem
  PROVE  TimerTypeOK'
<1>1. CASE timer' = NextItem
  <2>1. timer' = [pc |-> "scan", idx |-> timer.idx + 1, attempts |-> timer.attempts,
                  removed |-> timer.removed]
    BY <1>1 DEF TimerTypeOK, NextItem
  <2> QED BY <2>1 DEF TimerTypeOK
<1>2. CASE timer' = DropItem
  <2>1. timer' = [pc |-> "scan", idx |-> timer.idx + 1, attempts |-> timer.attempts,
                  removed |-> timer.removed \cup {Current}]
    BY <1>2 DEF TimerTypeOK, NextItem, DropItem
  <2> QED BY <2>1 DEF TimerTypeOK
<1> QED BY <1>1, <1>2

\* connectUnsafe leaves a well-typed item, whatever the hub answered.
LEMMA AttemptedItemType ==
  ASSUME NEW item \in Item, NEW result \in {"sent", "failed", "protocolError"}
  PROVE  AttemptedItem(item, result) \in Item
<1> DEFINE errors == CASE result = "sent"          -> item.errors
                       [] result = "protocolError" -> -1
                       [] OTHER -> Increment(item.errors, MaxErrors)
           state == IF result = "sent" THEN "CONNECTING" ELSE "WAITING"
<1>1. errors \in (-1)..MaxErrors
  <2>1. CASE result = "sent" BY <2>1 DEF Item
  <2>2. CASE result = "protocolError"
    BY <2>2, ConstantsAssumption DEF ConstantsAssumption
  <2>3. CASE result = "failed" BY <2>3, ItemIncrement
  <2> QED BY <2>1, <2>2, <2>3
<1>2. AttemptedItem(item, result) =
        [item EXCEPT !.state = state, !.errors = errors, !.lastAttempt = "fresh"]
  BY DEF AttemptedItem
<1> HIDE DEF errors
<1> QED BY <1>1, <1>2 DEF Item, Ages

\* The steps of the timer thread.
LEMMA TimerType == TypeOK /\ TimerStep => TypeOK'
<1> SUFFICES ASSUME TypeOK, TimerStep PROVE TypeOK'
  OBVIOUS
<1>0. /\ ItemsTypeOK /\ TimerTypeOK /\ ConnsTypeOK /\ QueueTypeOK
      /\ invited \in [Tokens -> 0..MaxInvites]
  BY DEF TypeOK
<1> USE <1>0, Frames
<1>1. CASE TimerStart
  <2>1. TimerTypeOK' BY <1>1 DEF TimerStart, TimerTypeOK
  <2> QED BY <1>1, <2>1 DEF TimerStart, TypeOK
<1>2. CASE TimerSkip
  <2>1. TimerTypeOK' BY <1>2, CurrentType, NextItemType DEF TimerSkip
  <2>2. UNCHANGED <<itemVars, connVars, queueVars, invited>>
    BY <1>2 DEF TimerSkip, ScanStep, itemVars
  <2> QED BY <2>1, <2>2 DEF TypeOK
<1>3. CASE TimerTimeout
  <2>1. Current \in Tokens /\ cqi[Current] \in Item /\ timer.idx \in 1..Len(downloads)
    BY <1>3, CurrentType DEF TimerTimeout
  <2> DEFINE item == [cqi[Current] EXCEPT !.errors = Increment(@, MaxErrors)]
  <2>2. item \in Item BY <2>1, ItemIncrement DEF Item
  <2>3. UNCHANGED <<downloads, removedDownloadTokens, fatal, connVars, queueVars, invited>>
    BY <1>3 DEF TimerTimeout, ScanStep
  <2>4. cqi' = [cqi EXCEPT ![Current] = item] BY <1>3 DEF TimerTimeout
  <2>5. ItemsTypeOK'
    <3> HIDE DEF item
    <3> QED BY <2>1, <2>2, <2>3, <2>4, ItemChange DEF ItemsTypeOK
  <2>6. TimerTypeOK' BY <1>3, <2>1, <2>3 DEF TimerTimeout, TimerTypeOK
  <2> QED BY <2>3, <2>5, <2>6 DEF TypeOK
<1>4. CASE TimerSetWaiting
  <2>1. Current \in Tokens /\ cqi[Current] \in Item
    BY <1>4, CurrentType DEF TimerSetWaiting
  <2> DEFINE item == [cqi[Current] EXCEPT !.state = "WAITING"]
  <2>2. item \in Item BY <2>1 DEF Item
  <2>3. UNCHANGED <<downloads, removedDownloadTokens, fatal, connVars, queueVars, invited>>
    BY <1>4 DEF TimerSetWaiting, ScanStep
  <2>4. cqi' = [cqi EXCEPT ![Current] = item] BY <1>4 DEF TimerSetWaiting
  <2>5. ItemsTypeOK'
    <3> HIDE DEF item
    <3> QED BY <2>1, <2>2, <2>3, <2>4, ItemChange DEF ItemsTypeOK
  <2>6. TimerTypeOK' BY <1>4, <2>1, NextItemType DEF TimerSetWaiting
  <2> QED BY <2>3, <2>5, <2>6 DEF TypeOK
<1>5. ASSUME NEW kind \in FileKinds \cup {"none"}, NEW slot \in BOOLEAN,
             TimerAttempt(kind, slot)
      PROVE  TypeOK'
  <2>1. Current \in Tokens /\ cqi[Current] \in Item /\ timer.idx \in 1..Len(downloads)
    BY <1>5, CurrentType DEF TimerAttempt
  <2>2. AttemptType(Current, kind) \in Types
    BY <2>1 DEF AttemptType, Item, Types
  <2> DEFINE item1 == [cqi[Current] EXCEPT !.downloadType = AttemptType(Current, kind)]
             item2 == [item1 EXCEPT !.lastAttempt = "fresh"]
  <2>3. item1 \in Item BY <2>1, <2>2 DEF Item
  <2>4. item2 \in Item
    <3> HIDE DEF item1
    <3> QED BY <2>3 DEF Item, Ages
  <2>5. UNCHANGED <<downloads, removedDownloadTokens, fatal, connVars, queueVars, invited>>
    BY <1>5 DEF TimerAttempt, ScanStep
  <2>6. \/ cqi' = [cqi EXCEPT ![Current] = item1]
        \/ cqi' = [cqi EXCEPT ![Current] = item2]
    BY <1>5, <2>1 DEF TimerAttempt, ItemsTypeOK
  <2>7. ItemsTypeOK'
    <3> HIDE DEF item1, item2
    <3> QED BY <2>1, <2>3, <2>4, <2>5, <2>6, ItemChange DEF ItemsTypeOK
  <2>8. \/ timer' = [timer EXCEPT !.pc = "connect"]
        \/ timer' = NextItem \/ timer' = DropItem
    BY <1>5 DEF TimerAttempt
  <2>9. CASE timer' = [timer EXCEPT !.pc = "connect"]
    <3>1. TimerTypeOK' BY <2>1, <2>5, <2>9 DEF TimerTypeOK
    <3> QED BY <2>5, <2>7, <3>1 DEF TypeOK
  <2>10. CASE timer' = NextItem \/ timer' = DropItem
    <3>1. TimerTypeOK' BY <2>1, <2>10, NextItemType
    <3> QED BY <2>5, <2>7, <3>1 DEF TypeOK
  <2> QED BY <2>8, <2>9, <2>10
<1>6. ASSUME NEW result \in {"sent", "failed", "protocolError"}, TimerConnect(result)
      PROVE  TypeOK'
  <2>1. Current \in Tokens /\ cqi[Current] \in Item
    BY <1>6, CurrentType DEF TimerConnect
  <2> DEFINE item == AttemptedItem(cqi[Current], result)
  <2>3. item \in Item BY <2>1, AttemptedItemType
  <2>4. cqi' = [cqi EXCEPT ![Current] = item] BY <1>6 DEF TimerConnect
  <2>5. /\ UNCHANGED <<downloads, removedDownloadTokens, connVars, queueVars>>
        /\ fatal' \subseteq Tokens
        /\ timer' = [NextItem EXCEPT !.attempts = IF result = "sent" THEN @ + 1 ELSE @]
    BY <1>6, <2>1 DEF TimerConnect, ItemsTypeOK
  <2>6. ItemsTypeOK'
    <3> HIDE DEF item
    <3> QED BY <2>1, <2>3, <2>4, <2>5, ItemChange
  <2>7. invited' \in [Tokens -> 0..MaxInvites]
    <3>1. Increment(invited[Current], MaxInvites) \in 0..MaxInvites
      BY <2>1, ConstantsAssumption DEF ConstantsAssumption, Increment
    <3> QED BY <1>6, <2>1, <3>1 DEF TimerConnect
  <2>8. TimerTypeOK'
    <3> DEFINE attempts == IF result = "sent" THEN timer.attempts + 1 ELSE timer.attempts
    <3>1. timer' = [pc |-> "scan", idx |-> timer.idx + 1, attempts |-> attempts,
                    removed |-> timer.removed]
      BY <2>5 DEF NextItem, TimerTypeOK
    <3> QED BY <3>1 DEF TimerTypeOK
  <2> QED BY <2>5, <2>6, <2>7, <2>8 DEF TypeOK
<1>7. CASE TimerScanned
  <2>1. TimerTypeOK' BY <1>7 DEF TimerScanned, TimerTypeOK
  <2> QED BY <1>7, <2>1 DEF TimerScanned, TypeOK
<1>8. CASE TimerPurge
  <2>1. TimerTypeOK' BY <1>8 DEF TimerPurge, TimerTypeOK
  <2> QED BY <1>8, <2>1 DEF TimerPurge, TypeOK
<1>9. CASE TimerRemove
  <2>1. UNCHANGED <<connVars, invited, queueVars>> BY <1>9 DEF TimerRemove
  <2>2. TimerTypeOK' BY <1>9 DEF TimerRemove, TimerTypeOK
  <2>3. ItemsTypeOK'
    <3>1. CASE UNCHANGED itemVars BY <3>1
    <3>2. ASSUME NEW t \in timer.removed, NEW i \in 1..Len(downloads), putCQIUnsafe(t, i)
          PROVE  ItemsTypeOK'
      <4>1. t \in Tokens BY DEF TimerTypeOK
      <4> QED BY <3>2, <4>1, PutCQIType
    <3> QED BY <1>9, <3>1, <3>2 DEF TimerRemove
  <2> QED BY <2>1, <2>2, <2>3 DEF TypeOK
<1> QED BY <1>1, <1>2, <1>3, <1>4, <1>5, <1>6, <1>7, <1>8, <1>9 DEF TimerStep

-----------------------------------------------------------------------------
(* Connections *)

\* A record of a connection stays one when some of its fields change.
LEMMA ConnChange ==
  ASSUME ConnsTypeOK, NEW c \in Conns, NEW conn \in Connection,
         uc' = [uc EXCEPT ![c] = conn]
  PROVE  uc' \in [Conns -> Connection]
BY DEF ConnsTypeOK

\* The state of a connection that does not exist.
LEMMA NoConnectionType == NoConnection \in Connection
BY ConstantsAssumption DEF ConstantsAssumption, NoConnection, Connection

\* putConnection keeps the connections well typed.
LEMMA ForgetType ==
  ASSUME ConnsTypeOK, NEW c \in Conns, Forget(c)
  PROVE  uc' \in [Conns -> Connection]
BY NoConnectionType, ConnChange DEF Forget

\* UserConnection::setState posts at most MaxEvents State events.
LEMMA SetStateType ==
  ASSUME ConnsTypeOK, NEW c \in Conns, NEW state \in {"SND", "RUNNING", "IDLE"},
         SetState(c, state)
  PROVE  uc' \in [Conns -> Connection]
<1> DEFINE events == IF uc[c].state = state THEN uc[c].events
                     ELSE Increment(uc[c].events, MaxEvents)
<1>1. uc[c] \in Connection BY DEF ConnsTypeOK
<1>2. events \in 0..MaxEvents
  BY <1>1, ConstantsAssumption DEF ConstantsAssumption, Connection, Increment
<1>3. uc' = [uc EXCEPT ![c].state = state, ![c].pc = "none",
                       ![c].idler = (state = "IDLE"), ![c].events = events]
  BY DEF SetState
<1> HIDE DEF events
<1> DEFINE conn == [uc[c] EXCEPT !.state = state, !.pc = "none",
                                 !.idler = (state = "IDLE"), !.events = events]
<1>4. uc' = [uc EXCEPT ![c] = conn] BY <1>3 DEF ConnsTypeOK
<1>5. conn \in Connection
  <2>1. (state = "IDLE") \in BOOLEAN OBVIOUS
  <2> QED BY <1>1, <1>2, <2>1 DEF Connection
<1> HIDE DEF conn
<1> QED BY <1>4, <1>5, ConnChange

\* Only tokens are in the list of downloads.
LEMMA QueuedToken ==
  ASSUME ItemsTypeOK, NEW t, Queued(t)
  PROVE  t \in Tokens
BY DEF ItemsTypeOK, Queued

\* failDownload leaves a well-typed item.
LEMMA FailedItemType ==
  ASSUME NEW item \in Item, NEW fatalError \in BOOLEAN
  PROVE  FailedItem(item, fatalError) \in Item
<1>1. CASE item.state = "WAITING"
  BY <1>1 DEF FailedItem, Item
<1>2. CASE item.state # "WAITING"
  <2> DEFINE errors == IF fatalError THEN -1 ELSE Increment(item.errors, MaxErrors)
  <2>1. errors \in (-1)..MaxErrors
    BY ItemIncrement, ConstantsAssumption DEF ConstantsAssumption
  <2>2. FailedItem(item, fatalError) =
          [item EXCEPT !.running = FALSE, !.state = "WAITING", !.errors = errors,
                       !.lastAttempt = "fresh"]
    BY <1>2 DEF FailedItem
  <2> HIDE DEF errors
  <2> QED BY <2>1, <2>2 DEF Item, Ages
<1> QED BY <1>1, <1>2

\* removeExtraMCNUnsafe keeps the items well typed.
LEMMA RemoveExtraType ==
  ASSUME ItemsTypeOK, NEW t \in Tokens, NEW item \in Item, removeExtraMCN(t, item),
         fatal' \subseteq Tokens
  PROVE  ItemsTypeOK'
<1>1. CASE UNCHANGED <<downloads, removedDownloadTokens>> /\ cqi' = [cqi EXCEPT ![t] = item]
  BY <1>1, ItemChange
<1>2. ASSUME NEW i \in 1..Len(downloads),
             downloads' = RemoveAt(downloads, i),
             cqi' = [cqi EXCEPT ![t] = item,
                                ![downloads[i]] = NewItem(cqi[downloads[i]].user)],
             removedDownloadTokens' = removedDownloadTokens \cup {downloads[i]}
      PROVE  ItemsTypeOK'
  <2>1. downloads' \in Seq(Tokens) BY <1>2, RemoveAtProperties DEF ItemsTypeOK
  <2>2. downloads[i] \in Tokens BY DEF ItemsTypeOK
  <2>3. NewItem(cqi[downloads[i]].user) \in Item
    BY <2>2, NewItemType DEF ItemsTypeOK, Item
  <2> QED BY <1>2, <2>1, <2>2, <2>3 DEF ItemsTypeOK
<1> QED BY <1>1, <1>2 DEF removeExtraMCN

\* failDownload keeps the items, the timer and the pending MCN calls well typed.
LEMMA FailDownloadType ==
  ASSUME ItemsTypeOK, ConnsTypeOK, TimerTypeOK, UNCHANGED timer,
         NEW t, NEW fatalError \in BOOLEAN, NEW thread \in Conns \cup {Hub},
         failDownload(t, fatalError, thread)
  PROVE  /\ ItemsTypeOK' /\ TimerTypeOK'
         /\ mcnUser' \in [Conns \cup {Hub} -> Users \cup {NoUser}]
<1>1. TimerTypeOK' BY TimerAway DEF failDownload, WLock
<1>2. CASE Queued(t)
  <2>1. t \in Tokens /\ cqi[t] \in Item
    BY <1>2, QueuedToken DEF ItemsTypeOK
  <2>2. FailedItem(cqi[t], fatalError) \in Item
    BY <2>1, FailedItemType
  <2>3. fatal' \subseteq Tokens
    BY <1>2, <2>1 DEF failDownload, ItemsTypeOK
  <2>4. removeExtraMCN(t, FailedItem(cqi[t], fatalError))
    BY <1>2 DEF failDownload
  <2>5. ItemsTypeOK' BY <2>1, <2>2, <2>3, <2>4, RemoveExtraType
  <2>6. cqi[t].user \in Users \cup {NoUser} BY <2>1 DEF Item
  <2>7. mcnUser' = [mcnUser EXCEPT ![thread] = cqi[t].user]
          \/ mcnUser' = [mcnUser EXCEPT ![thread] = NoUser]
    BY <1>2 DEF failDownload
  <2> QED BY <1>1, <2>5, <2>6, <2>7 DEF ConnsTypeOK
<1>3. CASE ~Queued(t)
  BY <1>1, <1>3, Frames DEF failDownload, ConnsTypeOK
<1> QED BY <1>2, <1>3

\* The steps of the connections' socket threads.
LEMMA SocketType == ASSUME TypeOK, NEW c \in Conns, SocketStep(c) PROVE TypeOK'
<1>0. /\ ItemsTypeOK /\ TimerTypeOK /\ ConnsTypeOK /\ QueueTypeOK
      /\ invited \in [Tokens -> 0..MaxInvites]
      /\ uc[c] \in Connection
  BY DEF TypeOK, ConnsTypeOK
<1> USE <1>0, Frames
\* Steps that only move the connection itself.
<1>1. ASSUME uc' \in [Conns -> Connection],
             UNCHANGED <<itemVars, queueVars, timer, mcnUser, invited>>
      PROVE  TypeOK'
  BY <1>1 DEF TypeOK, ConnsTypeOK, itemVars
<1>2. ASSUME NEW t \in Tokens, Handshake(c, t) PROVE TypeOK'
  <2> DEFINE conn == [NoConnection EXCEPT !.user = cqi[t].user, !.token = t, !.state = "INF"]
  <2>1. cqi[t].user \in Users \cup {NoUser} BY DEF ItemsTypeOK, Item
  <2>2. conn \in Connection
    <3>1. NoConnection \in Connection BY NoConnectionType
    <3> QED BY <2>1, <3>1 DEF Connection
  <2>3. uc' = [uc EXCEPT ![c] = conn] /\ UNCHANGED <<itemVars, queueVars, timer, mcnUser>>
    BY <1>2 DEF Handshake
  <2>4. uc' \in [Conns -> Connection]
    <3> HIDE DEF conn
    <3> QED BY <2>2, <2>3, ConnChange
  <2>5. invited' \in [Tokens -> 0..MaxInvites]
    <3>1. invited[t] - 1 \in 0..MaxInvites
      BY <1>2, ConstantsAssumption DEF ConstantsAssumption, Handshake
    <3> QED BY <1>2, <3>1 DEF Handshake
  <2> QED BY <2>3, <2>4, <2>5 DEF TypeOK, ConnsTypeOK, itemVars
<1>3. ASSUME NEW co \in RemoteLimits, INF(c, co) PROVE TypeOK'
  <2>1. UNCHANGED <<queueVars, downloads, removedDownloadTokens, timer, mcnUser, invited>>
    BY <1>3 DEF INF
  <2>2. uc' \in [Conns -> Connection]
    <3>1. CASE Forget(c) BY <3>1, ForgetType
    <3>2. CASE uc' = [uc EXCEPT ![c].inf = TRUE, ![c].pc = "add"]
      BY <3>2 DEF ConnsTypeOK, Connection
    <3>3. CASE uc' = [uc EXCEPT ![c].inf = TRUE]
      BY <3>3 DEF ConnsTypeOK, Connection
    <3> QED BY <1>3, <3>1, <3>2, <3>3 DEF INF
  <2>3. ItemsTypeOK'
    <3>1. CASE UNCHANGED <<cqi, fatal>> BY <2>1, <3>1 DEF itemVars
    <3>2. CASE Queued(uc[c].token)
      <4> DEFINE t == uc[c].token
                 limit == IF uc[c].user \in McnUsers THEN co ELSE cqi[t].maxRemoteConns
                 item == [cqi[t] EXCEPT !.errors = 0, !.maxRemoteConns = limit]
      <4>1. t \in Tokens /\ cqi[t] \in Item
        BY <3>2, QueuedToken DEF ItemsTypeOK
      <4>2. limit \in Nat BY <4>1, ConstantsAssumption DEF ConstantsAssumption, Item
      <4>3. item \in Item
        <5>1. 0 \in (-1)..MaxErrors BY ConstantsAssumption DEF ConstantsAssumption
        <5> HIDE DEF limit, t
        <5> QED BY <4>1, <4>2, <5>1 DEF Item
      <4>4. cqi' = [cqi EXCEPT ![t] = item] /\ fatal' = fatal \ {t}
        BY <1>3, <3>2, <4>1 DEF INF, ItemsTypeOK
      <4> HIDE DEF item, t
      <4> QED BY <2>1, <4>1, <4>3, <4>4, ItemChange DEF ItemsTypeOK
    <3> QED BY <1>3, <3>1, <3>2 DEF INF
  <2> QED BY <2>1, <2>2, <2>3 DEF TypeOK, ConnsTypeOK
<1>4. CASE AddDownloadCheck(c)
  <2>1. uc' \in [Conns -> Connection]
    <3>1. CASE Forget(c) BY <3>1, ForgetType
    <3>2. CASE uc' = [uc EXCEPT ![c].pc = "assoc"]
      BY <3>2 DEF ConnsTypeOK, Connection
    <3> QED BY <1>4, <3>1, <3>2 DEF AddDownloadCheck
  <2> QED BY <1>1, <1>4, <2>1 DEF AddDownloadCheck
<1>5. CASE AddDownloadConnection(c)
  <2> DEFINE isMCN == uc[c].user \in McnUsers
  <2>1. PICK t \in Tokens :
          /\ cqi' = [cqi EXCEPT ![t] = ActiveItem(cqi[t], isMCN)]
          /\ uc' = [uc EXCEPT ![c] = [uc[c] EXCEPT !.token = t, !.assoc = TRUE,
                      !.small = (isMCN /\ cqi[t].downloadType = "SMALL"),
                      !.dm = TRUE, !.pc = "check"]]
          /\ fatal' = fatal \ {t}
    BY <1>5 DEF AddDownloadConnection
  <2>2. ActiveItem(cqi[t], isMCN) \in Item
    <3>1. cqi[t] \in Item BY DEF ItemsTypeOK
    <3>2. (cqi[t].mcn \/ isMCN) \in BOOLEAN OBVIOUS
    <3> QED BY <3>1, <3>2 DEF ActiveItem, Item, Types
  <2>3. UNCHANGED <<queueVars, downloads, removedDownloadTokens, timer, mcnUser, invited>>
    BY <1>5 DEF AddDownloadConnection
  <2>4. ItemsTypeOK' BY <2>1, <2>2, <2>3, ItemChange DEF ItemsTypeOK
  <2>5. uc' \in [Conns -> Connection]
    <3> DEFINE small == isMCN /\ cqi[t].downloadType = "SMALL"
               conn == [uc[c] EXCEPT !.token = t, !.assoc = TRUE, !.small = small,
                                     !.dm = TRUE, !.pc = "check"]
    <3>1. small \in BOOLEAN OBVIOUS
    <3>2. conn \in Connection
      <4> HIDE DEF small
      <4> QED BY <3>1 DEF Connection
    <3>3. uc' = [uc EXCEPT ![c] = conn] BY <2>1
    <3> HIDE DEF conn
    <3> QED BY <3>2, <3>3, ConnChange
  <2> QED BY <2>3, <2>4, <2>5 DEF TypeOK, ConnsTypeOK
<1>6. ASSUME NEW started \in BOOLEAN, CheckDownloads(c, started) PROVE TypeOK'
  <2>1. uc' \in [Conns -> Connection]
    <3>1. CASE SetState(c, "SND") \/ SetState(c, "IDLE") BY <3>1, SetStateType
    <3>2. CASE uc' = [uc EXCEPT ![c].pc = "none"]
      BY <3>2 DEF ConnsTypeOK, Connection
    <3>3. CASE uc' = [uc EXCEPT ![c].pc = "none", ![c].dm = FALSE]
      BY <3>3 DEF ConnsTypeOK, Connection
    <3> QED BY <1>6, <3>1, <3>2, <3>3 DEF CheckDownloads
  <2> QED BY <1>1, <1>6, <2>1 DEF CheckDownloads
<1>7. CASE StartData(c)
  BY <1>1, <1>7, SetStateType DEF StartData
<1>8. CASE EndData(c)
  <2>1. uc' \in [Conns -> Connection] BY <1>8 DEF EndData, ConnsTypeOK, Connection
  <2> QED BY <1>1, <1>8, <2>1 DEF EndData
<1>9. CASE Revive(c)
  <2> DEFINE pc == IF uc[c].idler THEN "check" ELSE "none"
             conn == [uc[c] EXCEPT !.revive = FALSE, !.idler = FALSE, !.pc = pc]
  <2>1. conn \in Connection BY DEF Connection
  <2>2. uc' = [uc EXCEPT ![c] = conn] BY <1>9 DEF Revive, ConnsTypeOK
  <2>3. uc' \in [Conns -> Connection]
    <3> HIDE DEF conn
    <3> QED BY <2>1, <2>2, ConnChange
  <2> QED BY <1>1, <1>9, <2>3 DEF Revive
<1>10. CASE StateEvent(c)
  <2>1. uc' \in [Conns -> Connection]
    <3>1. uc[c].events - 1 \in 0..MaxEvents
      BY <1>10, ConstantsAssumption DEF ConstantsAssumption, StateEvent, Connection
    <3>2. [uc[c] EXCEPT !.events = uc[c].events - 1] \in Connection
      BY <3>1 DEF Connection
    <3> QED BY <1>10, <3>2, ConnChange DEF StateEvent
  <2>2. UNCHANGED <<queueVars, timer, invited>> BY <1>10 DEF StateEvent
  <2>3. CASE UNCHANGED <<itemVars, mcnUser>>
    BY <1>1, <2>1, <2>2, <2>3
  <2>4. CASE onIdle(c)
    <3>1. TimerTypeOK' BY <2>2, <2>4, TimerAway DEF onIdle, WLock
    <3>2. ItemsTypeOK'
      <4>1. CASE UNCHANGED itemVars BY <4>1
      <4>2. ASSUME NEW t \in Tokens, UNCHANGED fatal,
                   removeExtraMCN(t, [cqi[t] EXCEPT !.running = FALSE])
            PROVE  ItemsTypeOK'
        <5>1. [cqi[t] EXCEPT !.running = FALSE] \in Item BY DEF ItemsTypeOK, Item
        <5>2. fatal' \subseteq Tokens BY <4>2 DEF ItemsTypeOK
        <5> QED BY <4>2, <5>1, <5>2, RemoveExtraType
      <4> QED BY <2>4, <4>1, <4>2 DEF onIdle
    <3>3. UNCHANGED mcnUser BY <2>4 DEF onIdle
    <3> QED BY <2>1, <2>2, <3>1, <3>2, <3>3 DEF TypeOK, ConnsTypeOK
  <2>5. CASE onDownloadRunning(c)
    <3>1. UNCHANGED <<downloads, removedDownloadTokens, fatal>>
      BY <2>5 DEF onDownloadRunning
    <3>2. CASE UNCHANGED <<cqi, mcnUser>>
      BY <1>1, <2>1, <2>2, <3>1, <3>2 DEF itemVars
    <3>3. ASSUME NEW t \in Tokens, cqi' = [cqi EXCEPT ![t].running = TRUE],
                 \/ mcnUser' = [mcnUser EXCEPT ![c] = uc[c].user]
                 \/ mcnUser' = [mcnUser EXCEPT ![c] = NoUser]
          PROVE  TypeOK'
      <4>1. [cqi[t] EXCEPT !.running = TRUE] \in Item BY DEF ItemsTypeOK, Item
      <4>2. ItemsTypeOK' BY <3>1, <3>3, <4>1, ItemChange DEF ItemsTypeOK
      <4>3. uc[c].user \in Users \cup {NoUser} BY DEF Connection
      <4>4. mcnUser' \in [Conns \cup {Hub} -> Users \cup {NoUser}]
        BY <3>3, <4>3 DEF ConnsTypeOK
      <4> QED BY <2>1, <2>2, <3>1, <4>2, <4>4 DEF TypeOK, ConnsTypeOK
    <3> QED BY <2>5, <3>2, <3>3 DEF onDownloadRunning
  <2> QED BY <1>10, <2>3, <2>4, <2>5 DEF StateEvent
<1>11. CASE TreeSaveFailed(c)
  <2>1. uc' \in [Conns -> Connection]
    BY <1>11 DEF TreeSaveFailed, ConnsTypeOK, Connection
  <2>2. UNCHANGED <<queueVars, timer, invited>> /\ failDownload(uc[c].token, TRUE, c)
    BY <1>11 DEF TreeSaveFailed
  <2> QED BY <2>1, <2>2, FailDownloadType DEF TypeOK, ConnsTypeOK
<1>12. ASSUME NEW protocolError \in BOOLEAN, Failed(c, protocolError) PROVE TypeOK'
  <2>1. PICK pc \in {"put", "putCQI", "fatal", "fail"} : uc' = [uc EXCEPT ![c].pc = pc]
    BY <1>12 DEF Failed
  <2>2. uc' \in [Conns -> Connection] BY <2>1 DEF ConnsTypeOK, Connection
  <2> QED BY <1>1, <1>12, <2>2 DEF Failed
<1>13. CASE FailedDownload(c)
  <2>1. uc' \in [Conns -> Connection]
    BY <1>13 DEF FailedDownload, ConnsTypeOK, Connection
  <2>2. /\ UNCHANGED <<queueVars, timer, invited>>
        /\ failDownload(uc[c].token, uc[c].pc = "fatal", c)
    BY <1>13 DEF FailedDownload
  <2>3. (uc[c].pc = "fatal") \in BOOLEAN OBVIOUS
  <2> QED BY <2>1, <2>2, <2>3, FailDownloadType DEF TypeOK, ConnsTypeOK
<1>14. CASE PutCQI(c)
  <2>1. uc' \in [Conns -> Connection] BY <1>14 DEF PutCQI, ConnsTypeOK, Connection
  <2>2. UNCHANGED <<queueVars, timer, mcnUser, invited>> BY <1>14 DEF PutCQI
  <2>3. TimerTypeOK' BY <1>14, <2>2, TimerAway DEF PutCQI, WLock
  <2>4. PICK i \in 1..Len(downloads) :
          downloads[i] = uc[c].token /\ putCQIUnsafe(uc[c].token, i)
    BY <1>14 DEF PutCQI
  <2>5. uc[c].token \in Tokens BY <2>4 DEF ItemsTypeOK
  <2>6. ItemsTypeOK' BY <2>4, <2>5, PutCQIType
  <2> QED BY <2>1, <2>2, <2>3, <2>6 DEF TypeOK, ConnsTypeOK
<1>15. CASE PutConnection(c)
  BY <1>1, <1>15, ForgetType DEF PutConnection
<1> QED BY <1>2, <1>3, <1>4, <1>5, <1>6, <1>7, <1>8, <1>9, <1>10, <1>11, <1>12,
           <1>13, <1>14, <1>15 DEF SocketStep

\* A pending call of getDownloadConnection is well typed.
LEMMA CallType ==
  /\ NoCall \in Call
  /\ \A u \in Users, small \in BOOLEAN : CallFor(u, small) \in Call
BY DEF NoCall, CallFor, Call

\* The steps of callers, of the environment and of createNewMCN.
LEMMA OtherType ==
  ASSUME TypeOK,
         \/ CallerStep \/ EnvironmentStep
         \/ \E thread \in Conns \cup {Hub} : createNewMCN(thread)
  PROVE  TypeOK'
<1>0. /\ ItemsTypeOK /\ TimerTypeOK /\ ConnsTypeOK /\ QueueTypeOK
      /\ invited \in [Tokens -> 0..MaxInvites]
  BY DEF TypeOK
<1> USE <1>0, Frames
<1>1. ASSUME NEW c \in Conns, uc' = [uc EXCEPT ![c].revive = TRUE]
      PROVE  uc' \in [Conns -> Connection]
  <2>1. [uc[c] EXCEPT !.revive = TRUE] \in Connection BY DEF ConnsTypeOK, Connection
  <2> QED BY <1>1, <2>1, ConnChange
<1>2. ASSUME NEW t \in Tokens, invited[t] > 0, invited' = [invited EXCEPT ![t] = @ - 1]
      PROVE  invited' \in [Tokens -> 0..MaxInvites]
  <2>1. invited[t] - 1 \in 0..MaxInvites
    BY <1>2, ConstantsAssumption DEF ConstantsAssumption
  <2> QED BY <1>2, <2>1
<1>3. CASE CheckIdle
  <2>1. UNCHANGED <<itemVars, timer, mcnUser, invited, wants, online>>
    BY <1>3 DEF CheckIdle
  <2>2. uc' \in [Conns -> Connection]
    BY <1>1, <1>3 DEF CheckIdle, ConnsTypeOK
  <2>3. caller' \in Call
    <3>1. [caller EXCEPT !.pc = "add"] \in Call BY DEF QueueTypeOK, Call
    <3> QED BY <1>3, <3>1, CallType DEF CheckIdle
  <2> QED BY <2>1, <2>2, <2>3 DEF TypeOK, ConnsTypeOK, QueueTypeOK, itemVars
<1>4. CASE getDownloadConnection
  <2>1. UNCHANGED <<connVars, removedDownloadTokens, timer, invited, wants, online>>
    BY <1>4 DEF getDownloadConnection
  <2>2. caller' \in Call
    BY <1>4, CallType DEF getDownloadConnection
  <2>3. TimerTypeOK' BY <1>4, <2>1, TimerAway DEF getDownloadConnection, WLock
  <2>4. ItemsTypeOK'
    <3>1. CASE UNCHANGED <<downloads, cqi, fatal>> BY <2>1, <3>1 DEF itemVars
    <3>2. ASSUME NEW t \in Tokens,
                 getCQIUnsafe(t, [NewItem(caller.user) EXCEPT
                   !.downloadType = IF caller.small THEN "SMALL" ELSE "ANY"])
          PROVE  ItemsTypeOK'
      <4>1. NewItem(caller.user) \in Item BY NewItemType DEF QueueTypeOK, Call
      <4>2. [NewItem(caller.user) EXCEPT
               !.downloadType = IF caller.small THEN "SMALL" ELSE "ANY"] \in Item
        BY <4>1 DEF Item, Types
      <4> QED BY <2>1, <3>2, <4>2, GetCQIType
    <3>3. ASSUME NEW i \in 1..Len(downloads), UNCHANGED <<downloads, fatal>>,
                 \/ cqi' = cqi
                 \/ cqi' = [cqi EXCEPT ![downloads[i]] = resetFatalError(cqi[downloads[i]])]
          PROVE  ItemsTypeOK'
      <4>1. downloads[i] \in Tokens /\ cqi[downloads[i]] \in Item BY DEF ItemsTypeOK
      <4>2. resetFatalError(cqi[downloads[i]]) \in Item
        BY <4>1 DEF resetFatalError, Item, Ages
      <4>3. fatal' \subseteq Tokens BY <3>3 DEF ItemsTypeOK
      <4> QED BY <2>1, <3>3, <4>1, <4>2, <4>3, ItemChange DEF itemVars
    <3> QED BY <1>4, <3>1, <3>2, <3>3 DEF getDownloadConnection
  <2> QED BY <2>1, <2>2, <2>3, <2>4 DEF TypeOK, QueueTypeOK
<1>5. ASSUME NEW t \in Tokens, force(t) PROVE TypeOK'
  <2>1. UNCHANGED <<queueVars, downloads, removedDownloadTokens, timer, mcnUser, invited>>
    BY <1>5 DEF force
  <2>2. CASE UNCHANGED <<cqi, fatal>>
    <3>1. uc' \in [Conns -> Connection] BY <1>1, <1>5 DEF force, ConnsTypeOK
    <3> QED BY <2>1, <2>2, <3>1 DEF TypeOK, ConnsTypeOK, itemVars
  <2>3. CASE /\ UNCHANGED uc /\ fatal' = fatal \ {t}
             /\ cqi' = [cqi EXCEPT ![t].lastAttempt = "zero"]
    <3>1. [cqi[t] EXCEPT !.lastAttempt = "zero"] \in Item BY DEF ItemsTypeOK, Item, Ages
    <3>2. ItemsTypeOK' BY <2>1, <2>3, <3>1, ItemChange DEF ItemsTypeOK
    <3> QED BY <2>1, <2>3, <3>2 DEF TypeOK, connVars
  <2> QED BY <1>5, <2>2, <2>3 DEF force
<1>6. ASSUME NEW thread \in Conns \cup {Hub}, createNewMCN(thread) PROVE TypeOK'
  <2>1. /\ UNCHANGED <<queueVars, removedDownloadTokens, timer, uc, invited>>
        /\ mcnUser' \in [Conns \cup {Hub} -> Users \cup {NoUser}]
    BY <1>6 DEF createNewMCN, ConnsTypeOK
  <2>2. TimerTypeOK' BY <1>6, <2>1, TimerAway DEF createNewMCN, WLock
  <2>3. ItemsTypeOK'
    <3> DEFINE item == [NewItem(mcnUser[thread]) EXCEPT !.downloadType = "MCN_NORMAL",
                                                        !.mcn = TRUE]
    <3>1. NewItem(mcnUser[thread]) \in Item BY NewItemType DEF ConnsTypeOK
    <3>2. item \in Item BY <3>1 DEF Item, Types
    <3>3. UNCHANGED <<downloads, cqi, fatal>> \/ \E t \in Tokens : getCQIUnsafe(t, item)
      BY <1>6 DEF createNewMCN
    <3> HIDE DEF item
    <3> QED BY <2>1, <3>2, <3>3, GetCQIType DEF itemVars
  <2> QED BY <2>1, <2>2, <2>3 DEF TypeOK, ConnsTypeOK
<1>7. ASSUME NEW u \in Users, NEW kind \in FileKinds, AddFile(u, kind) \/ FilesFinished(u, kind)
      PROVE  TypeOK'
  <2>1. UNCHANGED <<itemVars, connVars, timer, invited, online>>
    BY <1>7 DEF AddFile, FilesFinished
  <2>2. wants' \in [Users -> SUBSET FileKinds]
    BY <1>7 DEF AddFile, FilesFinished, QueueTypeOK
  <2>3. caller' \in Call
    <3>1. (kind = "small") \in BOOLEAN OBVIOUS
    <3>2. CallFor(u, kind = "small") \in Call BY <3>1, CallType
    <3> QED BY <1>7, <3>2 DEF AddFile, FilesFinished, QueueTypeOK
  <2> QED BY <2>1, <2>2, <2>3 DEF TypeOK, QueueTypeOK, itemVars
<1>8. ASSUME NEW u \in Users, UserDisconnected(u) \/ UserConnected(u) PROVE TypeOK'
  <2>1. UNCHANGED <<itemVars, connVars, timer, invited, wants>> /\ online' \subseteq Users
    BY <1>8 DEF UserDisconnected, UserConnected, QueueTypeOK
  <2>2. caller' \in Call
    BY <1>8, CallType DEF UserDisconnected, UserConnected, QueueTypeOK
  <2> QED BY <2>1, <2>2 DEF TypeOK, QueueTypeOK, itemVars
<1>9. ASSUME NEW t \in Tokens, LoseRequest(t) PROVE TypeOK'
  <2>1. UNCHANGED <<itemVars, connVars, queueVars, timer>> BY <1>9 DEF LoseRequest
  <2>2. invited' \in [Tokens -> 0..MaxInvites] BY <1>2, <1>9 DEF LoseRequest
  <2> QED BY <2>1, <2>2 DEF TypeOK, itemVars
<1>10. ASSUME NEW t \in Tokens, Elapse(t) PROVE TypeOK'
  <2>1. UNCHANGED <<connVars, queueVars, downloads, removedDownloadTokens, fatal, timer,
                    invited>>
    BY <1>10 DEF Elapse
  <2>2. PICK age \in {"late", "due"} : cqi' = [cqi EXCEPT ![t].lastAttempt = age]
    BY <1>10 DEF Elapse
  <2>3. [cqi[t] EXCEPT !.lastAttempt = age] \in Item BY DEF ItemsTypeOK, Item, Ages
  <2>4. ItemsTypeOK' BY <2>1, <2>2, <2>3, ItemChange DEF ItemsTypeOK
  <2> QED BY <2>1, <2>4 DEF TypeOK
<1>11. ASSUME NEW t \in Tokens, ForgetRemoved(t) PROVE TypeOK'
  <2>1. UNCHANGED <<connVars, queueVars, downloads, cqi, fatal, timer, invited>>
    BY <1>11 DEF ForgetRemoved
  <2>2. ItemsTypeOK' BY <1>11, <2>1 DEF ForgetRemoved, ItemsTypeOK
  <2> QED BY <2>1, <2>2 DEF TypeOK
<1>12. ASSUME NEW t \in Tokens, ProtocolUnsupported(t) PROVE TypeOK'
  <2>1. UNCHANGED <<queueVars, timer, uc>> /\ failDownload(t, TRUE, Hub)
    BY <1>12 DEF ProtocolUnsupported
  <2>2. invited' \in [Tokens -> 0..MaxInvites] BY <1>2, <1>12 DEF ProtocolUnsupported
  <2> QED BY <2>1, <2>2, FailDownloadType DEF TypeOK, ConnsTypeOK
<1> QED BY <1>3, <1>4, <1>5, <1>6, <1>7, <1>8, <1>9, <1>10, <1>11, <1>12
        DEF CallerStep, EnvironmentStep

\* Every step keeps the types.
LEMMA NextType == TypeOK /\ [Next]_vars => TypeOK'
<1> SUFFICES ASSUME TypeOK, [Next]_vars PROVE TypeOK'
  OBVIOUS
<1>1. CASE UNCHANGED vars
  BY <1>1, Frames DEF vars, TypeOK, itemVars, connVars, queueVars
<1>2. CASE Next
  BY <1>2, TimerType, SocketType, OtherType DEF Next
<1> QED BY <1>1, <1>2

\* Type correctness: whatever the interleaving of the timer, the sockets, the
\* callers and the hub, every variable keeps its type, and the list does not
\* change under the timer while it is busy with a position of it.
THEOREM TypeCorrect == Spec => []TypeOK
BY InitType, NextType, PTL DEF Spec

-----------------------------------------------------------------------------
(* Protocol errors *)

\* No token is listed twice.
DistinctItems ==
  \A i, j \in 1..Len(downloads) : downloads[i] = downloads[j] => i = j

\* An item as a protocol error leaves it, until it is forced or overcome.
Settled(item) ==
  /\ item.state = "WAITING" /\ item.errors = -1
  /\ item.lastAttempt \in {"fresh", "late", "due"}

FatalSettled == \A t \in fatal : Queued(t) => Settled(cqi[t])

\* The timer is not about to connect for an item with a protocol error.
AttemptClean == timer.pc = "connect" => Current \notin fatal

\* The inductive invariant behind NoUnforcedReconnect.
FatalInvariant == DistinctItems /\ FatalSettled /\ AttemptClean

\* A list without repetitions has none after a removal, and has lost the
\* element that was removed.
LEMMA RemoveAtDistinct ==
  ASSUME NEW S, NEW s \in Seq(S), NEW i \in 1..Len(s),
         \A j, k \in 1..Len(s) : s[j] = s[k] => j = k
  PROVE  LET r == RemoveAt(s, i)
         IN /\ \A j, k \in 1..Len(r) : r[j] = r[k] => j = k
            /\ \A k \in 1..Len(r) : /\ r[k] # s[i]
                                    /\ \E j \in 1..Len(s) : r[k] = s[j]
<1> DEFINE r == RemoveAt(s, i)
           at(k) == IF k < i THEN k ELSE k + 1
<1>1. /\ Len(r) = Len(s) - 1 /\ Len(s) \in Nat
      /\ \A k \in 1..(Len(s) - 1) : r[k] = IF k < i THEN s[k] ELSE s[k + 1]
  BY RemoveAtProperties
<1> HIDE DEF r
<1>2. \A k \in 1..Len(r) : at(k) \in 1..Len(s) /\ at(k) # i /\ r[k] = s[at(k)]
  BY <1>1
<1>3. \A j, k \in 1..Len(r) : at(j) = at(k) => j = k
  BY <1>1
<1> HIDE DEF at
<1>4. \A j, k \in 1..Len(r) : r[j] = r[k] => j = k BY <1>2, <1>3
<1>5. \A k \in 1..Len(r) : r[k] # s[i] /\ \E j \in 1..Len(s) : r[k] = s[j]
  BY <1>2
<1> QED BY <1>4, <1>5 DEF r

\* One item changes, and if it has a protocol error it is as that leaves it.
LEMMA FatalItem ==
  ASSUME ItemsTypeOK, FatalInvariant, NEW t \in Tokens, NEW item,
         cqi' = [cqi EXCEPT ![t] = item], UNCHANGED downloads,
         fatal' \subseteq fatal \cup {t}, t \in fatal' => Settled(item),
         timer'.pc = "connect" => UNCHANGED timer /\ fatal' \subseteq fatal
  PROVE  FatalInvariant'
<1>1. \A x \in Tokens : cqi'[x] = IF x = t THEN item ELSE cqi[x]
  BY DEF ItemsTypeOK
<1>2. DistinctItems' BY DEF FatalInvariant, DistinctItems
<1>3. FatalSettled'
  <2>1. \A x \in Tokens : Queued(x)' <=> Queued(x) BY DEF Queued
  <2>2. \A x \in fatal' : x \in Tokens BY DEF ItemsTypeOK
  <2> QED BY <1>1, <2>1, <2>2 DEF FatalInvariant, FatalSettled
<1>4. AttemptClean' BY DEF FatalInvariant, AttemptClean, Current
<1> QED BY <1>2, <1>3, <1>4 DEF FatalInvariant

\* The items stay as they are.
LEMMA FatalQuiet ==
  ASSUME FatalInvariant, UNCHANGED <<downloads, cqi, fatal>>,
         timer'.pc = "connect" => UNCHANGED timer
  PROVE  FatalInvariant'
<1>1. DistinctItems' /\ AttemptClean'
  BY DEF FatalInvariant, DistinctItems, AttemptClean, Current
<1>2. FatalSettled' BY DEF FatalInvariant, FatalSettled, Queued
<1> QED BY <1>1, <1>2 DEF FatalInvariant

\* An item leaves the list while another one may change.
LEMMA FatalRemove ==
  ASSUME ItemsTypeOK, FatalInvariant, NEW i \in 1..Len(downloads),
         downloads' = RemoveAt(downloads, i), timer'.pc # "connect",
         \A x \in Tokens : x \in fatal' /\ x # downloads[i] /\ Queued(x)
           => Settled(cqi'[x]),
         fatal' \subseteq Tokens
  PROVE  FatalInvariant'
<1> DEFINE r == RemoveAt(downloads, i)
<1>1. \A j, k \in 1..Len(downloads) : downloads[j] = downloads[k] => j = k
  BY DEF FatalInvariant, DistinctItems
<1>2. /\ \A j, k \in 1..Len(r) : r[j] = r[k] => j = k
      /\ \A k \in 1..Len(r) : /\ r[k] # downloads[i]
                              /\ \E j \in 1..Len(downloads) : r[k] = downloads[j]
  BY <1>1, RemoveAtDistinct DEF ItemsTypeOK
<1> HIDE DEF r
<1>3. downloads' = r BY DEF r
<1>4. DistinctItems' BY <1>2, <1>3 DEF DistinctItems
<1>5. \A x \in Tokens : Queued(x)' => Queued(x) /\ x # downloads[i]
  BY <1>2, <1>3 DEF Queued
<1>6. FatalSettled' BY <1>5 DEF FatalSettled
<1>7. AttemptClean' BY DEF AttemptClean
<1> QED BY <1>4, <1>6, <1>7 DEF FatalInvariant

\* putCQIUnsafe, for the item at the position it is given.
LEMMA FatalPut ==
  ASSUME ItemsTypeOK, FatalInvariant, NEW i \in 1..Len(downloads),
         putCQIUnsafe(downloads[i], i), timer'.pc # "connect"
  PROVE  FatalInvariant'
<1> DEFINE t == downloads[i]
<1>1. t \in Tokens BY DEF ItemsTypeOK
<1>2. /\ downloads' = RemoveAt(downloads, i) /\ fatal' = fatal \ {t}
      /\ cqi' = [cqi EXCEPT ![t] = NewItem(cqi[t].user)]
  BY DEF putCQIUnsafe
<1> HIDE DEF t
<1>3. \A x \in Tokens : x # t => cqi'[x] = cqi[x] BY <1>1, <1>2 DEF ItemsTypeOK
<1>4. \A x \in Tokens : x \in fatal' /\ x # t /\ Queued(x) => Settled(cqi'[x])
  BY <1>2, <1>3 DEF FatalInvariant, FatalSettled
<1>5. fatal' \subseteq Tokens BY <1>2 DEF ItemsTypeOK
<1> QED BY <1>2, <1>4, <1>5, FatalRemove DEF t

\* getCQIUnsafe: the token is not in the list.
LEMMA FatalGet ==
  ASSUME ItemsTypeOK, FatalInvariant, NEW t \in Tokens, NEW item,
         getCQIUnsafe(t, item), timer'.pc # "connect"
  PROVE  FatalInvariant'
<1>1. /\ ~Queued(t) /\ downloads' = Append(downloads, t)
      /\ cqi' = [cqi EXCEPT ![t] = item] /\ fatal' = fatal \ {t}
  BY DEF getCQIUnsafe, Unused
<1>2. /\ Len(downloads') = Len(downloads) + 1 /\ Len(downloads) \in Nat
      /\ \A k \in 1..Len(downloads) : downloads'[k] = downloads[k]
      /\ downloads'[Len(downloads) + 1] = t
  BY <1>1, AppendProperties DEF ItemsTypeOK
<1>3. DistinctItems' BY <1>1, <1>2 DEF FatalInvariant, DistinctItems, Queued
<1>4. \A x \in Tokens : x # t => cqi'[x] = cqi[x] /\ (Queued(x)' => Queued(x))
  BY <1>1, <1>2 DEF Queued, ItemsTypeOK
<1>5. FatalSettled' BY <1>1, <1>4 DEF FatalInvariant, FatalSettled, ItemsTypeOK
<1>6. AttemptClean' BY DEF AttemptClean
<1> QED BY <1>3, <1>5, <1>6 DEF FatalInvariant

\* removeExtraMCNUnsafe, which does not say that the item it removes is gone.
LEMMA FatalRemoveExtra ==
  ASSUME ItemsTypeOK, FatalInvariant, NEW t \in Tokens, NEW item,
         removeExtraMCN(t, item), fatal' \subseteq fatal \cup {t},
         t \in fatal' => Settled(item), timer'.pc # "connect"
  PROVE  FatalInvariant'
<1>1. CASE UNCHANGED downloads /\ cqi' = [cqi EXCEPT ![t] = item]
  BY <1>1, FatalItem
<1>2. ASSUME NEW i \in 1..Len(downloads), downloads' = RemoveAt(downloads, i),
             cqi' = [cqi EXCEPT ![t] = item,
                                ![downloads[i]] = NewItem(cqi[downloads[i]].user)],
             IsExtra(t, downloads[i])
      PROVE  FatalInvariant'
  <2>1. downloads[i] \in Tokens /\ downloads[i] # t BY <1>2 DEF ItemsTypeOK, IsExtra
  <2>2. \A x \in Tokens : x # downloads[i] => cqi'[x] = IF x = t THEN item ELSE cqi[x]
    BY <1>2, <2>1 DEF ItemsTypeOK
  <2>3. \A x \in Tokens : x \in fatal' /\ x # downloads[i] /\ Queued(x)
          => Settled(cqi'[x])
    BY <2>2 DEF FatalInvariant, FatalSettled
  <2>4. fatal' \subseteq Tokens BY DEF ItemsTypeOK
  <2> QED BY <1>2, <2>3, <2>4, FatalRemove
<1> QED BY <1>1, <1>2 DEF removeExtraMCN

\* The item the timer stands at is listed, and has no protocol error unless
\* it is settled.
LEMMA FatalCurrent ==
  ASSUME ItemsTypeOK, TimerTypeOK, FatalInvariant,
         Scanning \/ timer.pc \in {"timeout", "connect"}
  PROVE  Current \in Tokens /\ (Current \in fatal => Settled(cqi[Current]))
<1>1. timer.idx \in 1..Len(downloads) /\ Current \in Tokens BY CurrentType
<1>2. Queued(Current) BY <1>1 DEF Queued, Current
<1> QED BY <1>1, <1>2 DEF FatalInvariant, FatalSettled

\* The timer's steps: an item with a protocol error is never attempted.
LEMMA FatalTimer == TypeOK /\ FatalInvariant /\ TimerStep => FatalInvariant'
<1> SUFFICES ASSUME TypeOK, FatalInvariant, TimerStep PROVE FatalInvariant'
  OBVIOUS
<1>0. ItemsTypeOK /\ TimerTypeOK BY DEF TypeOK
<1>a. NextItem.pc = "scan" /\ DropItem.pc = "scan"
  BY <1>0 DEF NextItem, DropItem, TimerTypeOK
<1>1. CASE TimerStart
  BY <1>1, FatalQuiet DEF TimerStart, itemVars
<1>2. CASE TimerSkip
  BY <1>a, <1>2, FatalQuiet DEF TimerSkip, ScanStep
<1>3. CASE TimerTimeout
  <2>1. Scanning /\ cqi[Current].state = "CONNECTING"
    BY <1>3 DEF TimerTimeout, isTimeout
  <2>2. Current \in Tokens /\ Current \notin fatal
    BY <1>0, <2>1, FatalCurrent DEF Settled
  <2>3. /\ cqi' = [cqi EXCEPT ![Current] =
                     [cqi[Current] EXCEPT !.errors = Increment(@, MaxErrors)]]
        /\ UNCHANGED <<downloads, fatal>> /\ timer' = [timer EXCEPT !.pc = "timeout"]
    BY <1>3 DEF TimerTimeout, ScanStep
  <2>4. timer'.pc = "timeout" BY <1>0, <2>3 DEF TimerTypeOK
  <2> QED BY <1>0, <2>2, <2>3, <2>4, FatalItem
<1>4. CASE TimerSetWaiting
  <2> DEFINE item == [cqi[Current] EXCEPT !.state = "WAITING"]
  <2>1. Current \in Tokens /\ (Current \in fatal => Settled(cqi[Current]))
    BY <1>0, <1>4, FatalCurrent DEF TimerSetWaiting
  <2>2. cqi' = [cqi EXCEPT ![Current] = item] /\ UNCHANGED <<downloads, fatal>>
    BY <1>4 DEF TimerSetWaiting, ScanStep
  <2>3. Current \in fatal => Settled(item)
    BY <1>0, <2>1 DEF Settled, ItemsTypeOK, Item
  <2>4. timer'.pc = "scan" BY <1>a, <1>4 DEF TimerSetWaiting
  <2> HIDE DEF item
  <2> QED BY <1>0, <2>1, <2>2, <2>3, <2>4, FatalItem
<1>5. ASSUME NEW kind \in FileKinds \cup {"none"}, NEW slot \in BOOLEAN,
             TimerAttempt(kind, slot)
      PROVE  FatalInvariant'
  <2>1. Scanning /\ ~ProtocolFailure(Current)
    BY <1>5 DEF TimerAttempt, Attemptable
  <2>2. Current \in Tokens /\ Current \notin fatal
    BY <1>0, <2>1, FatalCurrent DEF Settled, ProtocolFailure
  <2>3. PICK item : cqi' = [cqi EXCEPT ![Current] = item]
    BY <1>0, <1>5, <2>2 DEF TimerAttempt, ItemsTypeOK
  <2>4. UNCHANGED <<downloads, fatal>> BY <1>5 DEF TimerAttempt, ScanStep
  <2>5. DistinctItems' BY <2>4 DEF FatalInvariant, DistinctItems
  <2>6. FatalSettled'
    <3>1. \A x \in Tokens : x # Current => cqi'[x] = cqi[x]
      BY <1>0, <2>2, <2>3 DEF ItemsTypeOK
    <3> QED BY <1>0, <2>2, <2>4, <3>1
            DEF FatalInvariant, FatalSettled, Queued, ItemsTypeOK
  <2>7. AttemptClean'
    <3>1. \/ timer' = [timer EXCEPT !.pc = "connect"]
          \/ timer' = NextItem \/ timer' = DropItem
      BY <1>5 DEF TimerAttempt
    <3>2. timer'.pc = "connect" => timer'.idx = timer.idx
      BY <1>0, <1>a, <3>1 DEF TimerTypeOK
    <3> QED BY <2>2, <2>4, <3>2 DEF AttemptClean, Current
  <2> QED BY <2>5, <2>6, <2>7 DEF FatalInvariant
<1>6. ASSUME NEW result \in {"sent", "failed", "protocolError"}, TimerConnect(result)
      PROVE  FatalInvariant'
  <2> DEFINE item == AttemptedItem(cqi[Current], result)
  <2>1. Current \in Tokens /\ Current \notin fatal /\ cqi[Current] \in Item
    BY <1>0, <1>6, CurrentType DEF TimerConnect, FatalInvariant, AttemptClean
  <2>2. /\ cqi' = [cqi EXCEPT ![Current] = item] /\ UNCHANGED downloads
        /\ fatal' = IF result = "protocolError" THEN fatal \cup {Current} ELSE fatal
        /\ timer' = [NextItem EXCEPT !.attempts = IF result = "sent" THEN @ + 1 ELSE @]
    BY <1>6 DEF TimerConnect
  <2>3. Current \in fatal' => Settled(item)
    <3>1. CASE result = "protocolError"
      BY <2>1, <3>1 DEF Settled, AttemptedItem, Item
    <3> QED BY <2>1, <2>2, <3>1
  <2>4. timer'.pc = "scan" BY <1>0, <2>2 DEF TimerTypeOK, NextItem
  <2> HIDE DEF item
  <2> QED BY <1>0, <2>1, <2>2, <2>3, <2>4, FatalItem
<1>7. CASE TimerScanned
  BY <1>0, <1>7, FatalQuiet DEF TimerScanned, itemVars, TimerTypeOK
<1>8. CASE TimerPurge
  BY <1>0, <1>8, FatalQuiet DEF TimerPurge, itemVars, TimerTypeOK
<1>9. CASE TimerRemove
  <2>1. timer'.pc # "connect" BY <1>0, <1>9 DEF TimerRemove, TimerTypeOK
  <2>2. CASE UNCHANGED itemVars BY <2>1, <2>2, FatalQuiet DEF itemVars
  <2>3. ASSUME NEW i \in 1..Len(downloads), putCQIUnsafe(downloads[i], i)
        PROVE  FatalInvariant'
    BY <1>0, <2>1, <2>3, FatalPut
  <2> QED BY <1>9, <2>2, <2>3 DEF TimerRemove
<1> QED BY <1>1, <1>2, <1>3, <1>4, <1>5, <1>6, <1>7, <1>8, <1>9 DEF TimerStep

\* failDownload: only an item that was tried gets the mark of a fatal error,
\* and an item that waits keeps it.
LEMMA FatalFail ==
  ASSUME ItemsTypeOK, FatalInvariant, UNCHANGED timer, NEW t,
         NEW fatalError \in BOOLEAN, NEW thread, failDownload(t, fatalError, thread)
  PROVE  FatalInvariant'
<1>1. timer'.pc # "connect" BY DEF failDownload, WLock
<1>2. CASE ~Queued(t)
  BY <1>1, <1>2, FatalQuiet DEF failDownload, itemVars
<1>3. CASE Queued(t)
  <2> DEFINE item == FailedItem(cqi[t], fatalError)
  <2>1. t \in Tokens /\ cqi[t] \in Item BY <1>3, QueuedToken DEF ItemsTypeOK
  <2>2. /\ removeExtraMCN(t, item)
        /\ fatal' = IF fatalError /\ cqi[t].state # "WAITING"
                      THEN fatal \cup {t} ELSE fatal
    BY <1>3 DEF failDownload
  <2>3. t \in fatal => Settled(cqi[t])
    BY <1>3 DEF FatalInvariant, FatalSettled
  <2>4. t \in fatal' => Settled(item)
    <3>1. CASE cqi[t].state = "WAITING"
      BY <2>1, <2>2, <2>3, <3>1 DEF Settled, FailedItem, Item
    <3>2. CASE cqi[t].state # "WAITING"
      <4>1. t \in fatal' => fatalError BY <2>2, <2>3, <3>2 DEF Settled
      <4> QED BY <2>1, <3>2, <4>1 DEF Settled, FailedItem, Item
    <3> QED BY <3>1, <3>2
  <2>5. fatal' \subseteq fatal \cup {t} BY <2>2
  <2> HIDE DEF item
  <2> QED BY <1>1, <2>1, <2>2, <2>4, <2>5, FatalRemoveExtra
<1> QED BY <1>2, <1>3

\* The sockets' steps.
LEMMA FatalSocket ==
  ASSUME TypeOK, FatalInvariant, NEW c \in Conns, SocketStep(c)
  PROVE  FatalInvariant'
<1>0. ItemsTypeOK /\ TimerTypeOK /\ ConnsTypeOK BY DEF TypeOK
<1>1. CASE UNCHANGED <<itemVars, timer>>
  BY <1>1, FatalQuiet DEF itemVars
<1>2. ASSUME NEW co \in RemoteLimits, INF(c, co) PROVE FatalInvariant'
  <2> DEFINE t == uc[c].token
  <2>1. UNCHANGED <<downloads, timer>> BY <1>2 DEF INF
  <2>2. CASE UNCHANGED <<cqi, fatal>> BY <2>1, <2>2, FatalQuiet
  <2>3. ASSUME Queued(t), fatal' = fatal \ {t},
               cqi' = [cqi EXCEPT ![t].errors = 0, ![t].maxRemoteConns =
                         IF uc[c].user \in McnUsers THEN co ELSE @]
        PROVE  FatalInvariant'
    <3>1. t \in Tokens BY <1>0, <2>3, QueuedToken
    <3>2. PICK item : cqi' = [cqi EXCEPT ![t] = item]
      BY <1>0, <2>3, <3>1 DEF ItemsTypeOK
    <3> HIDE DEF t
    <3> QED BY <1>0, <2>1, <2>3, <3>1, <3>2, FatalItem
  <2> QED BY <1>2, <2>2, <2>3 DEF INF
<1>3. CASE AddDownloadConnection(c)
  <2>1. UNCHANGED <<downloads, timer>> BY <1>3 DEF AddDownloadConnection
  <2>2. PICK t \in Tokens : /\ fatal' = fatal \ {t}
                            /\ cqi' = [cqi EXCEPT ![t] = ActiveItem(cqi[t], uc[c].user \in McnUsers)]
    BY <1>3 DEF AddDownloadConnection
  <2> QED BY <1>0, <2>1, <2>2, FatalItem
<1>4. CASE StateEvent(c)
  <2>1. UNCHANGED timer BY <1>4 DEF StateEvent
  <2>2. ASSUME NEW t \in Tokens, NEW b \in BOOLEAN, t \in fatal, findDownload(c, t)
        PROVE  Settled([cqi[t] EXCEPT !.running = b])
    <3>1. Queued(t) BY <2>2 DEF findDownload, Queued
    <3>2. Settled(cqi[t]) BY <2>2, <3>1 DEF FatalInvariant, FatalSettled
    <3> QED BY <1>0, <3>2 DEF Settled, ItemsTypeOK, Item
  <2>3. CASE UNCHANGED itemVars BY <2>1, <2>3, <1>1
  <2>4. CASE onIdle(c)
    <3>1. timer'.pc # "connect" BY <2>1, <2>4 DEF onIdle, WLock
    <3>2. ASSUME NEW t \in Tokens, findDownload(c, t), UNCHANGED fatal,
                 removeExtraMCN(t, [cqi[t] EXCEPT !.running = FALSE])
          PROVE  FatalInvariant'
      <4>1. t \in fatal' => Settled([cqi[t] EXCEPT !.running = FALSE]) BY <2>2, <3>2
      <4>2. fatal' \subseteq fatal \cup {t} BY <3>2
      <4> QED BY <1>0, <3>1, <3>2, <4>1, <4>2, FatalRemoveExtra
    <3> QED BY <2>3, <2>4, <3>2 DEF onIdle
  <2>5. CASE onDownloadRunning(c)
    <3>1. UNCHANGED <<downloads, removedDownloadTokens, fatal>>
      BY <2>5 DEF onDownloadRunning
    <3>2. CASE UNCHANGED cqi BY <2>1, <3>1, <3>2, FatalQuiet
    <3>3. ASSUME NEW t \in Tokens, findDownload(c, t),
                 cqi' = [cqi EXCEPT ![t].running = TRUE]
          PROVE  FatalInvariant'
      <4>1. t \in fatal' => Settled([cqi[t] EXCEPT !.running = TRUE]) BY <2>2, <3>1, <3>3
      <4>2. fatal' \subseteq fatal \cup {t} BY <3>1
      <4> QED BY <1>0, <2>1, <3>1, <3>3, <4>1, <4>2, FatalItem
    <3> QED BY <2>5, <3>2, <3>3 DEF onDownloadRunning
  <2> QED BY <1>4, <2>3, <2>4, <2>5 DEF StateEvent
<1>5. CASE TreeSaveFailed(c)
  BY <1>0, <1>5, FatalFail DEF TreeSaveFailed
<1>6. CASE FailedDownload(c)
  <2>1. (uc[c].pc = "fatal") \in BOOLEAN OBVIOUS
  <2> QED BY <1>0, <1>6, <2>1, FatalFail DEF FailedDownload
<1>7. CASE PutCQI(c)
  <2>1. timer'.pc # "connect" BY <1>7 DEF PutCQI, WLock
  <2>2. PICK i \in 1..Len(downloads) : putCQIUnsafe(downloads[i], i)
    BY <1>7 DEF PutCQI
  <2> QED BY <1>0, <2>1, <2>2, FatalPut
<1>8. ASSUME \/ \E t \in Tokens : Handshake(c, t)
             \/ AddDownloadCheck(c) \/ \E started \in BOOLEAN : CheckDownloads(c, started)
             \/ StartData(c) \/ EndData(c) \/ Revive(c)
             \/ \E protocolError \in BOOLEAN : Failed(c, protocolError)
             \/ PutConnection(c)
      PROVE  UNCHANGED <<itemVars, timer>>
  <2>1. ASSUME NEW t \in Tokens, Handshake(c, t) PROVE UNCHANGED <<itemVars, timer>>
    BY <2>1 DEF Handshake
  <2>2. AddDownloadCheck(c) \/ PutConnection(c) => UNCHANGED <<itemVars, timer>>
    BY DEF AddDownloadCheck, PutConnection
  <2>3. ASSUME NEW started \in BOOLEAN, CheckDownloads(c, started)
        PROVE  UNCHANGED <<itemVars, timer>>
    BY <2>3 DEF CheckDownloads
  <2>4. StartData(c) \/ EndData(c) \/ Revive(c) => UNCHANGED <<itemVars, timer>>
    BY DEF StartData, EndData, Revive
  <2>5. ASSUME NEW protocolError \in BOOLEAN, Failed(c, protocolError)
        PROVE  UNCHANGED <<itemVars, timer>>
    BY <2>5 DEF Failed
  <2> QED BY <1>8, <2>1, <2>2, <2>3, <2>4, <2>5
<1> QED BY <1>1, <1>2, <1>3, <1>4, <1>5, <1>6, <1>7, <1>8 DEF SocketStep

\* The steps of callers, of createNewMCN and of the environment.
LEMMA FatalOther ==
  ASSUME TypeOK, FatalInvariant,
         \/ CallerStep \/ EnvironmentStep
         \/ \E thread \in Conns \cup {Hub} : createNewMCN(thread)
  PROVE  FatalInvariant'
<1>0. ItemsTypeOK /\ TimerTypeOK BY DEF TypeOK
<1>1. CASE UNCHANGED <<downloads, cqi, fatal, timer>>
  BY <1>1, FatalQuiet
<1>2. CASE getDownloadConnection
  <2>1. UNCHANGED timer /\ timer'.pc # "connect"
    BY <1>2 DEF getDownloadConnection, WLock
  <2>2. CASE UNCHANGED <<downloads, cqi, fatal>> BY <1>1, <2>1, <2>2
  <2>3. ASSUME NEW t \in Tokens, NEW item, getCQIUnsafe(t, item)
        PROVE  FatalInvariant'
    BY <1>0, <2>1, <2>3, FatalGet
  <2>4. ASSUME NEW i \in 1..Len(downloads), UNCHANGED <<downloads, fatal>>,
               cqi' = [cqi EXCEPT ![downloads[i]] = resetFatalError(cqi[downloads[i]])]
        PROVE  FatalInvariant'
    <3> DEFINE t == downloads[i]
               item == resetFatalError(cqi[t])
    <3>1. t \in Tokens /\ Queued(t) BY <1>0 DEF ItemsTypeOK, Queued
    <3>2. t \in fatal' => Settled(item)
      BY <2>4, <3>1 DEF FatalInvariant, FatalSettled, Settled, resetFatalError
    <3>3. cqi' = [cqi EXCEPT ![t] = item] BY <2>4
    <3> HIDE DEF t, item
    <3> QED BY <1>0, <2>1, <2>4, <3>1, <3>2, <3>3, FatalItem
  <2> QED BY <1>2, <2>2, <2>3, <2>4 DEF getDownloadConnection
<1>3. ASSUME NEW t \in Tokens, force(t) PROVE FatalInvariant'
  <2>1. UNCHANGED <<downloads, timer>> BY <1>3 DEF force
  <2>2. CASE UNCHANGED <<cqi, fatal>> BY <1>1, <2>1, <2>2
  <2>3. CASE fatal' = fatal \ {t} /\ cqi' = [cqi EXCEPT ![t].lastAttempt = "zero"]
    <3> DEFINE item == [cqi[t] EXCEPT !.lastAttempt = "zero"]
    <3>1. cqi' = [cqi EXCEPT ![t] = item] BY <2>3
    <3> HIDE DEF item
    <3> QED BY <1>0, <2>1, <2>3, <3>1, FatalItem
  <2> QED BY <1>3, <2>2, <2>3 DEF force
<1>4. ASSUME NEW thread \in Conns \cup {Hub}, createNewMCN(thread)
      PROVE  FatalInvariant'
  <2> DEFINE item == [NewItem(mcnUser[thread]) EXCEPT !.downloadType = "MCN_NORMAL",
                                                      !.mcn = TRUE]
  <2>1. UNCHANGED timer /\ WLock BY <1>4, Zenon DEF createNewMCN
  <2>2. timer'.pc # "connect" BY <2>1 DEF WLock
  <2>3. UNCHANGED <<downloads, cqi, fatal>> \/ \E t \in Tokens : getCQIUnsafe(t, item)
    BY <1>4, Zenon DEF createNewMCN
  <2> HIDE DEF item
  <2> QED BY <1>0, <1>1, <2>1, <2>2, <2>3, FatalGet
<1>5. ASSUME NEW t \in Tokens, Elapse(t) PROVE FatalInvariant'
  <2>1. UNCHANGED <<downloads, fatal, timer>> /\ Queued(t) BY <1>5 DEF Elapse
  <2>2. PICK age \in {"late", "due"} : cqi' = [cqi EXCEPT ![t].lastAttempt = age]
    BY <1>5 DEF Elapse
  <2> DEFINE item == [cqi[t] EXCEPT !.lastAttempt = age]
  <2>3. t \in fatal' => Settled(item)
    BY <1>0, <2>1 DEF FatalInvariant, FatalSettled, Settled, ItemsTypeOK, Item
  <2>4. cqi' = [cqi EXCEPT ![t] = item] BY <2>2
  <2> HIDE DEF item
  <2> QED BY <1>0, <2>1, <2>3, <2>4, FatalItem
<1>6. ASSUME NEW t \in Tokens, ProtocolUnsupported(t) PROVE FatalInvariant'
  BY <1>0, <1>6, FatalFail DEF ProtocolUnsupported
<1>7. ASSUME \/ CheckIdle
             \/ \E u \in Users, kind \in FileKinds : AddFile(u, kind) \/ FilesFinished(u, kind)
             \/ \E u \in Users : UserDisconnected(u) \/ UserConnected(u)
             \/ \E t \in Tokens : LoseRequest(t) \/ ForgetRemoved(t)
      PROVE  UNCHANGED <<downloads, cqi, fatal, timer>>
  BY <1>7 DEF CheckIdle, AddFile, FilesFinished, UserDisconnected, UserConnected,
              LoseRequest, ForgetRemoved, itemVars
<1> QED BY <1>1, <1>2, <1>3, <1>4, <1>5, <1>6, <1>7 DEF CallerStep, EnvironmentStep

\* Only connectUnsafe adds a connect request, for the item the timer stands at.
LEMMA InvitedGrows ==
  ASSUME TypeOK, Next, NEW t \in Tokens, invited'[t] > invited[t]
  PROVE  timer.pc = "connect" /\ t = Current
<1>0. invited \in [Tokens -> 0..MaxInvites] BY DEF TypeOK
<1>1. \/ UNCHANGED invited
      \/ \E x \in Tokens : invited' = [invited EXCEPT ![x] = @ - 1]
      \/ /\ timer.pc = "connect"
         /\ invited' = [invited EXCEPT ![Current] = Increment(@, MaxInvites)]
  <2>1. CASE TimerStep
    <3>1. ASSUME NEW result, TimerConnect(result)
          PROVE  \/ UNCHANGED invited
                 \/ /\ timer.pc = "connect"
                    /\ invited' = [invited EXCEPT ![Current] = Increment(@, MaxInvites)]
      BY <3>1 DEF TimerConnect
    <3>2. TimerStart \/ TimerSkip \/ TimerTimeout \/ TimerSetWaiting => UNCHANGED invited
      BY DEF TimerStart, TimerSkip, TimerTimeout, TimerSetWaiting
    <3>3. ASSUME NEW kind, NEW slot, TimerAttempt(kind, slot) PROVE UNCHANGED invited
      BY <3>3 DEF TimerAttempt
    <3>4. TimerScanned \/ TimerPurge \/ TimerRemove => UNCHANGED invited
      BY DEF TimerScanned, TimerPurge, TimerRemove
    <3> QED BY <2>1, <3>1, <3>2, <3>3, <3>4 DEF TimerStep
  <2>2. ASSUME NEW c \in Conns, SocketStep(c)
        PROVE  \/ UNCHANGED invited
               \/ \E x \in Tokens : invited' = [invited EXCEPT ![x] = @ - 1]
    <3>1. ASSUME NEW x \in Tokens, Handshake(c, x)
          PROVE  invited' = [invited EXCEPT ![x] = @ - 1]
      BY <3>1 DEF Handshake
    <3>2. ASSUME NEW co, INF(c, co) PROVE UNCHANGED invited
      BY <3>2 DEF INF
    <3>3. AddDownloadCheck(c) \/ AddDownloadConnection(c) => UNCHANGED invited
      BY Zenon DEF AddDownloadCheck, AddDownloadConnection
    <3>4. ASSUME NEW started, CheckDownloads(c, started) PROVE UNCHANGED invited
      BY <3>4 DEF CheckDownloads
    <3>5. StartData(c) \/ EndData(c) \/ Revive(c) \/ StateEvent(c) => UNCHANGED invited
      BY DEF StartData, EndData, Revive, StateEvent
    <3>6. ASSUME NEW protocolError, Failed(c, protocolError) PROVE UNCHANGED invited
      BY <3>6 DEF Failed
    <3>7. \/ TreeSaveFailed(c) \/ FailedDownload(c) \/ PutCQI(c) \/ PutConnection(c)
          => UNCHANGED invited
      BY DEF TreeSaveFailed, FailedDownload, PutCQI, PutConnection
    <3> QED BY <2>2, <3>1, <3>2, <3>3, <3>4, <3>5, <3>6, <3>7 DEF SocketStep
  <2>3. ASSUME NEW thread \in Conns \cup {Hub}, createNewMCN(thread)
        PROVE  UNCHANGED invited
    BY <2>3 DEF createNewMCN
  <2>4. CASE CallerStep
    BY <2>4 DEF CallerStep, CheckIdle, getDownloadConnection, force
  <2>5. CASE EnvironmentStep
    BY <2>5 DEF EnvironmentStep, AddFile, FilesFinished, UserDisconnected, UserConnected,
                LoseRequest, Elapse, ForgetRemoved, ProtocolUnsupported
  <2> QED BY <2>1, <2>2, <2>3, <2>4, <2>5 DEF Next
<1> QED BY <1>0, <1>1, ConstantsAssumption DEF ConstantsAssumption

\* An item whose last outcome is a protocol error is not connected to again,
\* on whatever thread the error, the other failures of the item and the timer's
\* scan take place, until it is forced or its peer completes a handshake.
THEOREM ReconnectsForced == Spec => NoUnforcedReconnect
<1> DEFINE Kept == \A t \in Tokens : invited'[t] > invited[t] => t \notin fatal
<1>1. Init => FatalInvariant
  BY DEF Init, FatalInvariant, DistinctItems, FatalSettled, AttemptClean
<1>2. TypeOK /\ FatalInvariant /\ [Next]_vars => FatalInvariant'
  <2>1. UNCHANGED vars => UNCHANGED <<downloads, cqi, fatal, timer>> BY DEF vars, itemVars
  <2> QED BY <2>1, FatalQuiet, FatalTimer, FatalSocket, FatalOther DEF Next
<1>3. TypeOK /\ FatalInvariant /\ [Next]_vars => [Kept]_vars
  BY InvitedGrows DEF FatalInvariant, AttemptClean
<1>4. Spec => []TypeOK BY TypeCorrect
<1>5. NoUnforcedReconnect <=> [][Kept]_vars BY DEF NoUnforcedReconnect
<1> QED BY <1>1, <1>2, <1>3, <1>4, <1>5, PTL DEF Spec

-----------------------------------------------------------------------------
(* Items and the connections that release them *)

\* No item changes hands, becomes an MCN item or comes into use.
ItemsKept ==
  \A t \in Tokens : /\ cqi'[t].user = cqi[t].user
                    /\ cqi'[t].mcn => cqi[t].mcn
                    /\ InUse(t)' => InUse(t)

ConnsKept ==
  \A c \in Conns : /\ uc'[c].token = uc[c].token
                   /\ uc'[c].user = uc[c].user

\* The four parts of the invariant under such steps.
LEMMA KeepParts ==
  /\ TokenOwners /\ ItemsKept /\ ConnsKept => TokenOwners'
  /\ McnItems /\ ItemsKept /\ UNCHANGED mcnUser => McnItems'
  /\ UnqueuedItems /\ UNCHANGED <<downloads, cqi>> => UnqueuedItems'
  /\ ConnectionPhases /\ UNCHANGED uc => ConnectionPhases'
<1>1. TokenOwners /\ ItemsKept /\ ConnsKept => TokenOwners'
  BY DEF TokenOwners, ItemsKept, ConnsKept
<1>2. McnItems /\ ItemsKept /\ UNCHANGED mcnUser => McnItems'
  BY DEF McnItems, ItemsKept
<1>3. UnqueuedItems /\ UNCHANGED <<downloads, cqi>> => UnqueuedItems'
  BY DEF UnqueuedItems, Queued
<1>4. ConnectionPhases /\ UNCHANGED uc => ConnectionPhases'
  BY DEF ConnectionPhases
<1> QED BY <1>1, <1>2, <1>3, <1>4

\* No orphan appears if no item comes into use and an item that stays in use
\* keeps its connections.
LEMMA KeepServed ==
  ASSUME NoOrphanItem, ItemsKept,
         \A c \in Conns, t \in Tokens : Serves(c, t) /\ InUse(t)' => Serves(c, t)'
  PROVE  NoOrphanItem'
BY DEF NoOrphanItem, ItemsKept

\* Steps that touch neither items nor connections.
LEMMA QuietStep ==
  ASSUME OrphanInvariant, UNCHANGED <<downloads, cqi, uc, mcnUser>>
  PROVE  OrphanInvariant'
<1>1. ItemsKept /\ ConnsKept BY DEF ItemsKept, ConnsKept, InUse
<1>2. NoOrphanItem' BY <1>1, KeepServed DEF OrphanInvariant, Serves
<1> QED BY <1>1, <1>2, KeepParts DEF OrphanInvariant

\* Steps that change one listed item without bringing it into use.
LEMMA ItemStep ==
  ASSUME OrphanInvariant, ItemsTypeOK, NEW t \in Tokens, Queued(t), NEW item \in Item,
         item.user = cqi[t].user, item.mcn = cqi[t].mcn, item.running = cqi[t].running,
         item.state = "ACTIVE" => cqi[t].state = "ACTIVE",
         cqi' = [cqi EXCEPT ![t] = item],
         UNCHANGED <<downloads, uc, mcnUser>>
  PROVE  OrphanInvariant'
<1>1. \A x \in Tokens : cqi'[x] = IF x = t THEN item ELSE cqi[x]
  BY DEF ItemsTypeOK
<1>2. ItemsKept BY <1>1 DEF ItemsKept, InUse
<1>3. ConnsKept BY DEF ConnsKept
<1>4. NoOrphanItem' BY <1>2, KeepServed DEF OrphanInvariant, Serves
<1>5. UnqueuedItems' BY <1>1 DEF OrphanInvariant, UnqueuedItems, Queued
<1> QED BY <1>2, <1>3, <1>4, <1>5, KeepParts DEF OrphanInvariant

\* Steps that move one connection, which goes on serving its item.
LEMMA ConnStep ==
  ASSUME OrphanInvariant, ConnsTypeOK, NEW c \in Conns, NEW conn,
         uc' = [uc EXCEPT ![c] = conn], PhaseOK(conn),
         conn.token = uc[c].token, conn.user = uc[c].user,
         uc[c].assoc /\ uc[c].pc # "put" => conn.assoc /\ conn.pc # "put",
         UNCHANGED <<downloads, cqi, mcnUser>>
  PROVE  OrphanInvariant'
<1>1. \A d \in Conns : uc'[d] = IF d = c THEN conn ELSE uc[d]
  BY DEF ConnsTypeOK
<1>2. ItemsKept BY DEF ItemsKept, InUse
<1>3. ConnsKept BY <1>1 DEF ConnsKept
<1>4. NoOrphanItem' BY <1>1, <1>2, KeepServed DEF OrphanInvariant, Serves
<1>5. ConnectionPhases' BY <1>1 DEF OrphanInvariant, ConnectionPhases
<1> QED BY <1>2, <1>3, <1>4, <1>5, KeepParts DEF OrphanInvariant

\* A connection that serves nothing is forgotten.
LEMMA ForgetStep ==
  ASSUME OrphanInvariant, ConnsTypeOK, NEW c \in Conns, Forget(c),
         uc[c].assoc => uc[c].pc = "put",
         UNCHANGED <<downloads, cqi, mcnUser>>
  PROVE  OrphanInvariant'
<1>1. \A d \in Conns : uc'[d] = IF d = c THEN NoConnection ELSE uc[d]
  BY DEF ConnsTypeOK, Forget
<1>2. ItemsKept BY DEF ItemsKept, InUse
<1>3. TokenOwners'
  BY <1>1, ConstantsAssumption
     DEF ConstantsAssumption, OrphanInvariant, TokenOwners, NoConnection
<1>4. NoOrphanItem' BY <1>1, <1>2, KeepServed DEF OrphanInvariant, Serves
<1>5. ConnectionPhases'
  BY <1>1 DEF OrphanInvariant, ConnectionPhases, PhaseOK, NoConnection
<1> QED BY <1>2, <1>3, <1>4, <1>5, KeepParts DEF OrphanInvariant

\* An item leaves the list.
LEMMA RemoveItems ==
  ASSUME OrphanInvariant, ItemsTypeOK, NEW i \in 1..Len(downloads),
         NEW x \in Tokens, downloads[i] = x, NEW t \in Tokens, NEW item \in Item,
         downloads' = RemoveAt(downloads, i),
         \A y \in Tokens : cqi'[y] = IF y = x THEN NewItem(cqi[x].user)
                                     ELSE IF y = t THEN item ELSE cqi[y],
         item.user = cqi[t].user, item.mcn = cqi[t].mcn, ~item.running,
         item.state = "ACTIVE" => cqi[t].state = "ACTIVE",
         Queued(t), t # x
  PROVE  ItemsKept /\ UnqueuedItems' /\ cqi'[t] = item
<1>1. ~InUse(x)' BY DEF InUse, NewItem
<1>2. ItemsKept BY <1>1 DEF ItemsKept, InUse, NewItem
<1>3. ASSUME NEW y \in Tokens, y # x, Queued(y) PROVE Queued(y)'
  <2>1. PICK j \in 1..Len(downloads) : downloads[j] = y BY <1>3 DEF Queued
  <2>2. j # i BY <1>3, <2>1
  <2>3. \E k \in 1..Len(RemoveAt(downloads, i)) : RemoveAt(downloads, i)[k] = y
    BY <2>1, <2>2, RemoveAtProperties DEF ItemsTypeOK
  <2> QED BY <2>3 DEF Queued
<1>4. UnqueuedItems'
  BY <1>3 DEF OrphanInvariant, UnqueuedItems, NewItem
<1> QED BY <1>2, <1>4

\* putCQIUnsafe takes one item out of the list and leaves it unused.
LEMMA PutItem ==
  ASSUME OrphanInvariant, ItemsTypeOK, NEW i \in 1..Len(downloads),
         NEW t \in Tokens, downloads[i] = t, putCQIUnsafe(t, i)
  PROVE  ItemsKept /\ UnqueuedItems' /\ ~InUse(t)'
<1>1. \A y \in Tokens : cqi'[y] = IF y = t THEN NewItem(cqi[t].user) ELSE cqi[y]
  BY DEF ItemsTypeOK, putCQIUnsafe
<1>2. ~InUse(t)' BY <1>1 DEF InUse, NewItem
<1>3. ItemsKept BY <1>1, <1>2 DEF ItemsKept, InUse, NewItem
<1>4. ASSUME NEW y \in Tokens, y # t, Queued(y) PROVE Queued(y)'
  <2>1. PICK j \in 1..Len(downloads) : downloads[j] = y BY <1>4 DEF Queued
  <2>2. j # i BY <1>4, <2>1
  <2>3. \E k \in 1..Len(RemoveAt(downloads, i)) : RemoveAt(downloads, i)[k] = y
    BY <2>1, <2>2, RemoveAtProperties DEF ItemsTypeOK
  <2> QED BY <2>3 DEF Queued, putCQIUnsafe
<1>5. UnqueuedItems'
  BY <1>1, <1>4 DEF OrphanInvariant, UnqueuedItems, NewItem
<1> QED BY <1>2, <1>3, <1>5

\* removeExtraMCN while item t stops running.
LEMMA RemoveExtra ==
  ASSUME OrphanInvariant, ItemsTypeOK, NEW t \in Tokens, Queued(t), NEW item \in Item,
         removeExtraMCN(t, item),
         item.user = cqi[t].user, item.mcn = cqi[t].mcn, ~item.running,
         item.state = "ACTIVE" => cqi[t].state = "ACTIVE"
  PROVE  ItemsKept /\ UnqueuedItems' /\ cqi'[t] = item
<1>1. CASE UNCHANGED downloads /\ cqi' = [cqi EXCEPT ![t] = item]
  <2>1. \A y \in Tokens : cqi'[y] = IF y = t THEN item ELSE cqi[y]
    BY <1>1 DEF ItemsTypeOK
  <2>2. ItemsKept BY <2>1 DEF ItemsKept, InUse
  <2>3. UnqueuedItems' BY <1>1, <2>1 DEF OrphanInvariant, UnqueuedItems, Queued
  <2> QED BY <2>1, <2>2, <2>3
<1>2. ASSUME NEW i \in 1..Len(downloads), downloads[i] # t,
             downloads' = RemoveAt(downloads, i),
             cqi' = [cqi EXCEPT ![t] = item,
                                ![downloads[i]] = NewItem(cqi[downloads[i]].user)]
      PROVE  ItemsKept /\ UnqueuedItems' /\ cqi'[t] = item
  <2>1. PICK x \in Tokens : x = downloads[i] BY DEF ItemsTypeOK
  <2>2. \A y \in Tokens : cqi'[y] = IF y = x THEN NewItem(cqi[x].user)
                                    ELSE IF y = t THEN item ELSE cqi[y]
    BY <1>2, <2>1 DEF ItemsTypeOK
  <2> QED BY <1>2, <2>1, <2>2, RemoveItems
<1> QED BY <1>1, <1>2 DEF removeExtraMCN, IsExtra

\* failDownload: the item is out of use afterwards, and the user for whom a
\* new connection may be created has MCN items.
LEMMA FailItem ==
  ASSUME OrphanInvariant, ItemsTypeOK, ConnsTypeOK, NEW t,
         NEW fatalError \in BOOLEAN, NEW thread \in Conns \cup {Hub},
         failDownload(t, fatalError, thread)
  PROVE  ItemsKept /\ UnqueuedItems' /\ McnItems' /\ (t \in Tokens => ~InUse(t)')
<1>1. CASE Queued(t)
  <2>1. t \in Tokens /\ cqi[t] \in Item BY <1>1, QueuedToken DEF ItemsTypeOK
  <2> DEFINE item == FailedItem(cqi[t], fatalError)
  <2>2. item \in Item BY <2>1, FailedItemType
  <2>3. /\ item.user = cqi[t].user /\ item.mcn = cqi[t].mcn
        /\ ~item.running /\ item.state = "WAITING"
    BY <2>1 DEF FailedItem, Item
  <2>4. removeExtraMCN(t, item) BY <1>1 DEF failDownload
  <2>5. ItemsKept /\ UnqueuedItems' /\ cqi'[t] = item
    <3> HIDE DEF item
    <3> QED BY <1>1, <2>1, <2>2, <2>3, <2>4, RemoveExtra
  <2>6. ~InUse(t)'
    <3> HIDE DEF item
    <3> QED BY <2>3, <2>5 DEF InUse
  <2>7. McnItems'
    <3>1. \/ cqi[t].mcn /\ mcnUser' = [mcnUser EXCEPT ![thread] = cqi[t].user]
          \/ mcnUser' = [mcnUser EXCEPT ![thread] = NoUser]
      BY <1>1 DEF failDownload
    <3> QED BY <2>1, <2>5, <3>1 DEF OrphanInvariant, McnItems, ItemsKept, ConnsTypeOK
  <2> QED BY <2>5, <2>6, <2>7
<1>2. CASE ~Queued(t)
  <2>1. UNCHANGED <<downloads, cqi, mcnUser>> BY <1>2 DEF failDownload, itemVars
  <2>2. ItemsKept BY <2>1 DEF ItemsKept, InUse
  <2>3. t \in Tokens => ~InUse(t)'
    BY <1>2, <2>1 DEF OrphanInvariant, UnqueuedItems, InUse
  <2> QED BY <2>1, <2>2, <2>3, KeepParts DEF OrphanInvariant
<1> QED BY <1>1, <1>2

\* A new item.
LEMMA GetItem ==
  ASSUME OrphanInvariant, ItemsTypeOK, ConnsTypeOK, NEW t \in Tokens, NEW item \in Item,
         getCQIUnsafe(t, item), item.state = "WAITING", ~item.running,
         item.mcn => item.user \in McnUsers,
         UNCHANGED uc,
         \A x \in Conns \cup {Hub} : mcnUser'[x] \in {mcnUser[x], NoUser}
  PROVE  OrphanInvariant'
<1>1. \A y \in Tokens : cqi'[y] = IF y = t THEN item ELSE cqi[y]
  BY DEF ItemsTypeOK, getCQIUnsafe
<1>2. \A c \in Conns : uc[c].token # t BY DEF getCQIUnsafe, Unused
<1>3. TokenOwners' BY <1>1, <1>2 DEF OrphanInvariant, TokenOwners
<1>4. McnItems' BY <1>1 DEF OrphanInvariant, McnItems
<1>5. ASSUME NEW y \in Tokens, Queued(y) PROVE Queued(y)'
  <2>1. PICK j \in 1..Len(downloads) : downloads[j] = y BY <1>5 DEF Queued
  <2>2. downloads' = Append(downloads, t) /\ downloads \in Seq(Tokens)
    BY DEF getCQIUnsafe, ItemsTypeOK
  <2>3. j \in 1..Len(downloads') /\ downloads'[j] = y
    BY <2>1, <2>2, AppendProperties
  <2> QED BY <2>3 DEF Queued
<1>6. UnqueuedItems' BY <1>1, <1>5 DEF OrphanInvariant, UnqueuedItems
<1>7. NoOrphanItem' BY <1>1 DEF OrphanInvariant, NoOrphanItem, InUse, Serves
<1> QED BY <1>3, <1>4, <1>6, <1>7, KeepParts DEF OrphanInvariant

-----------------------------------------------------------------------------
(* The actions *)

\* The steps of the timer: attemptDownloads and on(Second).
LEMMA TimerOrphan ==
  ASSUME TypeOK, OrphanInvariant, TimerStep PROVE OrphanInvariant'
<1>0. ItemsTypeOK /\ TimerTypeOK /\ ConnsTypeOK BY DEF TypeOK
<1>1. ASSUME Scanning \/ timer.pc \in {"timeout", "connect"}
      PROVE  Current \in Tokens /\ cqi[Current] \in Item /\ Queued(Current)
  BY <1>0, <1>1, CurrentType DEF Queued, Current
<1>2. CASE TimerStart \/ TimerScanned \/ TimerPurge
  BY <1>2, QuietStep DEF TimerStart, TimerScanned, TimerPurge, itemVars, connVars
<1>3. CASE TimerSkip
  BY <1>3, QuietStep DEF TimerSkip, ScanStep, connVars
<1>4. CASE TimerTimeout
  <2>1. PICK t \in Tokens : t = Current /\ cqi[t] \in Item /\ Queued(t)
    BY <1>1, <1>4 DEF TimerTimeout
  <2> DEFINE item == [cqi[t] EXCEPT !.errors = Increment(@, MaxErrors)]
  <2>2. item \in Item BY <2>1, ItemIncrement DEF Item
  <2>3. cqi' = [cqi EXCEPT ![t] = item] /\ UNCHANGED <<downloads, uc, mcnUser>>
    BY <1>4, <2>1 DEF TimerTimeout, ScanStep, connVars
  <2>4. /\ item.user = cqi[t].user /\ item.mcn = cqi[t].mcn
        /\ item.running = cqi[t].running /\ item.state = cqi[t].state
    BY <2>1 DEF Item
  <2> HIDE DEF item
  <2> QED BY <1>0, <2>1, <2>2, <2>3, <2>4, ItemStep
<1>5. CASE TimerSetWaiting
  <2>1. PICK t \in Tokens : t = Current /\ cqi[t] \in Item /\ Queued(t)
    BY <1>1, <1>5 DEF TimerSetWaiting
  <2> DEFINE item == [cqi[t] EXCEPT !.state = "WAITING"]
  <2>2. item \in Item BY <2>1 DEF Item
  <2>3. cqi' = [cqi EXCEPT ![t] = item] /\ UNCHANGED <<downloads, uc, mcnUser>>
    BY <1>5, <2>1 DEF TimerSetWaiting, ScanStep, connVars
  <2>4. /\ item.user = cqi[t].user /\ item.mcn = cqi[t].mcn
        /\ item.running = cqi[t].running /\ item.state = "WAITING"
    BY <2>1 DEF Item
  <2> HIDE DEF item
  <2> QED BY <1>0, <2>1, <2>2, <2>3, <2>4, ItemStep
<1>6. ASSUME NEW kind \in FileKinds \cup {"none"}, NEW slot \in BOOLEAN,
             TimerAttempt(kind, slot)
      PROVE  OrphanInvariant'
  <2>1. PICK t \in Tokens : t = Current /\ cqi[t] \in Item /\ Queued(t)
    BY <1>1, <1>6 DEF TimerAttempt
  <2>2. AttemptType(t, kind) \in Types BY <2>1 DEF AttemptType, Item, Types
  <2> DEFINE item1 == [cqi[t] EXCEPT !.downloadType = AttemptType(t, kind)]
             item2 == [item1 EXCEPT !.lastAttempt = "fresh"]
  <2>3. item1 \in Item BY <2>1, <2>2 DEF Item
  <2>4. item2 \in Item
    <3> HIDE DEF item1
    <3> QED BY <2>3 DEF Item, Ages
  <2>5. /\ \/ cqi' = [cqi EXCEPT ![t] = item1]
           \/ cqi' = [cqi EXCEPT ![t] = item2]
        /\ UNCHANGED <<downloads, uc, mcnUser>>
    BY <1>0, <1>6, <2>1 DEF TimerAttempt, ScanStep, connVars, ItemsTypeOK
  <2>6. \A item \in {item1, item2} :
          /\ item.user = cqi[t].user /\ item.mcn = cqi[t].mcn
          /\ item.running = cqi[t].running /\ item.state = cqi[t].state
    BY <2>1 DEF Item
  <2> HIDE DEF item1, item2
  <2> QED BY <1>0, <2>1, <2>3, <2>4, <2>5, <2>6, ItemStep
<1>7. ASSUME NEW result \in {"sent", "failed", "protocolError"}, TimerConnect(result)
      PROVE  OrphanInvariant'
  <2>1. PICK t \in Tokens : t = Current /\ cqi[t] \in Item /\ Queued(t)
    BY <1>1, <1>7 DEF TimerConnect
  <2> DEFINE item == AttemptedItem(cqi[t], result)
  <2>2. item \in Item BY <2>1, AttemptedItemType
  <2>3. cqi' = [cqi EXCEPT ![t] = item] /\ UNCHANGED <<downloads, uc, mcnUser>>
    BY <1>7, <2>1 DEF TimerConnect, connVars
  <2>4. /\ item.user = cqi[t].user /\ item.mcn = cqi[t].mcn
        /\ item.running = cqi[t].running /\ item.state # "ACTIVE"
    BY <2>1 DEF Item, AttemptedItem
  <2> HIDE DEF item
  <2> QED BY <1>0, <2>1, <2>2, <2>3, <2>4, ItemStep
<1>8. CASE TimerRemove
  <2>1. UNCHANGED <<uc, mcnUser>> BY <1>8 DEF TimerRemove, connVars
  <2>2. CASE UNCHANGED itemVars BY <2>1, <2>2, QuietStep DEF itemVars
  <2>3. ASSUME NEW t \in timer.removed, NEW i \in 1..Len(downloads),
               downloads[i] = t, putCQIUnsafe(t, i)
        PROVE  OrphanInvariant'
    <3>1. t \in Tokens BY <1>0 DEF TimerTypeOK
    <3>2. ItemsKept /\ UnqueuedItems' BY <1>0, <2>3, <3>1, PutItem
    <3>3. ConnsKept BY <2>1 DEF ConnsKept
    <3>4. NoOrphanItem' BY <2>1, <3>2, KeepServed DEF OrphanInvariant, Serves
    <3> QED BY <2>1, <3>2, <3>3, <3>4, KeepParts DEF OrphanInvariant
  <2> QED BY <1>8, <2>2, <2>3 DEF TimerRemove
<1> QED BY <1>2, <1>3, <1>4, <1>5, <1>6, <1>7, <1>8 DEF TimerStep

\* The steps of callers, of the environment and of createNewMCN.
LEMMA OtherOrphan ==
  ASSUME TypeOK, OrphanInvariant,
         \/ CallerStep \/ EnvironmentStep
         \/ \E thread \in Conns \cup {Hub} : createNewMCN(thread)
  PROVE  OrphanInvariant'
<1>0. ItemsTypeOK /\ TimerTypeOK /\ ConnsTypeOK /\ QueueTypeOK BY DEF TypeOK
<1>1. ASSUME NEW c \in Conns, uc' = [uc EXCEPT ![c].revive = TRUE],
             UNCHANGED <<downloads, cqi, mcnUser>>
      PROVE  OrphanInvariant'
  <2> DEFINE conn == [uc[c] EXCEPT !.revive = TRUE]
  <2>1. uc' = [uc EXCEPT ![c] = conn] BY <1>1
  <2>2. uc[c] \in Connection /\ PhaseOK(uc[c])
    BY <1>0 DEF ConnsTypeOK, OrphanInvariant, ConnectionPhases
  <2>3. PhaseOK(conn) BY <2>2 DEF PhaseOK, Connection
  <2>4. /\ conn.token = uc[c].token /\ conn.user = uc[c].user
        /\ conn.assoc = uc[c].assoc /\ conn.pc = uc[c].pc
    BY <2>2 DEF Connection
  <2> HIDE DEF conn
  <2> QED BY <1>0, <1>1, <2>1, <2>3, <2>4, ConnStep
<1>2. CASE CheckIdle
  BY <1>1, <1>2, QuietStep DEF CheckIdle, itemVars
<1>3. CASE getDownloadConnection
  <2>1. UNCHANGED <<uc, mcnUser>> BY <1>3 DEF getDownloadConnection, connVars
  <2>2. CASE UNCHANGED <<downloads, cqi>> BY <2>1, <2>2, QuietStep
  <2>3. ASSUME NEW t \in Tokens,
               getCQIUnsafe(t, [NewItem(caller.user) EXCEPT
                 !.downloadType = IF caller.small THEN "SMALL" ELSE "ANY"])
        PROVE  OrphanInvariant'
    <3> DEFINE item == [NewItem(caller.user) EXCEPT
                 !.downloadType = IF caller.small THEN "SMALL" ELSE "ANY"]
    <3>1. NewItem(caller.user) \in Item BY <1>0, NewItemType DEF QueueTypeOK, Call
    <3>2. item \in Item BY <3>1 DEF Item, Types
    <3>3. item.state = "WAITING" /\ ~item.running /\ ~item.mcn BY DEF NewItem
    <3> HIDE DEF item
    <3> QED BY <1>0, <2>1, <2>3, <3>2, <3>3, GetItem DEF item
  <2>4. ASSUME NEW i \in 1..Len(downloads), UNCHANGED downloads,
               cqi' = [cqi EXCEPT ![downloads[i]] = resetFatalError(cqi[downloads[i]])]
        PROVE  OrphanInvariant'
    <3>1. PICK t \in Tokens : t = downloads[i] BY <1>0 DEF ItemsTypeOK
    <3>2. cqi[t] \in Item /\ Queued(t) BY <1>0, <3>1 DEF ItemsTypeOK, Queued
    <3> DEFINE item == resetFatalError(cqi[t])
    <3>3. item \in Item BY <3>2 DEF resetFatalError, Item, Ages
    <3>4. /\ item.user = cqi[t].user /\ item.mcn = cqi[t].mcn
          /\ item.running = cqi[t].running /\ item.state = cqi[t].state
      BY <3>2 DEF resetFatalError, Item
    <3>5. cqi' = [cqi EXCEPT ![t] = item] BY <2>4, <3>1
    <3> HIDE DEF item
    <3> QED BY <1>0, <2>1, <2>4, <3>2, <3>3, <3>4, <3>5, ItemStep
  <2> QED BY <1>3, <2>2, <2>3, <2>4 DEF getDownloadConnection
<1>4. ASSUME NEW t \in Tokens, NEW age \in Ages, Queued(t),
             cqi' = [cqi EXCEPT ![t].lastAttempt = age],
             UNCHANGED <<downloads, uc, mcnUser>>
      PROVE  OrphanInvariant'
  <2> DEFINE item == [cqi[t] EXCEPT !.lastAttempt = age]
  <2>1. cqi[t] \in Item BY <1>0 DEF ItemsTypeOK
  <2>2. item \in Item BY <2>1 DEF Item
  <2>3. /\ item.user = cqi[t].user /\ item.mcn = cqi[t].mcn
        /\ item.running = cqi[t].running /\ item.state = cqi[t].state
    BY <2>1 DEF Item
  <2>4. cqi' = [cqi EXCEPT ![t] = item] BY <1>4
  <2> HIDE DEF item
  <2> QED BY <1>0, <1>4, <2>2, <2>3, <2>4, ItemStep
<1>5. ASSUME NEW t \in Tokens, force(t) PROVE OrphanInvariant'
  <2>1. UNCHANGED <<downloads, mcnUser>> BY <1>5 DEF force
  <2>2. CASE UNCHANGED cqi BY <1>1, <1>5, <2>1, <2>2, QuietStep DEF force
  <2>3. CASE Queued(t) /\ UNCHANGED uc /\ cqi' = [cqi EXCEPT ![t].lastAttempt = "zero"]
    BY <1>4, <2>1, <2>3 DEF Ages
  <2> QED BY <1>5, <2>2, <2>3 DEF force
<1>6. ASSUME NEW thread \in Conns \cup {Hub}, createNewMCN(thread) PROVE OrphanInvariant'
  <2>1. /\ UNCHANGED uc
        /\ \A x \in Conns \cup {Hub} : mcnUser'[x] \in {mcnUser[x], NoUser}
    BY <1>0, <1>6 DEF createNewMCN, ConnsTypeOK
  <2> DEFINE item == [NewItem(mcnUser[thread]) EXCEPT !.downloadType = "MCN_NORMAL",
                                                      !.mcn = TRUE]
  <2>2. NewItem(mcnUser[thread]) \in Item BY <1>0, NewItemType DEF ConnsTypeOK
  <2>3. item \in Item BY <2>2 DEF Item, Types
  <2>4. mcnUser[thread] \in McnUsers
    BY <1>6 DEF createNewMCN, OrphanInvariant, McnItems
  <2>5. item.state = "WAITING" /\ ~item.running /\ item.user \in McnUsers
    BY <2>4 DEF NewItem
  <2>6. \/ UNCHANGED <<downloads, cqi>>
        \/ \E t \in Tokens : getCQIUnsafe(t, item)
    BY <1>6 DEF createNewMCN
  <2> HIDE DEF item
  <2>7. CASE \E t \in Tokens : getCQIUnsafe(t, item)
    BY <1>0, <2>1, <2>3, <2>5, <2>7, GetItem
  <2>8. CASE UNCHANGED <<downloads, cqi>>
    <3>1. ItemsKept /\ ConnsKept BY <2>1, <2>8 DEF ItemsKept, ConnsKept, InUse
    <3>2. NoOrphanItem' BY <2>1, <3>1, KeepServed DEF OrphanInvariant, Serves
    <3>3. McnItems' BY <2>1, <2>8 DEF OrphanInvariant, McnItems
    <3> QED BY <2>1, <2>8, <3>1, <3>2, <3>3, KeepParts DEF OrphanInvariant
  <2> QED BY <2>6, <2>7, <2>8
<1>7. ASSUME NEW t \in Tokens, ProtocolUnsupported(t) PROVE OrphanInvariant'
  <2>1. UNCHANGED uc /\ failDownload(t, TRUE, Hub) BY <1>7 DEF ProtocolUnsupported
  <2>2. ItemsKept /\ UnqueuedItems' /\ McnItems' BY <1>0, <2>1, FailItem
  <2>3. ConnsKept BY <2>1 DEF ConnsKept
  <2>4. NoOrphanItem' BY <2>1, <2>2, KeepServed DEF OrphanInvariant, Serves
  <2> QED BY <2>1, <2>2, <2>3, <2>4, KeepParts DEF OrphanInvariant
<1>8. ASSUME NEW t \in Tokens, Elapse(t) PROVE OrphanInvariant'
  <2>1. PICK age \in Ages : cqi' = [cqi EXCEPT ![t].lastAttempt = age]
    BY <1>8 DEF Elapse, Ages
  <2> QED BY <1>4, <1>8, <2>1 DEF Elapse, connVars
<1>9. ASSUME NEW t \in Tokens, LoseRequest(t) \/ ForgetRemoved(t) PROVE OrphanInvariant'
  BY <1>9, QuietStep DEF LoseRequest, ForgetRemoved, itemVars, connVars
<1>10. ASSUME NEW u \in Users, UserDisconnected(u) \/ UserConnected(u)
       PROVE  OrphanInvariant'
  BY <1>10, QuietStep DEF UserDisconnected, UserConnected, itemVars, connVars
<1>11. ASSUME NEW u \in Users, NEW kind \in FileKinds,
              AddFile(u, kind) \/ FilesFinished(u, kind)
       PROVE  OrphanInvariant'
  BY <1>11, QuietStep DEF AddFile, FilesFinished, itemVars, connVars
<1> QED BY <1>2, <1>3, <1>5, <1>6, <1>7, <1>8, <1>9, <1>10, <1>11
        DEF CallerStep, EnvironmentStep

\* The steps of the socket threads.  Only here does it matter that a peer
\* sends its INF once: a second INF would let a connection that serves an item
\* be associated again, or forgotten without failing the item.
LEMMA SocketOrphan ==
  ASSUME ~PeerRepeatsInf, TypeOK, OrphanInvariant, NEW c \in Conns, SocketStep(c)
  PROVE  OrphanInvariant'
<1>0. /\ ItemsTypeOK /\ ConnsTypeOK /\ uc[c] \in Connection
      /\ PhaseOK(uc[c])
  BY DEF TypeOK, ConnsTypeOK, OrphanInvariant, ConnectionPhases
<1>1. ASSUME NEW conn, uc' = [uc EXCEPT ![c] = conn], PhaseOK(conn),
             conn.token = uc[c].token, conn.user = uc[c].user,
             uc[c].assoc /\ uc[c].pc # "put" => conn.assoc /\ conn.pc # "put",
             UNCHANGED <<downloads, cqi, mcnUser>>
      PROVE  OrphanInvariant'
  BY <1>0, <1>1, ConnStep
<1>2. ASSUME NEW pc, uc' = [uc EXCEPT ![c].pc = pc],
             PhaseOK([uc[c] EXCEPT !.pc = pc]),
             uc[c].assoc => pc # "put",
             UNCHANGED <<downloads, cqi, mcnUser>>
      PROVE  OrphanInvariant'
  <2> DEFINE conn == [uc[c] EXCEPT !.pc = pc]
  <2>1. /\ conn.token = uc[c].token /\ conn.user = uc[c].user
        /\ conn.assoc = uc[c].assoc /\ conn.pc = pc
    BY <1>0 DEF Connection
  <2>2. uc' = [uc EXCEPT ![c] = conn] BY <1>2
  <2>3. PhaseOK(conn) BY <1>2
  <2> HIDE DEF conn
  <2> QED BY <1>1, <1>2, <2>1, <2>2, <2>3
<1>3. ASSUME NEW state \in {"SND", "RUNNING", "IDLE"}, SetState(c, state), uc[c].assoc,
             UNCHANGED <<downloads, cqi, mcnUser>>
      PROVE  OrphanInvariant'
  <2> DEFINE events == IF uc[c].state = state THEN uc[c].events
                       ELSE Increment(uc[c].events, MaxEvents)
             conn == [uc[c] EXCEPT !.state = state, !.pc = "none",
                                   !.idler = (state = "IDLE"), !.events = events]
  <2>1. uc' = [uc EXCEPT ![c] = conn] BY <1>0, <1>3 DEF SetState, ConnsTypeOK
  <2>2. /\ conn.token = uc[c].token /\ conn.user = uc[c].user /\ conn.inf = uc[c].inf
        /\ conn.assoc = uc[c].assoc /\ conn.pc = "none" /\ conn.state = state
    <3> HIDE DEF events
    <3> QED BY <1>0 DEF Connection
  <2> HIDE DEF conn
  <2>3. PhaseOK(conn) BY <1>0, <1>3, <2>2 DEF PhaseOK
  <2> QED BY <1>1, <1>3, <2>1, <2>2, <2>3
<1>4. ASSUME NEW t \in Tokens, Handshake(c, t) PROVE OrphanInvariant'
  <2> DEFINE conn == [NoConnection EXCEPT !.user = cqi[t].user, !.token = t, !.state = "INF"]
  <2>1. \A d \in Conns : uc'[d] = IF d = c THEN conn ELSE uc[d]
    BY <1>0, <1>4 DEF Handshake, ConnsTypeOK
  <2>2. /\ conn.user = cqi[t].user /\ conn.token = t /\ conn.state = "INF"
        /\ ~conn.assoc /\ conn.pc = "none" /\ ~conn.idler
    BY DEF NoConnection
  <2>3. UNCHANGED <<downloads, cqi, mcnUser>> BY <1>4 DEF Handshake, itemVars
  <2>4. ~uc[c].assoc BY <1>0, <1>4 DEF Handshake, PhaseOK
  <2> HIDE DEF conn
  <2>5. ConnectionPhases'
    BY <2>1, <2>2 DEF OrphanInvariant, ConnectionPhases, PhaseOK
  <2>6. TokenOwners' BY <2>1, <2>2, <2>3 DEF OrphanInvariant, TokenOwners
  <2>7. ItemsKept BY <2>3 DEF ItemsKept, InUse
  <2>8. NoOrphanItem' BY <2>1, <2>4, <2>7, KeepServed DEF OrphanInvariant, Serves
  <2> QED BY <2>3, <2>5, <2>6, <2>7, <2>8, KeepParts DEF OrphanInvariant
<1>5. ASSUME NEW co \in RemoteLimits, INF(c, co) PROVE OrphanInvariant'
  <2>1. /\ uc[c].state = "INF" /\ uc[c].pc = "none" /\ ~uc[c].inf /\ ~uc[c].assoc
        /\ UNCHANGED <<downloads, mcnUser>>
    BY <1>0, <1>5 DEF INF, Ready, PhaseOK
  <2>2. CASE Queued(uc[c].token)
    <3>1. PICK t \in Tokens : t = uc[c].token BY <1>0, <2>2, QueuedToken
    <3> DEFINE limit == IF uc[c].user \in McnUsers THEN co ELSE cqi[t].maxRemoteConns
               item == [cqi[t] EXCEPT !.errors = 0, !.maxRemoteConns = limit]
               conn == [uc[c] EXCEPT !.inf = TRUE, !.pc = "add"]
    <3>2. /\ cqi' = [cqi EXCEPT ![t] = item]
          /\ uc' = [uc EXCEPT ![c] = conn]
      BY <1>0, <1>5, <2>2, <3>1 DEF INF, ItemsTypeOK, ConnsTypeOK
    <3>3. /\ item.user = cqi[t].user /\ item.mcn = cqi[t].mcn
          /\ item.running = cqi[t].running /\ item.state = cqi[t].state
      BY <1>0 DEF ItemsTypeOK, Item
    <3>4. /\ conn.user = uc[c].user /\ conn.token = uc[c].token /\ conn.state = uc[c].state
          /\ ~conn.assoc /\ conn.inf /\ conn.pc = "add" /\ conn.idler = uc[c].idler
      BY <1>0, <2>1 DEF Connection
    <3> HIDE DEF item, conn
    <3>5. \A d \in Conns : uc'[d] = IF d = c THEN conn ELSE uc[d]
      BY <1>0, <3>2 DEF ConnsTypeOK
    <3>6. \A x \in Tokens : cqi'[x] = IF x = t THEN item ELSE cqi[x]
      BY <1>0, <3>2 DEF ItemsTypeOK
    <3>7. ItemsKept BY <3>3, <3>6 DEF ItemsKept, InUse
    <3>8. ConnsKept BY <3>4, <3>5 DEF ConnsKept
    <3>9. ConnectionPhases'
      BY <1>0, <2>1, <3>4, <3>5 DEF OrphanInvariant, ConnectionPhases, PhaseOK
    <3>10. UnqueuedItems'
      BY <2>1, <3>3, <3>6 DEF OrphanInvariant, UnqueuedItems, Queued
    <3>11. NoOrphanItem'
      BY <2>1, <3>5, <3>7, KeepServed DEF OrphanInvariant, Serves
    <3> QED BY <2>1, <3>7, <3>8, <3>9, <3>10, <3>11, KeepParts DEF OrphanInvariant
  <2>3. CASE UNCHANGED cqi /\ uc' = [uc EXCEPT ![c].inf = TRUE]
    <3> DEFINE conn == [uc[c] EXCEPT !.inf = TRUE]
    <3>1. uc' = [uc EXCEPT ![c] = conn] BY <2>3
    <3>2. /\ conn.user = uc[c].user /\ conn.token = uc[c].token /\ conn.state = uc[c].state
          /\ ~conn.assoc /\ conn.pc = "none" /\ conn.idler = uc[c].idler
      BY <1>0, <2>1 DEF Connection
    <3> HIDE DEF conn
    <3>3. PhaseOK(conn) BY <1>0, <2>1, <3>2 DEF PhaseOK
    <3> QED BY <1>1, <2>1, <2>3, <3>1, <3>2, <3>3
  <2>4. CASE UNCHANGED cqi /\ Forget(c)
    BY <1>0, <2>1, <2>4, ForgetStep
  <2> QED BY <1>5, <2>2, <2>3, <2>4 DEF INF
<1>6. CASE AddDownloadCheck(c)
  <2>1. /\ uc[c].pc = "add" /\ ~uc[c].assoc
        /\ UNCHANGED <<downloads, cqi, mcnUser>>
    BY <1>0, <1>6 DEF AddDownloadCheck, PhaseOK, itemVars
  <2>2. CASE Forget(c) BY <1>0, <2>1, <2>2, ForgetStep
  <2>3. CASE uc' = [uc EXCEPT ![c].pc = "assoc"]
    <3>1. PhaseOK([uc[c] EXCEPT !.pc = "assoc"])
      BY <1>0, <2>1 DEF PhaseOK, Connection
    <3> QED BY <1>2, <2>1, <2>3, <3>1
  <2> QED BY <1>6, <2>2, <2>3 DEF AddDownloadCheck
<1>7. CASE AddDownloadConnection(c)
  <2> DEFINE isMCN == uc[c].user \in McnUsers
  <2>1. PICK t \in Tokens :
          /\ findDownload(c, t)
          /\ cqi' = [cqi EXCEPT ![t] = ActiveItem(cqi[t], isMCN)]
          /\ uc' = [uc EXCEPT ![c] = [uc[c] EXCEPT !.token = t, !.assoc = TRUE,
                      !.small = (isMCN /\ cqi[t].downloadType = "SMALL"),
                      !.dm = TRUE, !.pc = "check"]]
    BY <1>7 DEF AddDownloadConnection
  <2> DEFINE item == ActiveItem(cqi[t], isMCN)
             small == isMCN /\ cqi[t].downloadType = "SMALL"
             conn == [uc[c] EXCEPT !.token = t, !.assoc = TRUE, !.small = small,
                                   !.dm = TRUE, !.pc = "check"]
  <2>2. /\ uc[c].pc = "assoc" /\ ~uc[c].assoc /\ uc[c].inf /\ uc[c].state = "INF"
        /\ UNCHANGED <<downloads, mcnUser>>
    BY <1>0, <1>7 DEF AddDownloadConnection, PhaseOK
  <2>3. cqi[t].user = uc[c].user /\ Queued(t)
    BY <2>1 DEF findDownload, IsDownloadOf, OrphanInvariant, TokenOwners, Queued
  <2>4. item.user = cqi[t].user /\ (item.mcn => cqi[t].mcn \/ isMCN)
    BY <1>0 DEF ActiveItem, ItemsTypeOK, Item
  <2>5. /\ conn.user = uc[c].user /\ conn.token = t /\ conn.assoc /\ conn.pc = "check"
        /\ conn.state = "INF" /\ conn.inf
    <3> HIDE DEF small
    <3> QED BY <1>0, <2>2 DEF Connection
  <2>6. \A x \in Tokens : cqi'[x] = IF x = t THEN item ELSE cqi[x]
    BY <1>0, <2>1 DEF ItemsTypeOK
  <2>7. \A d \in Conns : uc'[d] = IF d = c THEN conn ELSE uc[d]
    BY <1>0, <2>1 DEF ConnsTypeOK
  <2> HIDE DEF item, conn
  <2>8. ConnectionPhases'
    BY <2>5, <2>7 DEF OrphanInvariant, ConnectionPhases, PhaseOK
  <2>9. TokenOwners'
    BY <2>3, <2>4, <2>5, <2>6, <2>7 DEF OrphanInvariant, TokenOwners
  <2>10. McnItems'
    BY <2>2, <2>3, <2>4, <2>6 DEF OrphanInvariant, McnItems
  <2>11. UnqueuedItems'
    BY <2>2, <2>3, <2>6 DEF OrphanInvariant, UnqueuedItems, Queued
  <2>12. ASSUME NEW x \in Tokens, InUse(x)' PROVE \E d \in Conns : Serves(d, x)'
    <3>1. CASE x = t
      <4>1. Serves(c, t)' BY <2>5, <2>7 DEF Serves
      <4> QED BY <3>1, <4>1
    <3>2. CASE x # t
      <4>1. InUse(x) BY <2>6, <2>12, <3>2 DEF InUse
      <4>2. PICK d \in Conns : Serves(d, x) BY <4>1 DEF OrphanInvariant, NoOrphanItem
      <4>3. d # c BY <2>2, <4>2 DEF Serves
      <4>4. Serves(d, x)' BY <2>7, <4>2, <4>3 DEF Serves
      <4> QED BY <4>4
    <3> QED BY <3>1, <3>2
  <2>13. NoOrphanItem' BY <2>12 DEF NoOrphanItem
  <2> QED BY <2>8, <2>9, <2>10, <2>11, <2>13 DEF OrphanInvariant
<1>8. ASSUME NEW started \in BOOLEAN, CheckDownloads(c, started) PROVE OrphanInvariant'
  <2>1. /\ uc[c].pc = "check" /\ uc[c].assoc
        /\ UNCHANGED <<downloads, cqi, mcnUser>>
    BY <1>0, <1>8 DEF CheckDownloads, PhaseOK, itemVars
  <2>2. CASE SetState(c, "SND") \/ SetState(c, "IDLE") BY <1>3, <2>1, <2>2
  <2>3. CASE uc' = [uc EXCEPT ![c].pc = "none"]
    <3>1. PhaseOK([uc[c] EXCEPT !.pc = "none"])
      BY <1>0, <2>1 DEF PhaseOK, Connection
    <3> QED BY <1>2, <2>1, <2>3, <3>1
  <2>4. CASE uc' = [uc EXCEPT ![c].pc = "none", ![c].dm = FALSE]
    <3> DEFINE conn == [uc[c] EXCEPT !.pc = "none", !.dm = FALSE]
    <3>1. uc' = [uc EXCEPT ![c] = conn] BY <1>0, <2>4 DEF ConnsTypeOK
    <3>2. /\ conn.user = uc[c].user /\ conn.token = uc[c].token /\ conn.state = uc[c].state
          /\ conn.assoc = uc[c].assoc /\ conn.inf = uc[c].inf /\ conn.pc = "none"
      BY <1>0 DEF Connection
    <3> HIDE DEF conn
    <3>3. PhaseOK(conn) BY <1>0, <2>1, <3>2 DEF PhaseOK
    <3> QED BY <1>1, <2>1, <3>1, <3>2, <3>3
  <2> QED BY <1>8, <2>2, <2>3, <2>4 DEF CheckDownloads
<1>9. CASE StartData(c)
  <2>1. uc[c].assoc BY <1>0, <1>9 DEF StartData, PhaseOK
  <2> QED BY <1>3, <1>9, <2>1 DEF StartData, itemVars
<1>10. CASE EndData(c)
  <2>1. uc[c].assoc BY <1>0, <1>10 DEF EndData, PhaseOK
  <2>2. PhaseOK([uc[c] EXCEPT !.pc = "check"]) BY <1>0, <2>1 DEF PhaseOK, Connection
  <2> QED BY <1>2, <1>10, <2>2 DEF EndData, itemVars
<1>11. CASE Revive(c)
  <2> DEFINE pc == IF uc[c].idler THEN "check" ELSE "none"
             conn == [uc[c] EXCEPT !.revive = FALSE, !.idler = FALSE, !.pc = pc]
  <2>1. uc' = [uc EXCEPT ![c] = conn] BY <1>0, <1>11 DEF Revive, ConnsTypeOK
  <2>2. /\ conn.user = uc[c].user /\ conn.token = uc[c].token /\ conn.state = uc[c].state
        /\ conn.assoc = uc[c].assoc /\ conn.inf = uc[c].inf /\ conn.pc = pc
        /\ ~conn.idler
    BY <1>0 DEF Connection
  <2> HIDE DEF conn
  <2>3. PhaseOK(conn) BY <1>0, <2>2 DEF PhaseOK
  <2> QED BY <1>1, <1>11, <2>1, <2>2, <2>3 DEF Revive, itemVars
<1>12. CASE StateEvent(c)
  <2> DEFINE conn == [uc[c] EXCEPT !.events = @ - 1]
  <2>1. uc' = [uc EXCEPT ![c] = conn] BY <1>12 DEF StateEvent
  <2>2. /\ conn.user = uc[c].user /\ conn.token = uc[c].token /\ conn.state = uc[c].state
        /\ conn.assoc = uc[c].assoc /\ conn.inf = uc[c].inf /\ conn.pc = uc[c].pc
        /\ conn.idler = uc[c].idler
    BY <1>0 DEF Connection
  <2> HIDE DEF conn
  <2>3. PhaseOK(conn) BY <1>0, <2>2 DEF PhaseOK
  <2>4. \A d \in Conns : uc'[d] = IF d = c THEN conn ELSE uc[d]
    BY <1>0, <2>1 DEF ConnsTypeOK
  <2>5. ConnsKept BY <2>2, <2>4 DEF ConnsKept
  <2>6. ConnectionPhases' BY <2>3, <2>4 DEF OrphanInvariant, ConnectionPhases
  <2>7. \A d \in Conns, t \in Tokens : Serves(d, t)' = Serves(d, t)
    BY <2>2, <2>4 DEF Serves
  <2>8. CASE UNCHANGED <<itemVars, mcnUser>>
    BY <1>1, <2>1, <2>2, <2>3, <2>8 DEF itemVars
  <2>9. CASE onIdle(c)
    <3>1. UNCHANGED mcnUser BY <2>9 DEF onIdle
    <3>2. CASE UNCHANGED itemVars
      BY <1>1, <2>1, <2>2, <2>3, <3>1, <3>2 DEF itemVars
    <3>3. ASSUME NEW t \in Tokens, findDownload(c, t),
                 removeExtraMCN(t, [cqi[t] EXCEPT !.running = FALSE])
          PROVE  OrphanInvariant'
      <4> DEFINE item == [cqi[t] EXCEPT !.running = FALSE]
      <4>1. /\ item \in Item /\ item.user = cqi[t].user /\ item.mcn = cqi[t].mcn
            /\ ~item.running /\ item.state = cqi[t].state
        BY <1>0 DEF ItemsTypeOK, Item
      <4>2. Queued(t) BY <3>3 DEF findDownload, Queued
      <4>3. ItemsKept /\ UnqueuedItems'
        <5> HIDE DEF item
        <5> QED BY <1>0, <3>3, <4>1, <4>2, RemoveExtra DEF item
      <4>4. NoOrphanItem' BY <2>7, <4>3, KeepServed DEF OrphanInvariant
      <4> QED BY <2>5, <2>6, <3>1, <4>3, <4>4, KeepParts DEF OrphanInvariant
    <3> QED BY <2>9, <3>2, <3>3 DEF onIdle
  <2>10. CASE uc[c].state = "RUNNING" /\ onDownloadRunning(c)
    <3>1. UNCHANGED downloads BY <2>10 DEF onDownloadRunning
    <3>2. CASE UNCHANGED <<cqi, mcnUser>>
      BY <1>1, <2>1, <2>2, <2>3, <3>1, <3>2
    <3>3. ASSUME NEW t \in Tokens, findDownload(c, t),
                 cqi' = [cqi EXCEPT ![t].running = TRUE],
                 \/ cqi'[t].mcn /\ mcnUser' = [mcnUser EXCEPT ![c] = uc[c].user]
                 \/ mcnUser' = [mcnUser EXCEPT ![c] = NoUser]
          PROVE  OrphanInvariant'
      <4> DEFINE item == [cqi[t] EXCEPT !.running = TRUE]
      <4>1. \A x \in Tokens : cqi'[x] = IF x = t THEN item ELSE cqi[x]
        BY <1>0, <3>3 DEF ItemsTypeOK
      <4>2. /\ item.user = cqi[t].user /\ item.mcn = cqi[t].mcn
            /\ item.state = cqi[t].state
        BY <1>0 DEF ItemsTypeOK, Item
      <4> HIDE DEF item
      <4>3. cqi[t].user = uc[c].user /\ Queued(t)
        BY <3>3 DEF findDownload, IsDownloadOf, OrphanInvariant, TokenOwners, Queued
      <4>4. TokenOwners'
        BY <2>5, <4>1, <4>2 DEF OrphanInvariant, TokenOwners, ConnsKept
      <4>5. McnItems'
        BY <1>0, <3>3, <4>1, <4>2, <4>3 DEF OrphanInvariant, McnItems, ConnsTypeOK
      <4>6. UnqueuedItems'
        BY <3>1, <4>1, <4>3 DEF OrphanInvariant, UnqueuedItems, Queued
      <4>7. ASSUME cqi[t].mcn PROVE Serves(c, t)
        <5>1. uc[c].assoc /\ uc[c].pc = "none"
          BY <1>0, <1>12, <2>10 DEF StateEvent, Ready, PhaseOK
        <5>2. uc[c].user \in McnUsers
          BY <4>3, <4>7 DEF OrphanInvariant, McnItems
        <5> QED BY <3>3, <5>1, <5>2 DEF findDownload, IsDownloadOf, Serves
      <4>8. ASSUME NEW x \in Tokens, InUse(x)' PROVE \E d \in Conns : Serves(d, x)
        <5>1. CASE InUse(x) BY <5>1 DEF OrphanInvariant, NoOrphanItem
        <5>2. CASE ~InUse(x)
          <6>1. x = t /\ cqi[t].mcn BY <4>1, <4>2, <4>8, <5>2 DEF InUse
          <6> QED BY <4>7, <6>1
        <5> QED BY <5>1, <5>2
      <4>9. NoOrphanItem' BY <2>7, <4>8 DEF NoOrphanItem
      <4> QED BY <2>6, <4>4, <4>5, <4>6, <4>9 DEF OrphanInvariant
    <3> QED BY <2>10, <3>2, <3>3 DEF onDownloadRunning
  <2> QED BY <1>12, <2>8, <2>9, <2>10 DEF StateEvent
<1>13. CASE TreeSaveFailed(c)
  <2> DEFINE conn == [uc[c] EXCEPT !.dm = FALSE]
  <2>1. /\ uc' = [uc EXCEPT ![c] = conn]
        /\ failDownload(uc[c].token, TRUE, c)
    BY <1>13 DEF TreeSaveFailed
  <2>2. /\ conn.user = uc[c].user /\ conn.token = uc[c].token /\ conn.state = uc[c].state
        /\ conn.assoc = uc[c].assoc /\ conn.inf = uc[c].inf /\ conn.pc = uc[c].pc
        /\ conn.idler = uc[c].idler
    BY <1>0 DEF Connection
  <2> HIDE DEF conn
  <2>3. \A d \in Conns : uc'[d] = IF d = c THEN conn ELSE uc[d]
    BY <1>0, <2>1 DEF ConnsTypeOK
  <2>4. ItemsKept /\ UnqueuedItems' /\ McnItems' BY <1>0, <2>1, FailItem
  <2>5. ConnsKept BY <2>2, <2>3 DEF ConnsKept
  <2>6. ConnectionPhases'
    BY <1>0, <2>2, <2>3 DEF OrphanInvariant, ConnectionPhases, PhaseOK
  <2>7. NoOrphanItem' BY <2>2, <2>3, <2>4, KeepServed DEF OrphanInvariant, Serves
  <2> QED BY <2>4, <2>5, <2>6, <2>7, KeepParts DEF OrphanInvariant
<1>14. ASSUME NEW protocolError \in BOOLEAN, Failed(c, protocolError)
       PROVE  OrphanInvariant'
  <2>1. UNCHANGED <<downloads, cqi, mcnUser>> BY <1>14 DEF Failed, itemVars
  <2>2. CASE ~uc[c].assoc
    <3>1. uc' = [uc EXCEPT ![c].pc = "put"] BY <1>14, <2>2 DEF Failed
    <3>2. PhaseOK([uc[c] EXCEPT !.pc = "put"])
      BY <1>0, <2>2 DEF PhaseOK, Connection
    <3> QED BY <1>2, <2>1, <2>2, <3>1, <3>2
  <2>3. CASE uc[c].assoc
    <3>1. PICK pc \in {"putCQI", "fatal", "fail"} : uc' = [uc EXCEPT ![c].pc = pc]
      BY <1>14, <2>3 DEF Failed
    <3>2. PhaseOK([uc[c] EXCEPT !.pc = pc])
      BY <1>0, <2>3 DEF PhaseOK, Connection
    <3> QED BY <1>2, <2>1, <3>1, <3>2
  <2> QED BY <2>2, <2>3
<1>15. ASSUME uc' = [uc EXCEPT ![c].pc = "put"], ItemsKept, UnqueuedItems', McnItems',
              uc[c].token \in Tokens => ~InUse(uc[c].token)',
              UNCHANGED uc[c].token
       PROVE  OrphanInvariant'
  <2> DEFINE conn == [uc[c] EXCEPT !.pc = "put"]
  <2>1. /\ conn.user = uc[c].user /\ conn.token = uc[c].token /\ conn.state = uc[c].state
        /\ conn.assoc = uc[c].assoc /\ conn.inf = uc[c].inf /\ conn.pc = "put"
        /\ conn.idler = uc[c].idler
    BY <1>0 DEF Connection
  <2>2. \A d \in Conns : uc'[d] = IF d = c THEN conn ELSE uc[d]
    BY <1>0, <1>15 DEF ConnsTypeOK
  <2> HIDE DEF conn
  <2>3. ConnsKept BY <2>1, <2>2 DEF ConnsKept
  <2>4. ConnectionPhases'
    BY <1>0, <2>1, <2>2 DEF OrphanInvariant, ConnectionPhases, PhaseOK
  <2>5. ASSUME NEW d \in Conns, NEW t \in Tokens, Serves(d, t), InUse(t)'
        PROVE  Serves(d, t)'
    <3>1. CASE d = c BY <1>15, <2>5, <3>1 DEF Serves, InUse
    <3>2. CASE d # c BY <2>2, <2>5, <3>2 DEF Serves
    <3> QED BY <3>1, <3>2
  <2>6. NoOrphanItem' BY <1>15, <2>5, KeepServed DEF OrphanInvariant
  <2> QED BY <1>15, <2>3, <2>4, <2>6, KeepParts DEF OrphanInvariant
<1>16. CASE FailedDownload(c)
  <2>1. PICK t : t = uc[c].token OBVIOUS
  <2>2. PICK f \in BOOLEAN : f = (uc[c].pc = "fatal") OBVIOUS
  <2>3. failDownload(t, f, c) /\ uc' = [uc EXCEPT ![c].pc = "put"]
    BY <1>16, <2>1, <2>2 DEF FailedDownload
  <2>4. ItemsKept /\ UnqueuedItems' /\ McnItems' /\ (t \in Tokens => ~InUse(t)')
    BY <1>0, <2>3, FailItem
  <2>5. uc'[c].token = t BY <1>0, <2>1, <2>3 DEF ConnsTypeOK, Connection
  <2> QED BY <1>15, <2>1, <2>3, <2>4, <2>5 DEF InUse
<1>17. CASE PutCQI(c)
  <2>1. PICK i \in 1..Len(downloads) :
          downloads[i] = uc[c].token /\ putCQIUnsafe(uc[c].token, i)
    BY <1>17 DEF PutCQI
  <2>2. PICK t \in Tokens : t = uc[c].token BY <1>0, <2>1 DEF ItemsTypeOK
  <2>3. ItemsKept /\ UnqueuedItems' /\ ~InUse(t)' BY <1>0, <2>1, <2>2, PutItem
  <2>4. uc' = [uc EXCEPT ![c].pc = "put"] /\ UNCHANGED mcnUser BY <1>17 DEF PutCQI
  <2>5. McnItems' BY <2>3, <2>4, KeepParts DEF OrphanInvariant
  <2>6. uc'[c].token = t BY <1>0, <2>2, <2>4 DEF ConnsTypeOK, Connection
  <2> QED BY <1>15, <2>2, <2>3, <2>4, <2>5, <2>6 DEF InUse
<1>18. CASE PutConnection(c)
  BY <1>0, <1>18, ForgetStep DEF PutConnection, itemVars
<1> QED BY <1>4, <1>5, <1>6, <1>7, <1>8, <1>9, <1>10, <1>11, <1>12, <1>13, <1>14,
           <1>16, <1>17, <1>18 DEF SocketStep

-----------------------------------------------------------------------------
\* The invariant is inductive when peers send their INF once.
LEMMA InitOrphan == Init => OrphanInvariant
<1> SUFFICES ASSUME Init PROVE OrphanInvariant
  OBVIOUS
<1>1. ConnectionPhases BY DEF Init, ConnectionPhases, PhaseOK, NoConnection
<1>2. TokenOwners
  BY ConstantsAssumption DEF ConstantsAssumption, Init, TokenOwners, NoConnection
<1>3. McnItems BY DEF Init, McnItems, NewItem
<1>4. UnqueuedItems BY DEF Init, UnqueuedItems, NewItem
<1>5. NoOrphanItem BY DEF Init, NoOrphanItem, InUse, NewItem
<1> QED BY <1>1, <1>2, <1>3, <1>4, <1>5 DEF OrphanInvariant

\* Every step, as long as no peer repeats its INF.
LEMMA NextOrphan ==
  ASSUME ~PeerRepeatsInf
  PROVE  TypeOK /\ OrphanInvariant /\ [Next]_vars => OrphanInvariant'
<1> SUFFICES ASSUME TypeOK, OrphanInvariant, [Next]_vars PROVE OrphanInvariant'
  OBVIOUS
<1>1. CASE UNCHANGED vars BY <1>1, QuietStep DEF vars, itemVars, connVars
<1>2. CASE Next BY <1>2, TimerOrphan, SocketOrphan, OtherOrphan DEF Next
<1> QED BY <1>1, <1>2

\* Each connection is in a phase its flags allow, its token names one item, the
\* items of one peer share its MCN flag, and no item is ACTIVE or counted as
\* running without a connection to release it: as long as peers send their INF
\* once, whatever the timer, the sockets and the user do.
THEOREM OrphanInvariantHolds ==
  ASSUME ~PeerRepeatsInf
  PROVE  Spec => []OrphanInvariant
<1>1. Init => TypeOK /\ OrphanInvariant BY InitType, InitOrphan
<1>2. TypeOK /\ OrphanInvariant /\ [Next]_vars => TypeOK' /\ OrphanInvariant'
  BY NextType, NextOrphan
<1> QED BY <1>1, <1>2, PTL DEF Spec

\* No connection is lost track of: as long as peers send their INF once, an
\* item that is ACTIVE or counted as running always has a live connection
\* whose failure will release it.
THEOREM NoOrphan ==
  ASSUME ~PeerRepeatsInf
  PROVE  Spec => []NoOrphanItem
<1>1. OrphanInvariant => NoOrphanItem BY DEF OrphanInvariant
<1> QED BY <1>1, OrphanInvariantHolds, PTL

=============================================================================
