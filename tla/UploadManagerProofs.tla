------------------------ MODULE UploadManagerProofs ------------------------
(***************************************************************************)
(* The two lists of uploads stay consistent with the connections, whatever *)
(* the threads, the timer and the races on the counters do; with MCN only  *)
(* the counters are exact and the slots are kept; and all variables keep   *)
(* their types.                                                            *)
(***************************************************************************)
EXTENDS UploadManager, FiniteSetTheorems, SequenceTheorems, TLAPS

\* What the argument needs of the types: the fields of a connection and the
\* elements of the lists.  The values of the counters play no part.
OwnTypes ==
    /\ conn \in [Conns -> ConnType]
    /\ DOMAIN task = Conns
    /\ \A c \in Conns : DOMAIN task[c] = {"pc", "request", "new", "reg"} /\ task[c].new \in SlotKinds
    /\ uploads \subseteq Conns \X Tokens
    /\ delayed \subseteq Conns \X Tokens
    /\ posted \subseteq Conns \X Tokens

\* The state of one connection seen through its thread, its fields and its
\* entries in the lists: UploadInvariant connection by connection.
ConnOwned(c, place, k, ups, dels, posts) ==
    /\ \A t \in Tokens : <<c, t>> \in ups \cup dels => k.upload = t
    /\ \A t \in Tokens : ~(<<c, t>> \in ups /\ <<c, t>> \in dels \cup posts)
    /\ k.upload # "none" => <<c, k.upload>> \in ups \cup dels
    /\ <<c, k.upload>> \in ups <=>
         place \in Answering \/ (place = "idle" /\ k.state \in {"SEND", "RUNNING"})
    /\ place \in Asking \cup Answering => k.state = "GET"
    /\ place \in Losing \/ k.state = "closed" => k.upload = "none"

Owned(c) == ConnOwned(c, task[c].pc, conn[c], uploads, delayed, posted)

\* UploadInvariant is the conjunction of what it says of each connection.
LEMMA PerConnection ==
    ASSUME OwnTypes
    PROVE  UploadInvariant <=> \A c \in Conns : Owned(c)
<1>1. ASSUME UploadInvariant, NEW c \in Conns PROVE Owned(c)
  BY <1>1, UploadAssumption DEF OwnTypes, UploadInvariant, UploadOwned, Owned, ConnOwned, Transferring, pc
<1>2. ASSUME \A c \in Conns : Owned(c) PROVE UploadInvariant
  <2>1. ASSUME NEW x \in uploads \cup delayed PROVE conn[x[1]].upload = x[2]
    <3>1. PICK c \in Conns, t \in Tokens : x = <<c, t>>
      BY DEF OwnTypes
    <3> QED BY <1>2, <3>1 DEF Owned, ConnOwned
  <2>2. ASSUME NEW x \in uploads, x \in delayed \cup posted PROVE FALSE
    <3>1. PICK c \in Conns, t \in Tokens : x = <<c, t>>
      BY DEF OwnTypes
    <3> QED BY <1>2, <2>2, <3>1 DEF Owned, ConnOwned
  <2>3. ASSUME NEW c \in Conns
        PROVE  /\ conn[c].upload # "none" => <<c, conn[c].upload>> \in uploads \cup delayed
               /\ <<c, conn[c].upload>> \in uploads <=> Transferring(c)
               /\ pc(c) \in Asking \cup Answering => conn[c].state = "GET"
               /\ pc(c) \in Losing \/ conn[c].state = "closed" => conn[c].upload = "none"
    BY <1>2 DEF Owned, ConnOwned, Transferring, pc
  <2> QED BY <2>1, <2>2, <2>3 DEF UploadInvariant, UploadOwned
<1> QED BY <1>1, <1>2

\* A step leaves the other connections and their uploads alone.
Others(c) ==
    \A d \in Conns \ {c} :
        /\ task'[d] = task[d] /\ conn'[d] = conn[d]
        /\ \A t \in Tokens : /\ <<d, t>> \in uploads' <=> <<d, t>> \in uploads
                             /\ <<d, t>> \in delayed' <=> <<d, t>> \in delayed
                             /\ <<d, t>> \in posted' => <<d, t>> \in posted

\* A step of one connection's thread: the others keep what they own.
LEMMA OneConnection ==
    ASSUME NEW c \in Conns, OwnTypes, OwnTypes',
           \A d \in Conns : Owned(d),
           Others(c),
           Owned(c)'
    PROVE  \A d \in Conns : Owned(d)'
<1> SUFFICES ASSUME NEW d \in Conns \ {c} PROVE Owned(d)'
  OBVIOUS
<1>1. Owned(d)
  OBVIOUS
<1>2. <<d, conn[d].upload>> \in uploads' <=> <<d, conn[d].upload>> \in uploads
  BY DEF OwnTypes, Others
<1>3. <<d, conn[d].upload>> \in delayed' <=> <<d, conn[d].upload>> \in delayed
  BY DEF OwnTypes, Others
<1> QED BY <1>1, <1>2, <1>3 DEF Owned, ConnOwned, Others

\* The lists are empty and the connections closed at the start.
LEMMA OwnInit == Init => OwnTypes /\ \A c \in Conns : Owned(c)
<1> SUFFICES ASSUME Init PROVE OwnTypes /\ \A c \in Conns : Owned(c)
  OBVIOUS
<1>1. OwnTypes
  BY DEF Init, OwnTypes, ConnType, SlotKinds, FileSlots, NewConnection, Idle
<1>2. ASSUME NEW c \in Conns PROVE Owned(c)
  BY DEF Init, Owned, ConnOwned, NewConnection, Idle, Asking, Answering, Losing
<1> QED BY <1>1, <1>2

\* The thread of a connection moves on with the lists and the connection as they
\* are: the place keeps its side of the creation of the upload.
Moved(c) ==
    /\ DOMAIN task' = Conns
    /\ DOMAIN task'[c] = {"pc", "request", "new", "reg"} /\ task'[c].new \in SlotKinds
    /\ \A d \in Conns \ {c} : task'[d] = task[d]
    /\ conn' = conn /\ uploads' = uploads /\ delayed' = delayed /\ posted' = posted
    /\ \/ task[c].pc = "idle" /\ task'[c].pc \in Asking /\ conn[c].state = "GET"
       \/ task[c].pc \in Asking /\ task'[c].pc \in Asking \cup {"idle"}
       \/ task[c].pc \in Answering /\ task'[c].pc \in Answering
       \/ task[c].pc \in Losing /\ task'[c].pc \in Losing

\* A thread that only moves on keeps what every connection owns.
LEMMA MovedOwns ==
    ASSUME NEW c \in Conns, OwnTypes, \A d \in Conns : Owned(d), Moved(c)
    PROVE  OwnTypes' /\ \A d \in Conns : Owned(d)'
<1>1. OwnTypes'
  BY DEF OwnTypes, Moved
<1>2. Owned(c)
  OBVIOUS
<1>3. Owned(c)'
  BY <1>2 DEF Owned, ConnOwned, Moved, Asking, Answering, Losing
<1>4. Others(c)
  BY DEF Moved, Others
<1> QED BY <1>1, <1>3, <1>4, OneConnection

\* The places and the kinds of slots, by enumeration.
LEMMA PlaceFacts ==
    /\ "idle" \notin Asking \cup Answering \cup Losing
    /\ Asking = {"gate", "parse", "refuse", "open"}
    /\ Answering = {"drop", "dropStore", "add", "addStore", "finish", "unqueue"}
    /\ Losing = {"lose", "loseStore"}
    /\ SlotKinds = {"small", "mini", "file", "none", "user"}
BY DEF Asking, Answering, Losing, SlotKinds, FileSlots

\* The value of a thread after it moved on.
LEMMA GoFacts ==
    ASSUME NEW c \in Conns, NEW place, NEW slot \in SlotKinds, OwnTypes,
           GoWith(c, place, slot) \/ Go(c, place)
    PROVE  /\ DOMAIN task' = Conns
           /\ DOMAIN task'[c] = {"pc", "request", "new", "reg"} /\ task'[c].new \in SlotKinds
           /\ task'[c].pc = place
           /\ \A d \in Conns \ {c} : task'[d] = task[d]
<1>1. CASE GoWith(c, place, slot)
  BY <1>1 DEF GoWith, OwnTypes, Idle
<1>2. CASE Go(c, place)
  BY <1>2, PlaceFacts DEF Go, OwnTypes, Idle
<1> QED BY <1>1, <1>2

\* The steps of prepareFile and updateSlotCounts that only move the thread.
LEMMA MovingSteps ==
    ASSUME NEW c \in Conns, OwnTypes, \A d \in Conns : Owned(d),
           \/ \E r \in Requests : Get(c, r)
           \/ Gate(c)
           \/ \E hook \in Grants[UserOf[c]] : Parse(c, hook)
           \/ Rejected(c)
           \/ Refuse(c)
           \/ Load(c)
           \/ Finish(c)
    PROVE  Moved(c)
<1>1. CASE \E r \in Requests : Get(c, r)
  BY <1>1, PlaceFacts DEF Get, Moved, OwnTypes, fileVars, pc
<1>2. CASE Gate(c)
  <2>1. CASE GoWith(c, "open", "user")
    BY <1>2, <2>1, GoFacts, PlaceFacts DEF Gate, Moved, fileVars, pc
  <2>2. CASE Go(c, "refuse")
    BY <1>2, <2>2, GoFacts, PlaceFacts DEF Gate, Moved, fileVars, pc
  <2>3. CASE task' = [task EXCEPT ![c].pc = "parse"]
    BY <1>2, <2>3, PlaceFacts DEF Gate, Moved, OwnTypes, fileVars, pc
  <2> QED BY <1>2, <2>1, <2>2, <2>3 DEF Gate
<1>3. CASE \E hook \in Grants[UserOf[c]] : Parse(c, hook)
  <2>1. PICK hook \in Grants[UserOf[c]] : Parse(c, hook)
    BY <1>3
  <2>2. hook \in Hooks
    BY UploadAssumption
  <2>3. PICK low \in lowSpeedSlotsRemaining :
          /\ hook # "reject"
          /\ IF parseSlot(c, hook, low) = "none"
             THEN Go(c, "refuse")
             ELSE GoWith(c, "open", parseSlot(c, hook, low))
    BY <2>1 DEF Parse
  <2>4. parseSlot(c, hook, low) \in SlotKinds
    BY <2>2, <2>3, PlaceFacts DEF parseSlot, Hooks
  <2>5. Go(c, "refuse") \/ GoWith(c, "open", parseSlot(c, hook, low))
    BY <2>3
  <2>6. CASE Go(c, "refuse")
    BY <2>1, <2>6, GoFacts, PlaceFacts DEF Parse, Moved, fileVars, pc
  <2>7. CASE GoWith(c, "open", parseSlot(c, hook, low))
    BY <2>1, <2>4, <2>7, GoFacts, PlaceFacts DEF Parse, Moved, fileVars, pc
  <2> QED BY <2>5, <2>6, <2>7
<1>4. CASE Rejected(c)
  BY <1>4, GoFacts, PlaceFacts DEF Rejected, Moved, fileVars, pc
<1>5. CASE Refuse(c)
  BY <1>5, GoFacts, PlaceFacts DEF Refuse, Moved, fileVars, pc
<1>6. CASE Load(c)
  BY <1>6, PlaceFacts DEF Load, Moved, OwnTypes, StoreOf, fileVars, pc
<1>7. CASE Finish(c)
  BY <1>7, GoFacts, PlaceFacts DEF Finish, Moved, fileVars, pc
<1> QED BY <1>1, <1>2, <1>3, <1>4, <1>5, <1>6, <1>7

\* A counter operation is over: the place stays on its side of the creation of
\* the upload, or the failed connection is closed.
LEMMA CountedOwns ==
    ASSUME NEW c \in Conns, OwnTypes, \A d \in Conns : Owned(d),
           pc(c) \in DOMAIN StoreOf \cup Storing,
           Counted(c, pc(c)), UNCHANGED fileVars
    PROVE  OwnTypes' /\ \A d \in Conns : Owned(d)'
<1>0. /\ uploads' = uploads /\ delayed' = delayed /\ posted' = posted
      /\ Owned(c) /\ pc(c) = task[c].pc /\ task[c].new \in SlotKinds
      /\ pc(c) \in {"drop", "dropStore", "add", "addStore", "lose", "loseStore"}
      /\ conn \in [Conns -> ConnType]
  BY DEF fileVars, StoreOf, Storing, pc, OwnTypes
<1>1. CASE pc(c) \in {"drop", "dropStore"}
  <2>1. conn' = [conn EXCEPT ![c].slot = task[c].new] /\ GoWith(c, "add", task[c].new)
    BY <1>1 DEF Counted
  <2>2. /\ DOMAIN task' = Conns
        /\ DOMAIN task'[c] = {"pc", "request", "new", "reg"} /\ task'[c].new \in SlotKinds
        /\ task'[c].pc = "add"
        /\ \A d \in Conns \ {c} : task'[d] = task[d]
    BY <1>0, <2>1, GoFacts
  <2>3. /\ conn' \in [Conns -> ConnType]
        /\ conn'[c].upload = conn[c].upload /\ conn'[c].state = conn[c].state
        /\ \A d \in Conns \ {c} : conn'[d] = conn[d]
    BY <1>0, <2>1 DEF ConnType
  <2>4. OwnTypes'
    BY <1>0, <2>2, <2>3 DEF OwnTypes
  <2>5. Owned(c)'
    BY <1>0, <1>1, <2>2, <2>3, PlaceFacts DEF Owned, ConnOwned
  <2>6. Others(c)
    BY <1>0, <2>2, <2>3 DEF Others
  <2> QED BY <2>4, <2>5, <2>6, OneConnection
<1>2. CASE pc(c) \in {"add", "addStore"}
  <2>1. /\ Go(c, IF task[c].new = "user" THEN "finish" ELSE "unqueue")
        /\ conn' = conn
    BY <1>2 DEF Counted
  <2>2. PICK place \in {"finish", "unqueue"} : Go(c, place)
    BY <2>1
  <2>3. /\ DOMAIN task' = Conns
        /\ DOMAIN task'[c] = {"pc", "request", "new", "reg"} /\ task'[c].new \in SlotKinds
        /\ task'[c].pc = place
        /\ \A d \in Conns \ {c} : task'[d] = task[d]
    BY <1>0, <2>2, GoFacts
  <2>4. Moved(c)
    BY <1>0, <1>2, <2>1, <2>3, PlaceFacts DEF Moved
  <2> QED BY <2>4, MovedOwns
<1>3. CASE pc(c) \in {"lose", "loseStore"}
  <2>1. conn' = [conn EXCEPT ![c] = NewConnection] /\ Go(c, "idle")
    BY <1>3 DEF Counted
  <2>2. /\ DOMAIN task' = Conns
        /\ DOMAIN task'[c] = {"pc", "request", "new", "reg"} /\ task'[c].new \in SlotKinds
        /\ task'[c].pc = "idle"
        /\ \A d \in Conns \ {c} : task'[d] = task[d]
    BY <1>0, <2>1, GoFacts
  <2>3. /\ conn' \in [Conns -> ConnType]
        /\ conn'[c].upload = "none" /\ conn'[c].state = "closed"
        /\ \A d \in Conns \ {c} : conn'[d] = conn[d]
    BY <1>0, <2>1, PlaceFacts DEF ConnType, NewConnection
  <2>4. OwnTypes'
    BY <1>0, <2>2, <2>3 DEF OwnTypes
  <2>5. conn[c].upload = "none"
    BY <1>0, <1>3, PlaceFacts DEF Owned, ConnOwned
  <2>6. Owned(c)'
    BY <1>0, <1>3, <2>2, <2>3, <2>5, PlaceFacts DEF Owned, ConnOwned
  <2>7. Others(c)
    BY <1>0, <2>2, <2>3 DEF Others
  <2> QED BY <2>4, <2>6, <2>7, OneConnection
<1> QED BY <1>0, <1>1, <1>2, <1>3

\* The stores of the counters, whichever values the races leave in them.
LEMMA CountingSteps ==
    ASSUME NEW c \in Conns, OwnTypes, \A d \in Conns : Owned(d),
           NotCounted(c) \/ changeMultiConnSlot(c) \/ Store(c)
    PROVE  OwnTypes' /\ \A d \in Conns : Owned(d)'
<1>1. CASE NotCounted(c)
  BY <1>1, CountedOwns DEF NotCounted
<1>2. CASE Store(c)
  BY <1>2, CountedOwns DEF Store, fileVars
<1>3. CASE changeMultiConnSlot(c)
  <2>1. CASE Counted(c, pc(c))
    BY <1>3, <2>1, CountedOwns DEF changeMultiConnSlot
  <2>2. CASE /\ task' = [task EXCEPT ![c].pc = StoreOf[@], ![c].reg = count["running"]]
             /\ UNCHANGED <<conn, closing>>
    <3>1. Moved(c)
      BY <1>3, <2>2, PlaceFacts DEF changeMultiConnSlot, Moved, OwnTypes, StoreOf, fileVars, pc
    <3> QED BY <3>1, MovedOwns
  <2> QED BY <1>3, <2>1, <2>2 DEF changeMultiConnSlot
<1> QED BY <1>1, <1>2, <1>3

\* A step of one connection that changes its record and its entries in the lists.
LEMMA ConnectionSteps ==
    ASSUME NEW c \in Conns, OwnTypes, \A d \in Conns : Owned(d),
           \/ Open(c) \/ OpenFailed(c) \/ removeQueue(c)
           \/ addConnection(c) \/ Send(c)
           \/ \E delay \in Delays : TransmitDone(c, delay)
           \/ Failed(c)
    PROVE  OwnTypes' /\ \A d \in Conns : Owned(d)'
<1>0. /\ Owned(c) /\ pc(c) = task[c].pc /\ task[c].new \in SlotKinds
      /\ conn \in [Conns -> ConnType] /\ "none" \notin Tokens
      /\ uploads \subseteq Conns \X Tokens /\ delayed \subseteq Conns \X Tokens
      /\ posted \subseteq Conns \X Tokens
      /\ DOMAIN task = Conns
      /\ DOMAIN task[c] = {"pc", "request", "new", "reg"}
  BY UploadAssumption DEF pc, OwnTypes
<1>1. CASE Open(c)
  <2>1. PICK t \in Tokens :
          /\ <<c, t>> \notin uploads \cup delayed \cup posted
          /\ uploads' = uploads \cup {<<c, t>>}
          /\ conn' = [conn EXCEPT ![c].upload = t]
    BY <1>1 DEF Open
  <2>2. delayed' = delayed \ DelayedOf(c) /\ posted' = posted /\ task[c].pc = "open"
    BY <1>0, <1>1 DEF Open
  <2>3. PICK place \in {"unqueue", "drop"} : Go(c, place) \/ GoWith(c, place, task[c].new)
    BY <1>1 DEF Open
  <2>4. /\ DOMAIN task' = Conns
        /\ DOMAIN task'[c] = {"pc", "request", "new", "reg"} /\ task'[c].new \in SlotKinds
        /\ task'[c].pc = place
        /\ \A d \in Conns \ {c} : task'[d] = task[d]
    BY <1>0, <2>3, GoFacts
  <2>5. /\ conn' \in [Conns -> ConnType]
        /\ conn'[c].upload = t /\ conn'[c].state = conn[c].state
        /\ \A d \in Conns \ {c} : conn'[d] = conn[d]
    BY <1>0, <2>1 DEF ConnType
  <2>6. OwnTypes'
    BY <1>0, <2>1, <2>2, <2>4, <2>5 DEF OwnTypes
  <2>7. \A s \in Tokens : <<c, s>> \notin delayed'
    BY <2>2 DEF DelayedOf
  <2>8. \A s \in Tokens : <<c, s>> \notin uploads
    BY <1>0, <2>2, PlaceFacts DEF Owned, ConnOwned
  <2>9. conn[c].state = "GET"
    BY <1>0, <2>2, PlaceFacts DEF Owned, ConnOwned
  <2>10. Owned(c)'
    BY <1>0, <2>1, <2>2, <2>4, <2>5, <2>7, <2>8, <2>9, PlaceFacts DEF Owned, ConnOwned
  <2>11. Others(c)
    BY <2>1, <2>2, <2>4, <2>5 DEF Others, DelayedOf
  <2> QED BY <2>6, <2>10, <2>11, OneConnection
<1>2. CASE OpenFailed(c)
  <2>1. /\ uploads' = uploads /\ delayed' = delayed \ DelayedOf(c) /\ posted' = posted
        /\ task[c].pc = "open" /\ Go(c, "idle")
        /\ conn' = [conn EXCEPT ![c].upload = IF DelayedOf(c) = {} THEN @ ELSE "none"]
    BY <1>0, <1>2 DEF OpenFailed
  <2>2. /\ DOMAIN task' = Conns
        /\ DOMAIN task'[c] = {"pc", "request", "new", "reg"} /\ task'[c].new \in SlotKinds
        /\ task'[c].pc = "idle"
        /\ \A d \in Conns \ {c} : task'[d] = task[d]
    BY <1>0, <2>1, GoFacts
  <2>3. \A s \in Tokens : <<c, s>> \notin uploads
    BY <1>0, <2>1, PlaceFacts DEF Owned, ConnOwned
  <2>4. conn[c].upload # "none" => DelayedOf(c) # {}
    BY <1>0, <2>3 DEF Owned, ConnOwned, DelayedOf, ConnType
  <2>5. /\ conn' \in [Conns -> ConnType]
        /\ conn'[c].upload = "none" /\ conn'[c].state = conn[c].state
        /\ \A d \in Conns \ {c} : conn'[d] = conn[d]
    BY <1>0, <2>1, <2>4 DEF ConnType
  <2>6. OwnTypes'
    BY <1>0, <2>1, <2>2, <2>5 DEF OwnTypes
  <2>7. Owned(c)'
    BY <1>0, <2>1, <2>2, <2>3, <2>5, PlaceFacts DEF Owned, ConnOwned, DelayedOf
  <2>8. Others(c)
    BY <2>1, <2>2, <2>5 DEF Others, DelayedOf
  <2> QED BY <2>6, <2>7, <2>8, OneConnection
<1>3. CASE removeQueue(c)
  <2>1. /\ uploads' = uploads /\ delayed' = delayed /\ posted' = posted
        /\ task[c].pc = "unqueue" /\ Go(c, "idle")
        /\ conn' = [conn EXCEPT ![c].state = IF c \in Nmdc THEN "SEND" ELSE "RUNNING"]
    BY <1>0, <1>3 DEF removeQueue, fileVars
  <2>2. /\ DOMAIN task' = Conns
        /\ DOMAIN task'[c] = {"pc", "request", "new", "reg"} /\ task'[c].new \in SlotKinds
        /\ task'[c].pc = "idle"
        /\ \A d \in Conns \ {c} : task'[d] = task[d]
    BY <1>0, <2>1, GoFacts
  <2>3. /\ conn' \in [Conns -> ConnType]
        /\ conn'[c].upload = conn[c].upload /\ conn'[c].state \in {"SEND", "RUNNING"}
        /\ \A d \in Conns \ {c} : conn'[d] = conn[d]
    BY <1>0, <2>1 DEF ConnType
  <2>4. OwnTypes'
    BY <1>0, <2>1, <2>2, <2>3 DEF OwnTypes
  <2>5. Owned(c)'
    BY <1>0, <2>1, <2>2, <2>3, PlaceFacts DEF Owned, ConnOwned
  <2>6. Others(c)
    BY <2>1, <2>2, <2>3 DEF Others
  <2> QED BY <2>4, <2>5, <2>6, OneConnection
<1>4. CASE addConnection(c)
  <2>1. /\ uploads' = uploads /\ delayed' = delayed /\ posted' = {x \in posted : x[1] # c}
        /\ task[c].pc = "idle" /\ task' = task /\ conn[c].state = "closed"
        /\ conn' = [conn EXCEPT ![c].state = "GET"]
    BY <1>0, <1>4 DEF addConnection
  <2>2. /\ conn' \in [Conns -> ConnType]
        /\ conn'[c].upload = conn[c].upload /\ conn'[c].state = "GET"
        /\ \A d \in Conns \ {c} : conn'[d] = conn[d]
    BY <1>0, <2>1 DEF ConnType
  <2>3. OwnTypes'
    BY <1>0, <2>1, <2>2 DEF OwnTypes
  <2>4. Owned(c)'
    BY <1>0, <2>1, <2>2, PlaceFacts DEF Owned, ConnOwned
  <2>5. Others(c)
    BY <2>1, <2>2 DEF Others
  <2> QED BY <2>3, <2>4, <2>5, OneConnection
<1>5. CASE Send(c)
  <2>1. /\ uploads' = uploads /\ delayed' = delayed /\ posted' = posted
        /\ task[c].pc = "idle" /\ task' = task /\ conn[c].state = "SEND"
        /\ conn' = [conn EXCEPT ![c].state = "RUNNING"]
    BY <1>0, <1>5 DEF Send, fileVars
  <2>2. /\ conn' \in [Conns -> ConnType]
        /\ conn'[c].upload = conn[c].upload /\ conn'[c].state = "RUNNING"
        /\ \A d \in Conns \ {c} : conn'[d] = conn[d]
    BY <1>0, <2>1 DEF ConnType
  <2>3. OwnTypes'
    BY <1>0, <2>1, <2>2 DEF OwnTypes
  <2>4. Owned(c)'
    BY <1>0, <2>1, <2>2, PlaceFacts DEF Owned, ConnOwned
  <2>5. Others(c)
    BY <2>1, <2>2 DEF Others
  <2> QED BY <2>3, <2>4, <2>5, OneConnection
<1>6. ASSUME NEW delay \in Delays, TransmitDone(c, delay)
      PROVE  OwnTypes' /\ \A d \in Conns : Owned(d)'
  <2> DEFINE x == <<c, conn[c].upload>>
  <2>1. /\ task[c].pc = "idle" /\ task' = task /\ conn[c].state = "RUNNING" /\ posted' = posted
        /\ uploads' = uploads \ (IF x \in delayed THEN {} ELSE {x})
        /\ delayed' = IF delay /\ x \notin delayed THEN delayed \cup {x} ELSE delayed \ {x}
        /\ conn' = [conn EXCEPT ![c].state = "GET", ![c].upload = IF delay THEN @ ELSE "none"]
    BY <1>0, <1>6 DEF TransmitDone, removeUpload
  <2>2. x \in uploads /\ conn[c].upload \in Tokens
    BY <1>0, <2>1 DEF Owned, ConnOwned
  <2>3. x \notin delayed
    BY <1>0, <2>2 DEF Owned, ConnOwned
  <2>4. /\ uploads' = uploads \ {x}
        /\ delayed' = IF delay THEN delayed \cup {x} ELSE delayed
    BY <2>1, <2>3
  <2>5. /\ conn' \in [Conns -> ConnType]
        /\ conn'[c].upload = IF delay THEN conn[c].upload ELSE "none"
        /\ conn'[c].state = "GET"
        /\ \A d \in Conns \ {c} : conn'[d] = conn[d]
    BY <1>0, <2>1 DEF ConnType
  <2>6. OwnTypes'
    BY <1>0, <2>1, <2>2, <2>4, <2>5 DEF OwnTypes
  <2>7. \A t \in Tokens : <<c, t>> \in uploads \cup delayed => <<c, t>> = x
    BY <1>0 DEF Owned, ConnOwned
  <2>8. Owned(c)'
    BY <1>0, <2>1, <2>2, <2>3, <2>4, <2>5, <2>7, PlaceFacts DEF Owned, ConnOwned
  <2>9. Others(c)
    BY <2>1, <2>4, <2>5 DEF Others
  <2> QED BY <2>6, <2>8, <2>9, OneConnection
<1>7. CASE Failed(c)
  <2> DEFINE x == <<c, conn[c].upload>>
  <2>1. /\ task[c].pc = "idle" /\ Go(c, "lose") /\ posted' = posted
        /\ conn' = [conn EXCEPT ![c].upload = "none"]
    BY <1>0, <1>7 DEF Failed, removeUpload
  <2>2. /\ uploads' = uploads \ {x}
        /\ delayed' = delayed \ {x}
    <3>1. CASE conn[c].upload = "none"
      BY <1>0, <1>7, <3>1 DEF Failed
    <3>2. CASE conn[c].upload # "none"
      <4>1. /\ uploads' = uploads \ (IF x \in delayed THEN {} ELSE {x})
            /\ delayed' = delayed \ {x}
        BY <1>7, <3>2 DEF Failed, removeUpload
      <4>2. x \in delayed => x \notin uploads
        BY <1>0, <3>2 DEF Owned, ConnOwned, ConnType
      <4> QED BY <4>1, <4>2
    <3> QED BY <3>1, <3>2
  <2>3. /\ DOMAIN task' = Conns
        /\ DOMAIN task'[c] = {"pc", "request", "new", "reg"} /\ task'[c].new \in SlotKinds
        /\ task'[c].pc = "lose"
        /\ \A d \in Conns \ {c} : task'[d] = task[d]
    BY <1>0, <2>1, GoFacts
  <2>4. /\ conn' \in [Conns -> ConnType]
        /\ conn'[c].upload = "none"
        /\ \A d \in Conns \ {c} : conn'[d] = conn[d]
    BY <1>0, <2>1 DEF ConnType
  <2>5. OwnTypes'
    BY <1>0, <2>1, <2>2, <2>3, <2>4 DEF OwnTypes
  <2>6. \A t \in Tokens : <<c, t>> \in uploads \cup delayed => <<c, t>> = x
    BY <1>0 DEF Owned, ConnOwned
  <2>7. Owned(c)'
    BY <1>0, <2>1, <2>2, <2>3, <2>4, <2>6, PlaceFacts DEF Owned, ConnOwned
  <2>8. Others(c)
    BY <2>1, <2>2, <2>3, <2>4 DEF Others
  <2> QED BY <2>5, <2>7, <2>8, OneConnection
<1> QED BY <1>1, <1>2, <1>3, <1>4, <1>5, <1>6, <1>7

\* A deletion posted for a delayed upload finds it delayed or does nothing.
LEMMA ExpiredSteps ==
    ASSUME OwnTypes, \A d \in Conns : Owned(d),
           \/ \E x \in posted : deleteExpired(x)
           \/ \E x \in delayed : checkExpiredDelayUploads(x)
    PROVE  OwnTypes' /\ \A d \in Conns : Owned(d)'
<1>1. ASSUME NEW x \in posted, deleteExpired(x)
      PROVE  OwnTypes' /\ \A d \in Conns : Owned(d)'
  <2>1. PICK c \in Conns, t \in Tokens : x = <<c, t>>
    BY DEF OwnTypes
  <2>2. /\ Owned(c) /\ conn \in [Conns -> ConnType] /\ "none" \notin Tokens
        /\ x \notin uploads
    BY <2>1, UploadAssumption DEF OwnTypes, Owned, ConnOwned
  <2>3. /\ task' = task /\ uploads' = uploads /\ posted' = posted \ {x}
        /\ task[c].pc = "idle"
    BY <1>1, <2>1 DEF deleteExpired, pc
  <2>4. CASE x \in delayed
    <3>1. delayed' = delayed \ {x} /\ conn' = [conn EXCEPT ![c].upload = "none"]
      BY <1>1, <2>1, <2>4 DEF deleteExpired, Known
    <3>2. /\ conn' \in [Conns -> ConnType]
          /\ conn'[c].upload = "none" /\ conn'[c].state = conn[c].state
          /\ \A d \in Conns \ {c} : conn'[d] = conn[d]
      BY <2>2, <3>1 DEF ConnType
    <3>3. OwnTypes'
      BY <2>3, <3>1, <3>2 DEF OwnTypes
    <3>4. \A s \in Tokens : <<c, s>> \in uploads \cup delayed => s = t
      BY <2>1, <2>2, <2>4 DEF Owned, ConnOwned
    <3>5. conn[c].upload = t /\ <<c, t>> \notin uploads
      BY <2>1, <2>2, <2>4 DEF Owned, ConnOwned
    <3>6. \A s \in Tokens : <<c, s>> \notin uploads' \cup delayed'
      BY <2>1, <2>3, <3>1, <3>4, <3>5
    <3>7. <<c, "none">> \notin uploads'
      BY <2>2, <2>3 DEF OwnTypes
    <3>8. Owned(c)'
      BY <2>2, <2>3, <3>2, <3>5, <3>6, <3>7, PlaceFacts DEF Owned, ConnOwned
    <3>9. Others(c)
      BY <2>1, <2>3, <3>1, <3>2 DEF Others
    <3> QED BY <3>3, <3>8, <3>9, OneConnection
  <2>5. CASE x \notin delayed
    <3>1. delayed' = delayed /\ conn' = conn
      BY <1>1, <2>2, <2>5 DEF deleteExpired, Known
    <3>2. OwnTypes'
      BY <2>3, <3>1 DEF OwnTypes
    <3>3. Owned(c)' /\ Others(c)
      BY <2>2, <2>3, <3>1 DEF Owned, ConnOwned, Others
    <3> QED BY <3>2, <3>3, OneConnection
  <2> QED BY <2>4, <2>5
<1>2. ASSUME NEW x \in delayed, checkExpiredDelayUploads(x)
      PROVE  OwnTypes' /\ \A d \in Conns : Owned(d)'
  <2>1. /\ task' = task /\ conn' = conn /\ uploads' = uploads /\ delayed' = delayed
        /\ posted' = posted \cup {x}
    BY <1>2 DEF checkExpiredDelayUploads, connVars
  <2>2. OwnTypes'
    BY <2>1 DEF OwnTypes
  <2>3. ASSUME NEW d \in Conns PROVE Owned(d)'
    BY <2>1 DEF Owned, ConnOwned
  <2> QED BY <2>2, <2>3
<1> QED BY <1>1, <1>2

\* Every step of the specification.
LEMMA OwnNext ==
    ASSUME OwnTypes, \A d \in Conns : Owned(d), [Next]_vars
    PROVE  OwnTypes' /\ \A d \in Conns : Owned(d)'
<1>1. ASSUME UNCHANGED <<conn, task, uploads, delayed, posted>>
      PROVE  OwnTypes' /\ \A d \in Conns : Owned(d)'
  BY <1>1 DEF OwnTypes, Owned, ConnOwned
<1>2. ASSUME NEW c \in Conns, Request(c)
      PROVE  OwnTypes' /\ \A d \in Conns : Owned(d)'
  BY <1>2, MovingSteps, MovedOwns, CountingSteps, ConnectionSteps DEF Request
<1>3. ASSUME NEW c \in Conns, Event(c)
      PROVE  OwnTypes' /\ \A d \in Conns : Owned(d)'
  <2>1. CASE Disconnect(c)
    BY <1>1, <2>1 DEF Disconnect, fileVars
  <2> QED BY <1>3, <2>1, ConnectionSteps DEF Event
<1>4. CASE Timer
  <2>1. CASE Second \/ notifyQueuedUsers \/ Minute
    BY <1>1, <2>1 DEF Second, notifyQueuedUsers, Minute, connVars, fileVars
  <2> QED BY <1>4, <2>1, ExpiredSteps DEF Timer
<1>5. ASSUME NEW u \in Users, User(u)
      PROVE  OwnTypes' /\ \A d \in Conns : Owned(d)'
  BY <1>1, <1>5 DEF User, Elapse, UserDisconnected, UserConnected, connVars, fileVars
<1>6. CASE UNCHANGED vars
  BY <1>1, <1>6 DEF vars, connVars, fileVars
<1> QED BY <1>2, <1>3, <1>4, <1>5, <1>6, ExpiredSteps DEF Next

\* The uploads of the two lists are those of the connections, for any number of
\* connections, users and slots: no upload is deleted while it is being sent and
\* none is left behind by a connection that failed.
THEOREM UploadsOwned == Spec => []UploadInvariant
<1> DEFINE Inv == OwnTypes /\ \A c \in Conns : Owned(c)
<1>1. Init => Inv
  BY OwnInit
<1>2. Inv /\ [Next]_vars => Inv'
  BY OwnNext
<1>3. Inv => UploadInvariant
  BY PerConnection
<1> QED BY <1>1, <1>2, <1>3, PTL DEF Spec

-----------------------------------------------------------------------------
(* The slots, when every connection is an MCN connection *)

SlotTypes ==
    /\ conn \in [Conns -> ConnType]
    /\ task \in [Conns -> TaskType]
    /\ count \in [Counters -> 0..(Wrap - 1)]
    /\ multi \in [Users -> Nat]

\* A thread that looks for a slot, or gives the old one back for it, does not
\* have the permanent one; the slot it counts is the one it has set.
Phase(k, t) ==
    /\ t.pc \in {"parse", "drop", "dropStore"} => k.slot # "user"
    /\ t.pc = "open" /\ k.slot = "user" => t.new = "user"
    /\ t.pc \in {"add", "addStore"} => k.slot = t.new

Phases == \A c \in Conns : Phase(conn[c], task[c])

\* One thread at a time is inside slotCS, and one inside changeMultiConnSlot.
OneInside ==
    /\ \A c, d \in Conns : pc(c) \in Section /\ pc(d) \in Section => c = d
    /\ \A c, d \in Conns : HoldsCs(c) /\ HoldsCs(d) => c = d

\* What a thread in changeMultiConnSlot has loaded is still the counter.
LoadedFresh == \A c \in Conns : HoldsCs(c) => task[c].reg = count["running"]

\* The slots of the settings and those opened for a low speed.
Limit == SlotCount + (IF LowSpeed THEN MaxAutoOpened ELSE 0)

\* The thread has decided on a permanent slot that is not counted yet.
Taking == {"open", "drop", "dropStore", "add", "addStore"}
Takes(c, k, t) ==
    /\ t.pc \in Taking /\ t.new = "user"
    /\ t.pc = "open" => k.slot # "user"
    /\ "user" \notin Grants[UserOf[c]]

\* The test of standardSlotsRemaining holds until the slot is counted.
StillFree == \A c \in Conns : Takes(c, conn[c], task[c]) => count["running"] < Limit

SlotInvariant ==
    Phases /\ OneInside /\ LoadedFresh /\ StillFree /\ McnCounted

\* HasMulti and HoldsCs by the fields they depend on.
LEMMA SlotFacts ==
    ASSUME SlotTypes, Mcn = Conns, NEW c \in Conns
    PROVE  /\ HasMulti(c) <=> conn[c].slot = "user" /\ task[c].pc \notin {"add", "loseStore"}
           /\ HoldsCs(c) <=>
                \/ task[c].pc \in {"dropStore", "loseStore"} /\ conn[c].slot = "user"
                \/ task[c].pc = "addStore" /\ task[c].new = "user"
           /\ Delta(c) = IF task[c].pc \in {"add", "addStore"} THEN 1 ELSE -1
<1>1. \A slot : CounterOf(c, slot) = "multi" <=> slot = "user"
  BY DEF CounterOf
<1>2. HoldsCs(c) <=> pc(c) \in Storing /\ SlotAt(c) = "user"
  BY <1>1 DEF HoldsCs
<1> QED BY <1>2 DEF HasMulti, SlotAt, Storing, Delta, pc

\* The sets that McnCounted counts.
Multi == {c \in Conns : HasMulti(c)}
MultiOf(u) == {c \in Conns : UserOf[c] = u /\ HasMulti(c)}
Active == {u \in Users : multi[u] > 0}
Storers(d) == {c \in Conns : HoldsCs(c) /\ Delta(c) = d}

\* They are finite.
LEMMA SetsFinite ==
    /\ IsFiniteSet(Multi) /\ Cardinality(Multi) \in Nat
    /\ Cardinality(Multi) <= Cardinality(Conns) /\ Cardinality(Conns) \in Nat
    /\ \A u : IsFiniteSet(MultiOf(u)) /\ Cardinality(MultiOf(u)) \in Nat
    /\ IsFiniteSet(Active) /\ Cardinality(Active) \in Nat
    /\ \A d : IsFiniteSet(Storers(d)) /\ Cardinality(Storers(d)) \in Nat
<1>0. IsFiniteSet(Conns) /\ IsFiniteSet(Users)
  BY UploadAssumption
<1>1. Multi \in SUBSET Conns /\ Active \in SUBSET Users
  BY DEF Multi, Active
<1>2. \A u : MultiOf(u) \in SUBSET Conns
  BY DEF MultiOf
<1>3. \A d : Storers(d) \in SUBSET Conns
  BY DEF Storers
<1>4. /\ IsFiniteSet(Multi) /\ Cardinality(Multi) <= Cardinality(Conns)
      /\ IsFiniteSet(Active)
      /\ \A u : IsFiniteSet(MultiOf(u))
      /\ \A d : IsFiniteSet(Storers(d))
  BY <1>0, <1>1, <1>2, <1>3, FS_Subset
<1> QED BY <1>0, <1>4, FS_CardinalityType

\* McnCounted in terms of these sets.
LEMMA CountedSets ==
    McnCounted <=>
      /\ \A u \in Users : multi[u] = Cardinality(MultiOf(u))
      /\ count["mcn"] = Cardinality(Multi)
      /\ count["running"] + Cardinality(Storers(1)) = Cardinality(Active) + Cardinality(Storers(-1))
BY DEF McnCounted, MultiOf, Multi, Storers, Active, Pending

\* The slot and the thread of the other connections.
OthersKept(c) ==
    \A d \in Conns \ {c} : conn'[d].slot = conn[d].slot /\ task'[d] = task[d]

\* A step of one thread that counts no permanent slot and stores no counter of
\* changeMultiConnSlot.
PlainStep(c) ==
    /\ OthersKept(c)
    /\ UNCHANGED multi /\ count'["mcn"] = count["mcn"] /\ count'["running"] = count["running"]
    /\ HasMulti(c)' <=> HasMulti(c)
    /\ ~HoldsCs(c) /\ ~HoldsCs(c)'
    /\ Phase(conn[c], task[c])'
    /\ pc(c)' \in Section => pc(c) \in Section \/ SlotCSFree
    /\ Takes(c, conn'[c], task'[c]) => Takes(c, conn[c], task[c]) \/ count["running"] < Limit

\* Such a step keeps the invariant.
LEMMA PlainKeeps ==
    ASSUME SlotTypes, SlotTypes', Mcn = Conns, SlotInvariant, NEW c \in Conns, PlainStep(c)
    PROVE  SlotInvariant'
<1>1. ASSUME NEW d \in Conns \ {c}
      PROVE  /\ HasMulti(d)' <=> HasMulti(d)
             /\ HoldsCs(d)' <=> HoldsCs(d)
             /\ Delta(d)' = Delta(d)
             /\ Phase(conn[d], task[d])' <=> Phase(conn[d], task[d])
             /\ Takes(d, conn'[d], task'[d]) <=> Takes(d, conn[d], task[d])
  <2>1. conn'[d].slot = conn[d].slot /\ task'[d] = task[d]
    BY DEF PlainStep, OthersKept
  <2> QED BY <2>1 DEF HasMulti, HoldsCs, Delta, Phase, Takes, SlotAt, pc
<1>2. Phases' BY <1>1 DEF PlainStep, SlotInvariant, Phases
<1>3. OneInside'
  <2>1. \A a, d \in Conns : HoldsCs(a)' /\ HoldsCs(d)' => a = d
    BY <1>1 DEF PlainStep, SlotInvariant, OneInside
  <2>2. \A d \in Conns \ {c} : pc(d)' = pc(d) BY DEF PlainStep, OthersKept, pc
  <2>3. \A a, d \in Conns : pc(a)' \in Section /\ pc(d)' \in Section => a = d
    BY <2>2 DEF PlainStep, SlotInvariant, OneInside, SlotCSFree
  <2> QED BY <2>1, <2>3 DEF OneInside
<1>4. LoadedFresh'
  BY <1>1 DEF PlainStep, SlotInvariant, LoadedFresh, OthersKept
<1>5. StillFree'
  BY <1>1 DEF PlainStep, SlotInvariant, StillFree
<1>6. McnCounted'
  <2>1. Multi' = Multi BY <1>1 DEF PlainStep, Multi
  <2>2. \A u \in Users : MultiOf(u)' = MultiOf(u) BY <1>1 DEF PlainStep, MultiOf
  <2>3. \A d : Storers(d)' = Storers(d) BY <1>1 DEF PlainStep, Storers
  <2>4. Active' = Active BY DEF PlainStep, Active
  <2>5. McnCounted BY DEF SlotInvariant
  <2> QED BY <2>1, <2>2, <2>3, <2>4, <2>5, CountedSets DEF PlainStep, McnCounted, Multi, MultiOf, Active, Storers, Pending
<1> QED BY <1>2, <1>3, <1>4, <1>5, <1>6 DEF SlotInvariant

\* A value within eight bits does not wrap around.
LEMMA WithinBits == ASSUME NEW n \in 0..(Wrap - 1) PROVE u8(n) = n
BY UploadAssumption DEF u8

\* Every value of a counter has eight bits.
LEMMA U8Type == ASSUME NEW n \in Int PROVE u8(n) \in 0..(Wrap - 1)
BY UploadAssumption DEF u8

\* A user with MCN slots has a connection of his own that holds one.
LEMMA ActiveBound ==
    ASSUME SlotTypes, McnCounted
    PROVE  Cardinality(Active) <= Cardinality(Conns)
<1> DEFINE f == [u \in Active |-> CHOOSE c \in MultiOf(u) : TRUE]
<1>1. ASSUME NEW u \in Active PROVE f[u] \in Conns /\ UserOf[f[u]] = u
  <2>1. Cardinality(MultiOf(u)) > 0 /\ u \in Users
    BY CountedSets DEF Active
  <2>2. MultiOf(u) # {} BY <2>1, SetsFinite, FS_EmptySet
  <2>3. f[u] \in MultiOf(u) BY <2>2
  <2> QED BY <2>3 DEF MultiOf
<1>2. f \in Injection(Active, Conns)
  <2>1. f \in [Active -> Conns] BY <1>1
  <2>2. \A u, v \in Active : f[u] = f[v] => u = v BY <1>1
  <2> HIDE DEF f
  <2> QED BY <2>1, <2>2 DEF Injection, IsInjective
<1> QED BY <1>2, FS_Injection, UploadAssumption

\* The first half of changeMultiConnSlot when a slot is taken.
TakeStep(c) ==
    LET u == UserOf[c] IN
    /\ OthersKept(c)
    /\ CsFree /\ pc(c) = "add" /\ conn[c].slot = "user" /\ conn'[c].slot = "user"
    /\ multi' = [multi EXCEPT ![u] = multi[u] + 1]
    /\ count'["mcn"] = u8(count["mcn"] + 1) /\ count'["running"] = count["running"]
    /\ \/ /\ multi[u] = 0 /\ task'[c].pc = "addStore" /\ task'[c].new = "user"
          /\ task'[c].reg = count["running"]
       \/ multi[u] # 0 /\ task'[c].pc = "finish"

\* It counts the connection and, if it is the user's first, leaves a store of
\* runningUsers pending.
LEMMA TakeKeeps ==
    ASSUME SlotTypes, SlotTypes', Mcn = Conns, Cardinality(Conns) < Wrap, SlotInvariant,
           NEW c \in Conns, TakeStep(c)
    PROVE  SlotInvariant'
<1> DEFINE u == UserOf[c]
<1>0. /\ u \in Users /\ McnCounted /\ Phase(conn[c], task[c])
      /\ Phases /\ OneInside /\ StillFree
      /\ multi \in [Users -> Nat]
      /\ count["mcn"] \in 0..(Wrap - 1) /\ count["running"] \in 0..(Wrap - 1) /\ Wrap \in Nat
  BY UploadAssumption DEF SlotInvariant, Phases, SlotTypes, Counters
<1>1. /\ OthersKept(c) /\ task[c].pc = "add" /\ pc(c) = "add"
      /\ conn[c].slot = "user" /\ conn'[c].slot = "user" /\ task[c].new = "user"
      /\ multi' = [multi EXCEPT ![u] = multi[u] + 1]
      /\ count'["mcn"] = u8(count["mcn"] + 1) /\ count'["running"] = count["running"]
      /\ \/ /\ multi[u] = 0 /\ task'[c].pc = "addStore" /\ task'[c].new = "user"
            /\ task'[c].reg = count["running"]
         \/ multi[u] # 0 /\ task'[c].pc = "finish"
      /\ \A d \in Conns : ~HoldsCs(d)
  BY <1>0 DEF TakeStep, pc, Phase, CsFree
<1>2. ASSUME NEW d \in Conns \ {c}
      PROVE  /\ HasMulti(d)' <=> HasMulti(d)
             /\ ~HoldsCs(d)'
             /\ Phase(conn'[d], task'[d]) /\ pc(d)' = pc(d)
             /\ Takes(d, conn'[d], task'[d]) <=> Takes(d, conn[d], task[d])
  <2>1. conn'[d].slot = conn[d].slot /\ task'[d] = task[d]
    BY <1>1 DEF OthersKept
  <2>2. Phase(conn[d], task[d]) /\ ~HoldsCs(d) BY <1>0, <1>1 DEF Phases
  <2> QED BY <2>1, <2>2 DEF HasMulti, HoldsCs, Phase, Takes, SlotAt, pc
<1>3. /\ ~HasMulti(c) /\ HasMulti(c)'
      /\ HoldsCs(c)' <=> multi[u] = 0
      /\ multi[u] = 0 => Delta(c)' = 1
      /\ Phase(conn'[c], task'[c])
      /\ Takes(c, conn'[c], task'[c]) => Takes(c, conn[c], task[c])
  <2>1. ~HasMulti(c) /\ HasMulti(c)' BY <1>1 DEF HasMulti, pc
  <2>2. multi[u] = 0 => HoldsCs(c)' /\ Delta(c)' = 1
    BY <1>1 DEF HoldsCs, Storing, SlotAt, CounterOf, Delta, pc
  <2>3. multi[u] # 0 => ~HoldsCs(c)'
    BY <1>1 DEF HoldsCs, Storing, pc
  <2>4. Phase(conn'[c], task'[c]) BY <1>1 DEF Phase
  <2>5. Takes(c, conn'[c], task'[c]) => Takes(c, conn[c], task[c])
    BY <1>1 DEF Takes, Taking
  <2> QED BY <2>1, <2>2, <2>3, <2>4, <2>5
<1>4. Phases' BY <1>2, <1>3 DEF Phases
<1>5. OneInside'
  <2>1. pc(c) \in Section BY <1>1 DEF Section
  <2>2. \A a, d \in Conns : pc(a)' \in Section /\ pc(d)' \in Section => a = d
    BY <1>0, <1>2, <2>1 DEF OneInside
  <2>3. \A a, d \in Conns : HoldsCs(a)' /\ HoldsCs(d)' => a = d BY <1>2
  <2> QED BY <2>2, <2>3 DEF OneInside
<1>6. LoadedFresh' BY <1>1, <1>2, <1>3 DEF LoadedFresh
<1>7. StillFree' BY <1>0, <1>1, <1>2, <1>3 DEF StillFree
<1>8. McnCounted'
  <2>1. Multi' = Multi \cup {c} /\ c \notin Multi BY <1>2, <1>3 DEF Multi
  <2>2. Cardinality(Multi') = Cardinality(Multi) + 1
    BY <2>1, SetsFinite, FS_AddElement
  <2>3. count'["mcn"] = Cardinality(Multi')
    <3>1. Multi' \in SUBSET Conns BY DEF Multi
    <3>2. Cardinality(Multi') <= Cardinality(Conns) BY <3>1, FS_Subset, UploadAssumption
    <3>3. count["mcn"] + 1 = Cardinality(Multi') BY <1>0, <2>2, CountedSets
    <3>4. count["mcn"] + 1 \in 0..(Wrap - 1) BY <1>0, <3>2, <3>3, SetsFinite
    <3> QED BY <1>1, <3>3, <3>4, WithinBits
  <2>4. ASSUME NEW v \in Users PROVE multi'[v] = Cardinality(MultiOf(v)')
    <3>1. CASE v = u
      <4>1. MultiOf(v)' = MultiOf(v) \cup {c} /\ c \notin MultiOf(v)
        BY <1>2, <1>3, <3>1 DEF MultiOf
      <4>2. Cardinality(MultiOf(v)') = Cardinality(MultiOf(v)) + 1
        BY <4>1, SetsFinite, FS_AddElement
      <4> QED BY <1>0, <1>1, <3>1, <4>2, CountedSets
    <3>2. CASE v # u
      <4>1. MultiOf(v)' = MultiOf(v) BY <1>2, <3>2 DEF MultiOf
      <4> QED BY <1>0, <1>1, <3>2, <4>1, CountedSets
    <3> QED BY <3>1, <3>2
  <2>5. Storers(1) = {} /\ Storers(-1) = {} /\ Storers(-1)' = {}
    <3>1. Storers(1) = {} /\ Storers(-1) = {} BY <1>1 DEF Storers
    <3>2. multi[u] = 0 => Delta(c)' # -1 BY <1>3
    <3> QED BY <1>2, <1>3, <3>1, <3>2 DEF Storers
  <2>6. count["running"] = Cardinality(Active)
    <3>1. count["running"] + Cardinality(Storers(1)) = Cardinality(Active) + Cardinality(Storers(-1))
      BY <1>0, CountedSets
    <3> QED BY <1>0, <2>5, <3>1, FS_EmptySet, SetsFinite
  <2>7. count'["running"] + Cardinality(Storers(1)')
          = Cardinality(Active') + Cardinality(Storers(-1)')
    <3>1. CASE multi[u] = 0
      <4>1. Storers(1)' = {c} BY <1>2, <1>3, <3>1 DEF Storers
      <4>2. Active' = Active \cup {u} /\ u \notin Active BY <1>0, <1>1, <3>1 DEF Active
      <4>3. Cardinality(Active') = Cardinality(Active) + 1
        BY <4>2, SetsFinite, FS_AddElement
      <4>4. Cardinality(Storers(1)') = 1 /\ Cardinality(Storers(-1)') = 0
        BY <2>5, <4>1, FS_Singleton, FS_EmptySet
      <4>5. Cardinality(Active) \in Nat BY SetsFinite
      <4> QED BY <1>1, <2>6, <4>3, <4>4, <4>5
    <3>2. CASE multi[u] # 0
      <4>1. Storers(1)' = {} BY <1>2, <1>3, <3>2 DEF Storers
      <4>2. Active' = Active BY <1>0, <1>1, <3>2 DEF Active
      <4> QED BY <1>0, <1>1, <2>5, <2>6, <4>1, <4>2, FS_EmptySet, SetsFinite
    <3> QED BY <3>1, <3>2
  <2> QED BY <2>3, <2>4, <2>7 DEF McnCounted, MultiOf, Multi, Storers, Active, Pending
<1> QED BY <1>4, <1>5, <1>6, <1>7, <1>8 DEF SlotInvariant

\* The first half of changeMultiConnSlot when a slot is given back.
GiveStep(c) ==
    LET u == UserOf[c] IN
    /\ OthersKept(c)
    /\ CsFree /\ pc(c) = "lose" /\ conn[c].slot = "user"
    /\ multi' = [multi EXCEPT ![u] = multi[u] - 1]
    /\ count'["mcn"] = u8(count["mcn"] - 1) /\ count'["running"] = count["running"]
    /\ \/ /\ multi[u] = 1 /\ conn'[c].slot = "user" /\ task'[c].pc = "loseStore"
          /\ task'[c].reg = count["running"]
       \/ multi[u] # 1 /\ conn'[c].slot = "none" /\ task'[c].pc = "idle"

\* It forgets the connection and, if it was the user's last, leaves a store of
\* runningUsers pending.
LEMMA GiveKeeps ==
    ASSUME SlotTypes, SlotTypes', Mcn = Conns, Cardinality(Conns) < Wrap, SlotInvariant,
           NEW c \in Conns, GiveStep(c)
    PROVE  SlotInvariant'
<1> DEFINE u == UserOf[c]
<1>0. /\ u \in Users /\ McnCounted /\ Phases /\ OneInside /\ StillFree
      /\ multi \in [Users -> Nat]
      /\ count["mcn"] \in 0..(Wrap - 1) /\ count["running"] \in 0..(Wrap - 1) /\ Wrap \in Nat
  BY UploadAssumption DEF SlotInvariant, SlotTypes, Counters
<1>1. /\ OthersKept(c) /\ task[c].pc = "lose" /\ pc(c) = "lose" /\ conn[c].slot = "user"
      /\ multi' = [multi EXCEPT ![u] = multi[u] - 1]
      /\ count'["mcn"] = u8(count["mcn"] - 1) /\ count'["running"] = count["running"]
      /\ \/ /\ multi[u] = 1 /\ conn'[c].slot = "user" /\ task'[c].pc = "loseStore"
            /\ task'[c].reg = count["running"]
         \/ multi[u] # 1 /\ conn'[c].slot = "none" /\ task'[c].pc = "idle"
      /\ \A d \in Conns : ~HoldsCs(d)
  BY DEF GiveStep, pc, CsFree
<1>2. ASSUME NEW d \in Conns \ {c}
      PROVE  /\ HasMulti(d)' <=> HasMulti(d)
             /\ ~HoldsCs(d)'
             /\ Phase(conn'[d], task'[d]) /\ pc(d)' = pc(d)
             /\ Takes(d, conn'[d], task'[d]) <=> Takes(d, conn[d], task[d])
  <2>1. conn'[d].slot = conn[d].slot /\ task'[d] = task[d]
    BY <1>1 DEF OthersKept
  <2>2. Phase(conn[d], task[d]) /\ ~HoldsCs(d) BY <1>0, <1>1 DEF Phases
  <2> QED BY <2>1, <2>2 DEF HasMulti, HoldsCs, Phase, Takes, SlotAt, pc
<1>3. /\ HasMulti(c) /\ ~HasMulti(c)'
      /\ HoldsCs(c)' <=> multi[u] = 1
      /\ Delta(c)' = -1
      /\ Phase(conn'[c], task'[c])
      /\ ~Takes(c, conn'[c], task'[c])
  <2>1. HasMulti(c) /\ ~HasMulti(c)' BY <1>1 DEF HasMulti, pc
  <2>2. multi[u] = 1 => HoldsCs(c)'
    BY <1>1 DEF HoldsCs, Storing, SlotAt, CounterOf, pc
  <2>3. multi[u] # 1 => ~HoldsCs(c)'
    BY <1>1 DEF HoldsCs, Storing, pc
  <2>4. Delta(c)' = -1 BY <1>1 DEF Delta, pc
  <2>5. Phase(conn'[c], task'[c]) /\ ~Takes(c, conn'[c], task'[c])
    BY <1>1 DEF Phase, Takes, Taking
  <2> QED BY <2>1, <2>2, <2>3, <2>4, <2>5
<1>4. Phases' BY <1>2, <1>3 DEF Phases
<1>5. OneInside'
  <2>1. pc(c)' \notin Section BY <1>1 DEF Section, pc
  <2>2. \A a, d \in Conns : pc(a)' \in Section /\ pc(d)' \in Section => a = d
    BY <1>0, <1>2, <2>1 DEF OneInside
  <2>3. \A a, d \in Conns : HoldsCs(a)' /\ HoldsCs(d)' => a = d BY <1>2
  <2> QED BY <2>2, <2>3 DEF OneInside
<1>6. LoadedFresh' BY <1>1, <1>2, <1>3 DEF LoadedFresh
<1>7. StillFree' BY <1>0, <1>1, <1>2, <1>3 DEF StillFree
<1>8. McnCounted'
  <2>1. Multi' = Multi \ {c} /\ c \in Multi BY <1>2, <1>3 DEF Multi
  <2>2. Cardinality(Multi') = Cardinality(Multi) - 1 /\ Cardinality(Multi) > 0
    <3>1. IsFiniteSet(Multi) /\ Cardinality(Multi) \in Nat BY SetsFinite
    <3>2. Cardinality(Multi') = Cardinality(Multi) - 1 BY <2>1, <3>1, FS_RemoveElement
    <3>3. Cardinality(Multi) # 0 BY <2>1, <3>1, FS_EmptySet
    <3> QED BY <3>1, <3>2, <3>3
  <2>3. count'["mcn"] = Cardinality(Multi')
    <3>1. count["mcn"] - 1 = Cardinality(Multi') BY <1>0, <2>2, CountedSets
    <3>2. count["mcn"] = Cardinality(Multi) BY <1>0, CountedSets
    <3>3. count["mcn"] - 1 \in 0..(Wrap - 1) BY <1>0, <2>2, <3>2
    <3> QED BY <1>1, <3>1, <3>3, WithinBits
  <2>4. ASSUME NEW v \in Users PROVE multi'[v] = Cardinality(MultiOf(v)')
    <3>1. CASE v = u
      <4>1. MultiOf(v)' = MultiOf(v) \ {c} /\ c \in MultiOf(v)
        BY <1>2, <1>3, <3>1 DEF MultiOf
      <4>2. Cardinality(MultiOf(v)') = Cardinality(MultiOf(v)) - 1
        BY <4>1, SetsFinite, FS_RemoveElement
      <4> QED BY <1>0, <1>1, <3>1, <4>2, CountedSets
    <3>2. CASE v # u
      <4>1. MultiOf(v)' = MultiOf(v) BY <1>2, <3>2 DEF MultiOf
      <4> QED BY <1>0, <1>1, <3>2, <4>1, CountedSets
    <3> QED BY <3>1, <3>2
  <2>5. multi[u] > 0
    <3>1. c \in MultiOf(u) BY <1>3 DEF MultiOf
    <3>2. Cardinality(MultiOf(u)) # 0 BY <3>1, SetsFinite, FS_EmptySet
    <3> QED BY <1>0, <3>2, CountedSets
  <2>6. Storers(1) = {} /\ Storers(-1) = {} /\ Storers(1)' = {}
    <3>1. Storers(1) = {} /\ Storers(-1) = {} BY <1>1 DEF Storers
    <3>2. Delta(c)' # 1 BY <1>3
    <3> QED BY <1>2, <3>1, <3>2 DEF Storers
  <2>7. count["running"] = Cardinality(Active)
    <3>1. count["running"] + Cardinality(Storers(1)) = Cardinality(Active) + Cardinality(Storers(-1))
      BY <1>0, CountedSets
    <3> QED BY <1>0, <2>6, <3>1, FS_EmptySet, SetsFinite
  <2>8. count'["running"] + Cardinality(Storers(1)')
          = Cardinality(Active') + Cardinality(Storers(-1)')
    <3>1. CASE multi[u] = 1
      <4>1. Storers(-1)' = {c} BY <1>2, <1>3, <3>1 DEF Storers
      <4>2. Active' = Active \ {u} /\ u \in Active BY <1>0, <1>1, <3>1 DEF Active
      <4>3. Cardinality(Active') = Cardinality(Active) - 1
        BY <4>2, SetsFinite, FS_RemoveElement
      <4>4. Cardinality(Storers(-1)') = 1 /\ Cardinality(Storers(1)') = 0
        BY <2>6, <4>1, FS_Singleton, FS_EmptySet
      <4>5. Cardinality(Active) \in Nat BY SetsFinite
      <4> QED BY <1>1, <2>7, <4>3, <4>4, <4>5
    <3>2. CASE multi[u] # 1
      <4>1. Storers(-1)' = {} BY <1>2, <1>3, <3>2 DEF Storers
      <4>2. Active' = Active BY <1>0, <1>1, <2>5, <3>2 DEF Active
      <4> QED BY <1>0, <1>1, <2>6, <2>7, <4>1, <4>2, FS_EmptySet, SetsFinite
    <3> QED BY <3>1, <3>2
  <2> QED BY <2>3, <2>4, <2>8 DEF McnCounted, MultiOf, Multi, Storers, Active, Pending
<1> QED BY <1>4, <1>5, <1>6, <1>7, <1>8 DEF SlotInvariant

\* The second half of changeMultiConnSlot: runningUsers is stored.
SettleStep(c) ==
    /\ OthersKept(c)
    /\ HoldsCs(c) /\ UNCHANGED multi /\ count'["mcn"] = count["mcn"]
    /\ count'["running"] = u8(task[c].reg + Delta(c))
    /\ \/ pc(c) = "addStore" /\ conn'[c].slot = conn[c].slot /\ task'[c].pc = "finish"
       \/ pc(c) = "loseStore" /\ conn'[c].slot = "none" /\ task'[c].pc = "idle"

\* The store settles the difference to the number of users with MCN slots.  A
\* slot that is given back leaves every pending decision in place, and nobody
\* else has decided on a slot while one is taken.
LEMMA SettleKeeps ==
    ASSUME SlotTypes, SlotTypes', Mcn = Conns, Cardinality(Conns) < Wrap, SlotInvariant,
           NEW c \in Conns, SettleStep(c)
    PROVE  /\ SlotInvariant'
           /\ count'["running"] = count["running"] + Delta(c)
<1>0. /\ McnCounted /\ Phases /\ OneInside /\ LoadedFresh /\ StillFree
      /\ count["running"] \in 0..(Wrap - 1) /\ Wrap \in Nat
      /\ Phase(conn[c], task[c])
  BY UploadAssumption DEF SlotInvariant, SlotTypes, Counters, Phases
<1>1. /\ OthersKept(c) /\ HoldsCs(c) /\ UNCHANGED multi /\ count'["mcn"] = count["mcn"]
      /\ pc(c) = task[c].pc
      /\ \/ /\ task[c].pc = "addStore" /\ conn[c].slot = "user" /\ Delta(c) = 1
            /\ conn'[c].slot = "user" /\ task'[c].pc = "finish"
         \/ /\ task[c].pc = "loseStore" /\ conn[c].slot = "user" /\ Delta(c) = -1
            /\ conn'[c].slot = "none" /\ task'[c].pc = "idle"
      /\ count'["running"] = u8(count["running"] + Delta(c))
  <2>1. task[c].pc = "addStore" => task[c].new = "user"
    BY SlotFacts DEF SettleStep
  <2>2. conn[c].slot = "user" BY <1>0, <2>1, SlotFacts DEF SettleStep, Phase
  <2>3. task[c].reg = count["running"] BY <1>0 DEF SettleStep, LoadedFresh
  <2> QED BY <2>2, <2>3 DEF SettleStep, Delta, pc
<1>2. ASSUME NEW d \in Conns \ {c}
      PROVE  /\ HasMulti(d)' <=> HasMulti(d)
             /\ ~HoldsCs(d) /\ ~HoldsCs(d)'
             /\ Phase(conn'[d], task'[d]) /\ pc(d)' = pc(d)
             /\ Takes(d, conn'[d], task'[d]) <=> Takes(d, conn[d], task[d])
  <2>1. conn'[d].slot = conn[d].slot /\ task'[d] = task[d]
    BY <1>1 DEF OthersKept
  <2>2. Phase(conn[d], task[d]) /\ ~HoldsCs(d) BY <1>0, <1>1 DEF Phases, OneInside
  <2> QED BY <2>1, <2>2 DEF HasMulti, HoldsCs, Phase, Takes, SlotAt, pc
<1>3. /\ HasMulti(c)' <=> HasMulti(c)
      /\ ~HoldsCs(c)' /\ Phase(conn'[c], task'[c]) /\ ~Takes(c, conn'[c], task'[c])
  <2>1. HasMulti(c)' <=> HasMulti(c) BY <1>1 DEF HasMulti, pc
  <2>2. ~HoldsCs(c)' BY <1>1 DEF HoldsCs, Storing, pc
  <2>3. Phase(conn'[c], task'[c]) /\ ~Takes(c, conn'[c], task'[c])
    BY <1>1 DEF Phase, Takes, Taking
  <2> QED BY <2>1, <2>2, <2>3
<1>4. Phases' BY <1>2, <1>3 DEF Phases
<1>5. OneInside'
  <2>1. pc(c)' \in Section => pc(c) \in Section BY <1>1 DEF Section, pc
  <2>2. \A a, d \in Conns : pc(a)' \in Section /\ pc(d)' \in Section => a = d
    BY <1>0, <1>2, <2>1 DEF OneInside
  <2>3. \A a, d \in Conns : HoldsCs(a)' /\ HoldsCs(d)' => a = d BY <1>2, <1>3
  <2> QED BY <2>2, <2>3 DEF OneInside
<1>6. LoadedFresh' BY <1>2, <1>3 DEF LoadedFresh
<1>7. Multi' = Multi /\ Active' = Active
  BY <1>1, <1>2, <1>3 DEF Multi, Active
<1>8. \A u \in Users : MultiOf(u)' = MultiOf(u) BY <1>2, <1>3 DEF MultiOf
<1>9. /\ Storers(1)' = {} /\ Storers(-1)' = {}
      /\ Delta(c) = 1 => Storers(1) = {c} /\ Storers(-1) = {}
      /\ Delta(c) = -1 => Storers(1) = {} /\ Storers(-1) = {c}
  BY <1>1, <1>2, <1>3 DEF Storers
<1>10. count["running"] + Delta(c) = Cardinality(Active)
  <2>1. count["running"] + Cardinality(Storers(1)) = Cardinality(Active) + Cardinality(Storers(-1))
    BY <1>0, CountedSets
  <2>2. Cardinality({}) = 0 /\ Cardinality({c}) = 1 BY FS_EmptySet, FS_Singleton
  <2>3. Cardinality(Active) \in Nat BY SetsFinite
  <2>4. CASE Delta(c) = 1
    <3>1. Cardinality(Storers(1)) = 1 /\ Cardinality(Storers(-1)) = 0 BY <1>9, <2>2, <2>4
    <3> QED BY <1>0, <2>1, <2>3, <2>4, <3>1
  <2>5. CASE Delta(c) = -1
    <3>1. Cardinality(Storers(1)) = 0 /\ Cardinality(Storers(-1)) = 1 BY <1>9, <2>2, <2>5
    <3> QED BY <1>0, <2>1, <2>3, <2>5, <3>1
  <2> QED BY <1>1, <2>4, <2>5
<1>11. count'["running"] = count["running"] + Delta(c)
  <2>1. Cardinality(Active) \in 0..(Wrap - 1)
    BY <1>0, ActiveBound, SetsFinite
  <2> QED BY <1>1, <1>10, <2>1, WithinBits
<1>12. McnCounted'
  <2>1. count'["running"] + Cardinality(Storers(1)')
          = Cardinality(Active') + Cardinality(Storers(-1)')
    BY <1>7, <1>9, <1>10, <1>11, FS_EmptySet, SetsFinite
  <2> QED BY <1>0, <1>1, <1>7, <1>8, <2>1, CountedSets
          DEF McnCounted, MultiOf, Multi, Storers, Active, Pending
<1>13. StillFree'
  <2>1. CASE task[c].pc = "addStore"
    <3>1. \A d \in Conns \ {c} : pc(d) \notin Section
      BY <1>0, <1>1, <2>1 DEF OneInside, Section
    <3>2. \A d \in Conns \ {c} : ~Takes(d, conn[d], task[d])
      BY <3>1 DEF Takes, Taking, Section, pc
    <3> QED BY <1>2, <1>3, <3>2 DEF StillFree
  <2>2. CASE task[c].pc = "loseStore"
    <3>1. count'["running"] < count["running"] BY <1>0, <1>1, <1>11, <2>2
    <3>2. Limit \in Nat BY UploadAssumption DEF Limit
    <3>3. ASSUME NEW d \in Conns, Takes(d, conn'[d], task'[d]) PROVE count'["running"] < Limit
      <4>1. count["running"] < Limit BY <1>0, <1>2, <1>3, <3>3 DEF StillFree
      <4> QED BY <1>0, <1>1, <1>11, <2>2, <3>1, <3>2, <4>1
    <3> QED BY <3>3 DEF StillFree
  <2> QED BY <1>1, <2>1, <2>2
<1> QED BY <1>4, <1>5, <1>6, <1>11, <1>12, <1>13 DEF SlotInvariant

\* The value of a thread after it moved on, with the types of its fields.
LEMMA GoTypes ==
    ASSUME SlotTypes, NEW c \in Conns, NEW place \in Places, NEW slot \in SlotKinds,
           GoWith(c, place, slot) \/ (Go(c, place) /\ slot = "none")
    PROVE  /\ task' \in [Conns -> TaskType]
           /\ task'[c].pc = place /\ task'[c].new = slot
           /\ \A d \in Conns \ {c} : task'[d] = task[d]
<1>1. task' = [task EXCEPT ![c] =
                 [pc |-> place, request |-> "normal", new |-> slot, reg |-> 0]]
  BY DEF GoWith, Go, Idle
<1>2. [pc |-> place, request |-> "normal", new |-> slot, reg |-> 0] \in TaskType
  BY UploadAssumption DEF TaskType
<1> QED BY <1>1, <1>2 DEF SlotTypes

\* The places, by enumeration.
LEMMA PlacesFacts ==
    /\ Places = {"gate", "parse", "refuse", "open", "drop", "dropStore", "add", "addStore",
                 "finish", "idle", "unqueue", "lose", "loseStore"}
    /\ Section = {"gate", "parse", "refuse", "open", "drop", "dropStore", "add", "addStore",
                  "finish"}
    /\ Storing = {"dropStore", "addStore", "loseStore"}
    /\ SlotKinds = {"small", "mini", "file", "none", "user"}
BY DEF Places, Section, Storing, SlotKinds, FileSlots

\* A step that moves one thread and perhaps its slot is plain if it neither
\* starts nor ends a counted slot, nor a store of changeMultiConnSlot.
LEMMA PlainFields ==
    ASSUME SlotTypes, Mcn = Conns, NEW c \in Conns, OthersKept(c),
           UNCHANGED multi, count'["mcn"] = count["mcn"], count'["running"] = count["running"],
           NEW k, NEW t, k = conn'[c], t = task'[c],
           \/ /\ k.slot = conn[c].slot
              /\ t.pc \in {"add", "loseStore"} <=> task[c].pc \in {"add", "loseStore"}
           \/ /\ k.slot # "user" \/ t.pc \in {"add", "loseStore"}
              /\ conn[c].slot # "user" \/ task[c].pc \in {"add", "loseStore"},
           ~HoldsCs(c),
           t.pc \in Storing => k.slot # "user" /\ (t.pc = "addStore" => t.new # "user"),
           Phase(k, t),
           t.pc \in Section => pc(c) \in Section \/ SlotCSFree,
           Takes(c, k, t) => Takes(c, conn[c], task[c]) \/ count["running"] < Limit
    PROVE  PlainStep(c)
<1>1. HasMulti(c)' <=> HasMulti(c) BY DEF HasMulti, pc
<1>2. ~HoldsCs(c)'
  <2>1. CASE t.pc \notin Storing BY <2>1 DEF HoldsCs, pc
  <2>2. CASE t.pc \in Storing /\ k.slot # "user" /\ (t.pc = "addStore" => t.new # "user")
    <3>1. \A slot : slot # "user" => CounterOf(c, slot) # "multi" BY DEF CounterOf
    <3>2. SlotAt(c)' # "user" BY <2>2, PlacesFacts DEF SlotAt, pc
    <3> QED BY <3>1, <3>2 DEF HoldsCs
  <2> QED BY <2>1, <2>2
<1>3. pc(c)' = t.pc BY DEF pc
<1> QED BY <1>1, <1>2, <1>3 DEF PlainStep

\* The thread is not in the middle of a store.
LEMMA NotStoring ==
    ASSUME NEW c, task[c].pc \notin Storing
    PROVE  ~HoldsCs(c)
BY DEF HoldsCs, pc

\* The steps of prepareFile up to the one that opens the file.
LEMMA AskingSlots ==
    ASSUME SlotTypes, Mcn = Conns, Phases, NEW c \in Conns,
           \/ \E r \in Requests : Get(c, r)
           \/ Gate(c)
           \/ \E hook \in Grants[UserOf[c]] : Parse(c, hook)
           \/ Rejected(c)
           \/ Refuse(c)
    PROVE  SlotTypes' /\ PlainStep(c)
<1>0. /\ conn \in [Conns -> ConnType] /\ task \in [Conns -> TaskType]
      /\ task[c] \in TaskType /\ pc(c) = task[c].pc /\ Phase(conn[c], task[c])
  BY DEF SlotTypes, Phases, pc
\* What these steps share: the slots and the counters stay as they are.
<1>1. ASSUME task' \in [Conns -> TaskType], \A d \in Conns \ {c} : task'[d] = task[d],
             UNCHANGED <<conn, slotVars>>,
             task[c].pc \in {"idle", "gate", "parse", "refuse"},
             task'[c].pc \in {"idle", "gate", "parse", "refuse", "open"},
             task'[c].pc # "idle" => task[c].pc # "idle" \/ SlotCSFree,
             task'[c].pc = "parse" => conn[c].slot # "user",
             task'[c].pc = "open" /\ task'[c].new = "user" /\ conn[c].slot # "user"
               => "user" \in Grants[UserOf[c]] \/ count["running"] < Limit,
             task'[c].pc = "open" /\ conn[c].slot = "user" => task'[c].new = "user"
      PROVE  SlotTypes' /\ PlainStep(c)
  <2>1. SlotTypes' BY <1>1 DEF SlotTypes, slotVars
  <2>2. OthersKept(c) /\ UNCHANGED multi /\ UNCHANGED count /\ conn'[c].slot = conn[c].slot
    BY <1>1 DEF OthersKept, slotVars
  <2>3. ~HoldsCs(c) BY <1>1, NotStoring, PlacesFacts
  <2>4. Phase(conn'[c], task'[c]) BY <1>1, <2>2 DEF Phase
  <2>5. Takes(c, conn'[c], task'[c]) => count["running"] < Limit
    BY <1>1, <2>2 DEF Takes, Taking
  <2>6. /\ task'[c].pc \notin {"add", "loseStore"} /\ task[c].pc \notin {"add", "loseStore"}
        /\ task'[c].pc \notin Storing
        /\ task'[c].pc \in Section => pc(c) \in Section \/ SlotCSFree
    BY <1>0, <1>1, PlacesFacts
  <2>7. PlainStep(c) BY <2>2, <2>3, <2>4, <2>5, <2>6, PlainFields
  <2> QED BY <2>1, <2>7
<1>2. ASSUME NEW r \in Requests, Get(c, r) PROVE SlotTypes' /\ PlainStep(c)
  <2>1. /\ task' = [task EXCEPT ![c] = [task[c] EXCEPT !.pc = "gate", !.request = r]]
        /\ pc(c) = "idle" /\ SlotCSFree /\ UNCHANGED <<conn, slotVars>>
    BY <1>2 DEF Get
  <2>2. r \in {"normal", "mini", "small"} BY UploadAssumption
  <2>3. [task[c] EXCEPT !.pc = "gate", !.request = r] \in TaskType
    BY <1>0, <2>2, PlacesFacts DEF TaskType
  <2>4. /\ task' \in [Conns -> TaskType] /\ task'[c].pc = "gate"
        /\ \A d \in Conns \ {c} : task'[d] = task[d]
    BY <1>0, <2>1, <2>3 DEF TaskType
  <2> QED BY <1>0, <1>1, <2>1, <2>4
<1>3. CASE Gate(c)
  <2>0. pc(c) = "gate" /\ UNCHANGED <<conn, slotVars>> BY <1>3 DEF Gate
  <2>1. CASE conn[c].slot = "user" /\ GoWith(c, "open", "user")
    <3>1. /\ task' \in [Conns -> TaskType] /\ task'[c].pc = "open" /\ task'[c].new = "user"
          /\ \A d \in Conns \ {c} : task'[d] = task[d]
      BY <2>1, GoTypes, PlacesFacts
    <3> QED BY <1>0, <1>1, <2>0, <2>1, <3>1
  <2>2. CASE Go(c, "refuse")
    <3>1. /\ task' \in [Conns -> TaskType] /\ task'[c].pc = "refuse"
          /\ \A d \in Conns \ {c} : task'[d] = task[d]
      BY <2>2, GoTypes, PlacesFacts
    <3> QED BY <1>0, <1>1, <2>0, <3>1
  <2>3. CASE conn[c].slot # "user" /\ task' = [task EXCEPT ![c].pc = "parse"]
    <3>1. [task[c] EXCEPT !.pc = "parse"] \in TaskType BY <1>0, PlacesFacts DEF TaskType
    <3>2. /\ task' \in [Conns -> TaskType] /\ task'[c].pc = "parse"
          /\ \A d \in Conns \ {c} : task'[d] = task[d]
      BY <1>0, <2>3, <3>1 DEF TaskType
    <3> QED BY <1>0, <1>1, <2>0, <2>3, <3>2
  <2> QED BY <1>3, <2>1, <2>2, <2>3 DEF Gate
<1>4. ASSUME NEW hook \in Grants[UserOf[c]], Parse(c, hook) PROVE SlotTypes' /\ PlainStep(c)
  <2>1. PICK low \in lowSpeedSlotsRemaining :
          /\ hook # "reject"
          /\ IF parseSlot(c, hook, low) = "none"
             THEN Go(c, "refuse")
             ELSE GoWith(c, "open", parseSlot(c, hook, low))
    BY <1>4 DEF Parse
  <2>2. pc(c) = "parse" /\ UNCHANGED <<conn, slotVars>> BY <1>4 DEF Parse
  <2>3. conn[c].slot # "user" BY <1>0, <2>2 DEF Phase
  <2>4. CASE Go(c, "refuse")
    <3>1. /\ task' \in [Conns -> TaskType] /\ task'[c].pc = "refuse"
          /\ \A d \in Conns \ {c} : task'[d] = task[d]
      BY <2>4, GoTypes, PlacesFacts
    <3> QED BY <1>0, <1>1, <2>2, <3>1
  <2>5. CASE GoWith(c, "open", parseSlot(c, hook, low))
    <3>1. hook \in Hooks BY UploadAssumption
    <3>2. parseSlot(c, hook, low) \in SlotKinds
      BY <2>1, <3>1, PlacesFacts DEF parseSlot, Hooks
    <3>3. /\ task' \in [Conns -> TaskType] /\ task'[c].pc = "open"
          /\ task'[c].new = parseSlot(c, hook, low)
          /\ \A d \in Conns \ {c} : task'[d] = task[d]
      BY <2>5, <3>2, GoTypes, PlacesFacts
    <3>4. parseSlot(c, hook, low) = "user" => hook = "user" \/ standardSlotsRemaining(UserOf[c], low)
      BY DEF parseSlot
    <3>5. standardSlotsRemaining(UserOf[c], low) => count["running"] < Limit
      <4>1. count["running"] \in Nat /\ SlotCount \in Nat /\ MaxAutoOpened \in Nat
            /\ LowSpeed \in BOOLEAN
        BY UploadAssumption DEF SlotTypes, Counters
      <4>2. getFreeSlots > 0 => count["running"] < SlotCount
        BY <4>1 DEF getFreeSlots, NonNegative
      <4>3. low => LowSpeed /\ SlotCount + MaxAutoOpened > count["running"]
        BY DEF lowSpeedSlotsRemaining
      <4> QED BY <4>1, <4>2, <4>3 DEF standardSlotsRemaining, Limit
    <3> QED BY <1>0, <1>1, <2>2, <2>3, <3>3, <3>4, <3>5
  <2> QED BY <2>1, <2>4, <2>5
<1>5. ASSUME Rejected(c) \/ Refuse(c) PROVE SlotTypes' /\ PlainStep(c)
  <2>1. pc(c) \in {"parse", "refuse"} /\ Go(c, "idle") /\ UNCHANGED <<conn, slotVars>>
    BY <1>5 DEF Rejected, Refuse
  <2>2. /\ task' \in [Conns -> TaskType] /\ task'[c].pc = "idle"
        /\ \A d \in Conns \ {c} : task'[d] = task[d]
    BY <2>1, GoTypes, PlacesFacts
  <2> QED BY <1>0, <1>1, <2>1, <2>2
<1> QED BY <1>2, <1>3, <1>4, <1>5

\* A step that keeps the slots and the counters, from and to a place where no
\* counter is involved.
LEMMA MoveSlots ==
    ASSUME SlotTypes, Mcn = Conns, NEW c \in Conns,
           conn' \in [Conns -> ConnType], \A d \in Conns : conn'[d].slot = conn[d].slot,
           task' \in [Conns -> TaskType], \A d \in Conns \ {c} : task'[d] = task[d],
           UNCHANGED <<count, multi>>,
           task[c].pc \notin Storing \cup {"add"}, task'[c].pc \notin Storing \cup {"add"},
           Phase(conn'[c], task'[c]),
           task'[c].pc \in Section => task[c].pc \in Section,
           Takes(c, conn'[c], task'[c]) => Takes(c, conn[c], task[c])
    PROVE  SlotTypes' /\ PlainStep(c)
<1>1. SlotTypes' BY DEF SlotTypes
<1>2. OthersKept(c) /\ conn'[c].slot = conn[c].slot BY DEF OthersKept
<1>3. ~HoldsCs(c) BY NotStoring
<1>4. /\ task'[c].pc \notin {"add", "loseStore"} /\ task[c].pc \notin {"add", "loseStore"}
      /\ task'[c].pc \notin Storing
  BY PlacesFacts
<1>5. task'[c].pc \in Section => pc(c) \in Section BY DEF pc
<1>6. PlainStep(c) BY <1>2, <1>3, <1>4, <1>5, PlainFields
<1> QED BY <1>1, <1>6

\* The type of a connection whose upload or state is replaced.
LEMMA ConnFields ==
    ASSUME SlotTypes, NEW c \in Conns, NEW k \in ConnType, k.slot = conn[c].slot,
           conn' = [conn EXCEPT ![c] = k]
    PROVE  conn' \in [Conns -> ConnType] /\ \A d \in Conns : conn'[d].slot = conn[d].slot
BY DEF SlotTypes

\* The steps that open the file and those after the slot is counted.
LEMMA OpeningSlots ==
    ASSUME SlotTypes, Mcn = Conns, Phases, NEW c \in Conns,
           Open(c) \/ OpenFailed(c) \/ Finish(c) \/ removeQueue(c)
    PROVE  SlotTypes' /\ PlainStep(c)
<1>0. /\ conn \in [Conns -> ConnType] /\ task \in [Conns -> TaskType]
      /\ conn[c] \in ConnType /\ task[c] \in TaskType
      /\ task[c].new \in SlotKinds /\ conn[c].slot \in SlotKinds
      /\ pc(c) = task[c].pc /\ Phase(conn[c], task[c])
  BY DEF SlotTypes, Phases, pc, ConnType, TaskType
\* The connections keep their slots.
<1>1. ASSUME NEW t \in Tokens \cup {"none"}, conn' = [conn EXCEPT ![c].upload = t]
      PROVE  conn' \in [Conns -> ConnType] /\ \A d \in Conns : conn'[d].slot = conn[d].slot
  <2>1. /\ [conn[c] EXCEPT !.upload = t] \in ConnType
        /\ [conn[c] EXCEPT !.upload = t].slot = conn[c].slot
    BY <1>0 DEF ConnType
  <2>2. conn' = [conn EXCEPT ![c] = [conn[c] EXCEPT !.upload = t]]
    BY <1>1
  <2> QED BY <2>1, <2>2, ConnFields
\* The thread leaves for a place where nothing is decided or counted.
<1>2. ASSUME NEW place \in {"idle", "unqueue"}, Go(c, place), UNCHANGED <<count, multi>>,
             conn' \in [Conns -> ConnType], \A d \in Conns : conn'[d].slot = conn[d].slot,
             task[c].pc \in {"open", "finish", "unqueue"}
      PROVE  SlotTypes' /\ PlainStep(c)
  <2>1. /\ task' \in [Conns -> TaskType] /\ task'[c].pc = place
        /\ \A d \in Conns \ {c} : task'[d] = task[d]
    BY <1>2, GoTypes, PlacesFacts
  <2>2. Phase(conn'[c], task'[c]) /\ ~Takes(c, conn'[c], task'[c])
    BY <2>1 DEF Phase, Takes, Taking
  <2>3. task[c].pc \notin Storing \cup {"add"} /\ task'[c].pc \notin Storing \cup {"add"}
        /\ task'[c].pc \notin Section
    BY <1>2, <2>1, PlacesFacts
  <2> QED BY <1>2, <2>1, <2>2, <2>3, MoveSlots
<1>3. CASE Open(c)
  <2>1. PICK t \in Tokens : conn' = [conn EXCEPT ![c].upload = t] BY <1>3 DEF Open
  <2>2. /\ pc(c) = "open" /\ UNCHANGED <<count, multi>>
        /\ IF Type(conn[c].slot) = Type(task[c].new)
           THEN Go(c, "unqueue") ELSE GoWith(c, "drop", task[c].new)
    BY <1>3 DEF Open, slotVars
  <2>3. conn' \in [Conns -> ConnType] /\ \A d \in Conns : conn'[d].slot = conn[d].slot
    BY <1>1, <2>1
  <2>4. CASE Go(c, "unqueue") BY <1>0, <1>2, <2>2, <2>3, <2>4
  <2>5. CASE Type(conn[c].slot) # Type(task[c].new) /\ GoWith(c, "drop", task[c].new)
    <3>1. /\ task' \in [Conns -> TaskType] /\ task'[c].pc = "drop" /\ task'[c].new = task[c].new
          /\ \A d \in Conns \ {c} : task'[d] = task[d]
      BY <1>0, <2>5, GoTypes, PlacesFacts
    <3>2. conn[c].slot # "user"
      BY <1>0, <2>2, <2>5 DEF Phase
    <3>3. Phase(conn'[c], task'[c]) BY <2>3, <3>1, <3>2 DEF Phase
    <3>4. Takes(c, conn'[c], task'[c]) => Takes(c, conn[c], task[c])
      BY <1>0, <2>2, <3>1, <3>2 DEF Takes, Taking
    <3>5. /\ task[c].pc \notin Storing \cup {"add"} /\ task'[c].pc \notin Storing \cup {"add"}
          /\ task[c].pc \in Section
      BY <1>0, <2>2, <3>1, PlacesFacts
    <3> QED BY <2>2, <2>3, <3>1, <3>3, <3>4, <3>5, MoveSlots
  <2> QED BY <2>2, <2>4, <2>5
<1>4. CASE OpenFailed(c)
  <2>1. conn[c].upload \in Tokens \cup {"none"} BY <1>0 DEF ConnType
  <2>2. /\ conn' = [conn EXCEPT ![c].upload = IF DelayedOf(c) = {} THEN conn[c].upload ELSE "none"]
        /\ pc(c) = "open" /\ UNCHANGED <<count, multi>> /\ Go(c, "idle")
    BY <1>0, <1>4 DEF OpenFailed, slotVars
  <2>3. conn' \in [Conns -> ConnType] /\ \A d \in Conns : conn'[d].slot = conn[d].slot
    BY <1>1, <2>1, <2>2
  <2> QED BY <1>0, <1>2, <2>2, <2>3
<1>5. CASE Finish(c)
  BY <1>0, <1>2, <1>5 DEF Finish, slotVars
<1>6. CASE removeQueue(c)
  <2> DEFINE s == IF c \in Nmdc THEN "SEND" ELSE "RUNNING"
  <2>1. /\ conn' = [conn EXCEPT ![c] = [conn[c] EXCEPT !.state = s]]
        /\ pc(c) = "unqueue" /\ UNCHANGED <<count, multi>> /\ Go(c, "idle")
    BY <1>6 DEF removeQueue, slotVars
  <2>2. /\ [conn[c] EXCEPT !.state = s] \in ConnType
        /\ [conn[c] EXCEPT !.state = s].slot = conn[c].slot
    BY <1>0 DEF ConnType
  <2> HIDE DEF s
  <2>3. conn' \in [Conns -> ConnType] /\ \A d \in Conns : conn'[d].slot = conn[d].slot
    BY <2>1, <2>2, ConnFields
  <2> QED BY <1>0, <1>2, <2>1, <2>3
<1> QED BY <1>3, <1>4, <1>5, <1>6

\* What Counted does, by the place of the thread.
LEMMA CountedFacts ==
    ASSUME SlotTypes, NEW c \in Conns, Counted(c, pc(c)),
           task[c].pc \in Storing \cup {"drop", "add", "lose"}
    PROVE  /\ conn' \in [Conns -> ConnType] /\ task' \in [Conns -> TaskType] /\ OthersKept(c)
           /\ task[c].pc \in {"drop", "dropStore"} =>
                conn'[c].slot = task[c].new /\ task'[c].pc = "add" /\ task'[c].new = task[c].new
           /\ task[c].pc \in {"add", "addStore"} =>
                /\ conn'[c].slot = conn[c].slot
                /\ task'[c].pc = IF task[c].new = "user" THEN "finish" ELSE "unqueue"
           /\ task[c].pc \in {"lose", "loseStore"} =>
                conn'[c].slot = "none" /\ task'[c].pc = "idle"
<1>0. /\ conn \in [Conns -> ConnType] /\ conn[c] \in ConnType /\ task[c].new \in SlotKinds
      /\ pc(c) = task[c].pc
  BY DEF SlotTypes, TaskType, pc
<1>1. CASE task[c].pc \in {"drop", "dropStore"}
  <2>1. /\ conn' = [conn EXCEPT ![c] = [conn[c] EXCEPT !.slot = task[c].new]]
        /\ GoWith(c, "add", task[c].new)
    BY <1>0, <1>1 DEF Counted
  <2>2. /\ task' \in [Conns -> TaskType] /\ task'[c].pc = "add" /\ task'[c].new = task[c].new
        /\ \A d \in Conns \ {c} : task'[d] = task[d]
    BY <1>0, <2>1, GoTypes, PlacesFacts
  <2>3. /\ [conn[c] EXCEPT !.slot = task[c].new] \in ConnType
        /\ [conn[c] EXCEPT !.slot = task[c].new].slot = task[c].new
    BY <1>0 DEF ConnType
  <2>4. /\ conn' \in [Conns -> ConnType] /\ conn'[c].slot = task[c].new
        /\ \A d \in Conns \ {c} : conn'[d] = conn[d]
    BY <1>0, <2>1, <2>3
  <2> QED BY <1>1, <2>2, <2>4 DEF OthersKept
<1>2. CASE task[c].pc \in {"add", "addStore"}
  <2> DEFINE place == IF task[c].new = "user" THEN "finish" ELSE "unqueue"
  <2>1. conn' = conn /\ Go(c, place)
    BY <1>0, <1>2 DEF Counted
  <2>2. place \in Places BY PlacesFacts
  <2> HIDE DEF place
  <2>3. /\ task' \in [Conns -> TaskType] /\ task'[c].pc = place
        /\ \A d \in Conns \ {c} : task'[d] = task[d]
    BY <2>1, <2>2, GoTypes, PlacesFacts
  <2> QED BY <1>0, <1>2, <2>1, <2>3 DEF OthersKept, place
<1>3. CASE task[c].pc \in {"lose", "loseStore"}
  <2>1. conn' = [conn EXCEPT ![c] = NewConnection] /\ Go(c, "idle")
    BY <1>0, <1>3 DEF Counted
  <2>2. /\ task' \in [Conns -> TaskType] /\ task'[c].pc = "idle"
        /\ \A d \in Conns \ {c} : task'[d] = task[d]
    BY <2>1, GoTypes, PlacesFacts
  <2>3. NewConnection \in ConnType /\ NewConnection.slot = "none"
    BY PlacesFacts DEF NewConnection, ConnType
  <2>4. /\ conn' \in [Conns -> ConnType] /\ conn'[c].slot = "none"
        /\ \A d \in Conns \ {c} : conn'[d] = conn[d]
    BY <1>0, <2>1, <2>3
  <2> QED BY <1>3, <2>2, <2>4 DEF OthersKept
<1> QED BY <1>1, <1>2, <1>3, PlacesFacts

\* The slot a thread counts is the permanent one only when it is added or lost.
LEMMA CountedSlot ==
    ASSUME SlotTypes, Mcn = Conns, NEW c \in Conns, Phase(conn[c], task[c]),
           task[c].pc \in Storing \cup {"drop", "add", "lose"}
    PROVE  /\ CounterOf(c, SlotAt(c)) = "multi" <=> SlotAt(c) = "user"
           /\ CounterOf(c, SlotAt(c)) \in {"multi", "extra", "small", "none"}
           /\ SlotAt(c) = "user" =>
                /\ task[c].pc \in {"add", "addStore", "lose", "loseStore"}
                /\ conn[c].slot = "user"
                /\ task[c].pc \in {"add", "addStore"} => task[c].new = "user"
           /\ SlotAt(c) # "user" =>
                /\ conn[c].slot # "user"
                /\ task[c].pc \in {"add", "addStore"} => task[c].new # "user"
                /\ ~HoldsCs(c)
<1>1. \A slot : /\ CounterOf(c, slot) = "multi" <=> slot = "user"
               /\ CounterOf(c, slot) \in {"multi", "extra", "small", "none"}
  BY DEF CounterOf
<1>2. SlotAt(c) = IF task[c].pc \in {"add", "addStore"} THEN task[c].new ELSE conn[c].slot
  BY DEF SlotAt, pc
<1>3. task[c].pc \in {"drop", "dropStore", "add", "addStore", "lose", "loseStore"}
  BY PlacesFacts
<1>4. SlotAt(c) = conn[c].slot BY <1>2 DEF Phase
<1>5. SlotAt(c) = "user" => task[c].pc \in {"add", "addStore", "lose", "loseStore"}
  BY <1>3, <1>4 DEF Phase
<1>6. SlotAt(c) # "user" => ~HoldsCs(c) BY <1>1 DEF HoldsCs
<1> QED BY <1>1, <1>2, <1>4, <1>5, <1>6

\* Counting a slot other than a permanent one.
LEMMA CountedPlain ==
    ASSUME SlotTypes, Mcn = Conns, NEW c \in Conns, Phase(conn[c], task[c]),
           Counted(c, pc(c)), task[c].pc \in Storing \cup {"drop", "add", "lose"},
           SlotAt(c) # "user",
           UNCHANGED multi, count'["mcn"] = count["mcn"], count'["running"] = count["running"]
    PROVE  PlainStep(c)
<1>1. /\ conn[c].slot # "user" /\ ~HoldsCs(c)
      /\ task[c].pc \in {"add", "addStore"} => task[c].new # "user"
  BY CountedSlot
<1>2. task[c].pc \in {"drop", "dropStore", "add", "addStore", "lose", "loseStore"}
  BY PlacesFacts
<1>3. OthersKept(c) BY CountedFacts
<1>4. /\ task[c].pc \in {"drop", "dropStore"} =>
            conn'[c].slot = task[c].new /\ task'[c].pc = "add" /\ task'[c].new = task[c].new
      /\ task[c].pc \in {"add", "addStore"} =>
            conn'[c].slot = conn[c].slot /\ task'[c].pc = "unqueue"
      /\ task[c].pc \in {"lose", "loseStore"} =>
            conn'[c].slot = "none" /\ task'[c].pc = "idle"
  BY <1>1, CountedFacts
<1>5. conn'[c].slot # "user" \/ task'[c].pc \in {"add", "loseStore"}
  BY <1>1, <1>2, <1>4
<1>6. Phase(conn'[c], task'[c]) BY <1>2, <1>4 DEF Phase
<1>7. Takes(c, conn'[c], task'[c]) => Takes(c, conn[c], task[c])
  BY <1>2, <1>4 DEF Takes, Taking
<1>8. /\ task'[c].pc \in Section => pc(c) \in Section
      /\ task'[c].pc \notin Storing
  BY <1>2, <1>4, PlacesFacts DEF pc
<1> QED BY <1>1, <1>3, <1>5, <1>6, <1>7, <1>8, PlainFields

\* The steps that count a slot: those of other slots are plain, and those of
\* permanent slots are the two halves of changeMultiConnSlot.
LEMMA CountingSlots ==
    ASSUME SlotTypes, Mcn = Conns, Phases, McnCounted, NEW c \in Conns,
           NotCounted(c) \/ Load(c) \/ changeMultiConnSlot(c) \/ Store(c)
    PROVE  SlotTypes' /\ (PlainStep(c) \/ TakeStep(c) \/ GiveStep(c) \/ SettleStep(c))
<1>0. /\ conn \in [Conns -> ConnType] /\ task \in [Conns -> TaskType]
      /\ count \in [Counters -> 0..(Wrap - 1)] /\ multi \in [Users -> Nat]
      /\ conn[c] \in ConnType /\ task[c] \in TaskType /\ task[c].reg \in Int
      /\ pc(c) = task[c].pc /\ Phase(conn[c], task[c])
      /\ UserOf[c] \in Users /\ Wrap \in Nat
  BY UploadAssumption DEF SlotTypes, Phases, pc, TaskType
<1>1. DOMAIN StoreOf = {"drop", "add", "lose"} /\ StoreOf["drop"] = "dropStore"
      /\ StoreOf["add"] = "addStore" /\ StoreOf["lose"] = "loseStore"
  BY DEF StoreOf
<1>2. Delta(c) = IF task[c].pc \in {"add", "addStore"} THEN 1 ELSE -1
  BY <1>0 DEF Delta
<1>3. CASE NotCounted(c)
  <2>1. /\ task[c].pc \in Storing \cup {"drop", "add", "lose"} /\ UNCHANGED <<count, multi>>
        /\ CounterOf(c, SlotAt(c)) = "none" /\ Counted(c, pc(c))
    BY <1>0, <1>1, <1>3 DEF NotCounted, slotVars
  <2>2. SlotAt(c) # "user" BY <1>0, <2>1, CountedSlot
  <2>3. conn' \in [Conns -> ConnType] /\ task' \in [Conns -> TaskType]
    BY <2>1, CountedFacts
  <2>4. PlainStep(c) BY <1>0, <2>1, <2>2, CountedPlain
  <2> QED BY <1>0, <2>1, <2>3, <2>4 DEF SlotTypes
\* The thread has loaded a counter.
<1>4. ASSUME NEW r \in 0..(Wrap - 1), task[c].pc \in {"drop", "add", "lose"},
             task' = [task EXCEPT ![c].pc = StoreOf[task[c].pc], ![c].reg = r]
      PROVE  /\ task' \in [Conns -> TaskType] /\ task'[c].pc = StoreOf[task[c].pc]
             /\ task'[c].reg = r /\ task'[c].new = task[c].new
             /\ \A d \in Conns \ {c} : task'[d] = task[d]
  <2> DEFINE t == [task[c] EXCEPT !.pc = StoreOf[task[c].pc], !.reg = r]
  <2>1. StoreOf[task[c].pc] \in Places BY <1>1, <1>4, PlacesFacts
  <2>2. t \in TaskType /\ t.pc = StoreOf[task[c].pc] /\ t.reg = r /\ t.new = task[c].new
    BY <1>0, <1>4, <2>1 DEF TaskType
  <2>3. task' = [task EXCEPT ![c] = t] BY <1>0, <1>4 DEF TaskType
  <2> HIDE DEF t
  <2> QED BY <1>0, <2>2, <2>3
<1>5. CASE Load(c)
  <2> DEFINE k == CounterOf(c, SlotAt(c))
  <2>1. /\ task[c].pc \in {"drop", "add", "lose"} /\ k \in Counters
        /\ UNCHANGED <<conn, count, multi>>
        /\ task' = [task EXCEPT ![c].pc = StoreOf[task[c].pc], ![c].reg = count[k]]
    BY <1>0, <1>1, <1>5 DEF Load, slotVars
  <2>2. k # "multi" /\ count[k] \in 0..(Wrap - 1) BY <1>0, <2>1 DEF Counters
  <2>3. SlotAt(c) # "user" BY <1>0, <2>1, <2>2, CountedSlot
  <2> HIDE DEF k
  <2>4. /\ task' \in [Conns -> TaskType] /\ task'[c].pc = StoreOf[task[c].pc]
        /\ task'[c].new = task[c].new /\ \A d \in Conns \ {c} : task'[d] = task[d]
    BY <1>4, <2>1, <2>2
  <2>5. /\ conn[c].slot # "user" /\ ~HoldsCs(c)
        /\ task[c].pc \in {"add", "addStore"} => task[c].new # "user"
    BY <1>0, <2>1, <2>3, CountedSlot
  <2>6. OthersKept(c) /\ conn'[c].slot = conn[c].slot BY <2>1, <2>4 DEF OthersKept
  <2>7. task'[c].pc = "addStore" => task'[c].new # "user" BY <1>1, <2>1, <2>4, <2>5
  <2>8. Phase(conn'[c], task'[c])
    BY <1>0, <1>1, <2>1, <2>4, <2>5, <2>6 DEF Phase
  <2>9. Takes(c, conn'[c], task'[c]) => Takes(c, conn[c], task[c])
    BY <1>1, <2>1, <2>4 DEF Takes, Taking
  <2>10. task'[c].pc \in Section => pc(c) \in Section
    BY <1>0, <1>1, <2>1, <2>4, PlacesFacts
  <2>11. PlainStep(c)
    BY <2>1, <2>5, <2>6, <2>7, <2>8, <2>9, <2>10, PlainFields
  <2> QED BY <1>0, <2>1, <2>4, <2>11 DEF SlotTypes
<1>6. CASE Store(c)
  <2> DEFINE k == CounterOf(c, SlotAt(c))
             n == IF k = "multi" THEN "running" ELSE k
             r == u8(task[c].reg + Delta(c))
  <2>1. /\ task[c].pc \in Storing \cup {"drop", "add", "lose"} /\ task[c].pc \in Storing
        /\ count' = [count EXCEPT ![n] = r] /\ UNCHANGED multi /\ Counted(c, pc(c))
    BY <1>0, <1>6 DEF Store
  <2>2. r \in 0..(Wrap - 1) BY <1>0, <1>2, U8Type
  <2>3. /\ k = "multi" <=> SlotAt(c) = "user"
        /\ k \in {"multi", "extra", "small", "none"}
    BY <1>0, <2>1, CountedSlot
  <2>4. n = "running" \/ n \in {"extra", "small", "none"} BY <2>3
  <2> HIDE DEF r
  <2>5. /\ count' \in [Counters -> 0..(Wrap - 1)] /\ count'["mcn"] = count["mcn"]
        /\ n = "running" => count'["running"] = r
        /\ n # "running" => count'["running"] = count["running"]
    <3> HIDE DEF n
    <3> QED BY <1>0, <2>1, <2>2, <2>4 DEF Counters
  <2>6. conn' \in [Conns -> ConnType] /\ task' \in [Conns -> TaskType]
    BY <2>1, CountedFacts
  <2>7. SlotTypes' BY <1>0, <2>1, <2>5, <2>6 DEF SlotTypes
  <2>8. CASE SlotAt(c) # "user"
    <3>1. n # "running" BY <2>3, <2>8
    <3>2. PlainStep(c) BY <1>0, <2>1, <2>5, <2>8, <3>1, CountedPlain
    <3> QED BY <2>7, <3>2
  <2>9. CASE SlotAt(c) = "user"
    <3>1. n = "running" /\ HoldsCs(c) BY <1>0, <2>1, <2>3, <2>9 DEF HoldsCs
    <3>2. /\ task[c].pc \in {"addStore", "loseStore"}
          /\ task[c].pc = "addStore" => task[c].new = "user"
      BY <1>0, <2>1, <2>9, CountedSlot, PlacesFacts
    <3>3. /\ OthersKept(c)
          /\ task[c].pc = "addStore" =>
               conn'[c].slot = conn[c].slot /\ task'[c].pc = "finish"
          /\ task[c].pc = "loseStore" => conn'[c].slot = "none" /\ task'[c].pc = "idle"
      BY <2>1, <3>2, CountedFacts
    <3>4. count'["running"] = u8(task[c].reg + Delta(c)) BY <2>5, <3>1 DEF r
    <3>5. SettleStep(c) BY <1>0, <2>1, <2>5, <3>1, <3>2, <3>3, <3>4 DEF SettleStep
    <3> QED BY <2>7, <3>5
  <2> QED BY <2>8, <2>9
<1>7. CASE changeMultiConnSlot(c)
  <2> DEFINE u == UserOf[c]
             n == multi[u] + Delta(c)
  <2>1. /\ task[c].pc \in {"drop", "add", "lose"}
        /\ task[c].pc \in Storing \cup {"drop", "add", "lose"}
        /\ CounterOf(c, SlotAt(c)) = "multi" /\ CsFree
    BY <1>0, <1>1, <1>7 DEF changeMultiConnSlot
  <2>2. /\ task[c].pc \in {"add", "lose"} /\ conn[c].slot = "user"
        /\ task[c].pc = "add" => task[c].new = "user"
    BY <1>0, <2>1, CountedSlot
  <2>3. task[c].pc = "lose" => multi[u] > 0
    <3>1. SUFFICES ASSUME task[c].pc = "lose" PROVE multi[u] > 0 OBVIOUS
    <3>2. c \in MultiOf(u) BY <2>2, <3>1, SlotFacts DEF MultiOf
    <3>3. multi[u] = Cardinality(MultiOf(u)) BY <1>0, CountedSets
    <3>4. Cardinality(MultiOf(u)) # 0 BY <3>2, SetsFinite, FS_EmptySet
    <3> QED BY <1>0, <3>3, <3>4
  <2>4. /\ n \in Nat /\ multi[u] \in Nat
        /\ 0 \in {n, multi[u]} <=> IF task[c].pc = "add" THEN multi[u] = 0 ELSE multi[u] = 1
    BY <1>0, <1>2, <2>2, <2>3
  <2>5. /\ multi' = [multi EXCEPT ![u] = n]
        /\ count' = [count EXCEPT !["mcn"] = u8(count["mcn"] + Delta(c))]
        /\ IF 0 \in {n, multi[u]}
           THEN /\ task' = [task EXCEPT ![c].pc = StoreOf[task[c].pc], ![c].reg = count["running"]]
                /\ UNCHANGED conn
           ELSE Counted(c, pc(c))
    BY <1>0, <1>7, <2>4 DEF changeMultiConnSlot
  <2>6. u8(count["mcn"] + Delta(c)) \in 0..(Wrap - 1) /\ count["running"] \in 0..(Wrap - 1)
    BY <1>0, <1>2, U8Type DEF Counters
  <2>7. /\ count' \in [Counters -> 0..(Wrap - 1)] /\ multi' \in [Users -> Nat]
        /\ count'["mcn"] = u8(count["mcn"] + Delta(c)) /\ count'["running"] = count["running"]
    <3> HIDE DEF n
    <3> QED BY <1>0, <2>4, <2>5, <2>6 DEF Counters
  <2>8. n = IF task[c].pc = "add" THEN multi[u] + 1 ELSE multi[u] - 1
    BY <1>2, <2>2, <2>4
  <2> HIDE DEF n
  <2>9. CASE 0 \in {n, multi[u]}
    <3>1. /\ task' \in [Conns -> TaskType] /\ task'[c].pc = StoreOf[task[c].pc]
          /\ task'[c].reg = count["running"] /\ task'[c].new = task[c].new
          /\ \A d \in Conns \ {c} : task'[d] = task[d]
      BY <1>4, <2>1, <2>5, <2>6, <2>9
    <3>2. conn' = conn BY <2>5, <2>9
    <3>3. SlotTypes' BY <1>0, <2>7, <3>1, <3>2 DEF SlotTypes
    <3>4. OthersKept(c) BY <3>1, <3>2 DEF OthersKept
    <3>5. CASE task[c].pc = "add"
      <4>1. multi[u] = 0 /\ task'[c].pc = "addStore" /\ task'[c].new = "user"
        BY <1>1, <2>2, <2>4, <2>9, <3>1, <3>5
      <4>2. count'["mcn"] = u8(count["mcn"] + 1) BY <1>2, <2>7, <3>5
      <4>3. TakeStep(c)
        BY <1>0, <2>1, <2>2, <2>5, <2>7, <2>8, <3>1, <3>2, <3>4, <3>5, <4>1, <4>2 DEF TakeStep
      <4> QED BY <3>3, <4>3
    <3>6. CASE task[c].pc = "lose"
      <4>1. multi[u] = 1 /\ task'[c].pc = "loseStore"
        BY <1>1, <2>4, <2>9, <3>1, <3>6
      <4>2. count'["mcn"] = u8(count["mcn"] - 1) BY <1>0, <1>2, <2>7, <3>6 DEF Counters
      <4>3. GiveStep(c)
        BY <1>0, <2>1, <2>2, <2>5, <2>7, <2>8, <3>1, <3>2, <3>4, <3>6, <4>1, <4>2 DEF GiveStep
      <4> QED BY <3>3, <4>3
    <3> QED BY <2>2, <3>5, <3>6
  <2>10. CASE 0 \notin {n, multi[u]}
    <3>1. Counted(c, pc(c)) BY <2>5, <2>10
    <3>2. /\ conn' \in [Conns -> ConnType] /\ task' \in [Conns -> TaskType] /\ OthersKept(c)
          /\ task[c].pc = "add" => conn'[c].slot = "user" /\ task'[c].pc = "finish"
          /\ task[c].pc = "lose" => conn'[c].slot = "none" /\ task'[c].pc = "idle"
      BY <2>1, <2>2, <3>1, CountedFacts
    <3>3. SlotTypes' BY <2>7, <3>2 DEF SlotTypes
    <3>4. CASE task[c].pc = "add"
      <4>1. multi[u] # 0 BY <2>4, <2>10, <3>4
      <4>2. count'["mcn"] = u8(count["mcn"] + 1) BY <1>2, <2>7, <3>4
      <4>3. TakeStep(c)
        BY <1>0, <2>1, <2>2, <2>5, <2>7, <2>8, <3>2, <3>4, <4>1, <4>2 DEF TakeStep
      <4> QED BY <3>3, <4>3
    <3>5. CASE task[c].pc = "lose"
      <4>1. multi[u] # 1 BY <2>4, <2>10, <3>5
      <4>2. count'["mcn"] = u8(count["mcn"] - 1) BY <1>0, <1>2, <2>7, <3>5 DEF Counters
      <4>3. GiveStep(c)
        BY <1>0, <2>1, <2>2, <2>5, <2>7, <2>8, <3>2, <3>5, <4>1, <4>2 DEF GiveStep
      <4> QED BY <3>3, <4>3
    <3> QED BY <2>2, <3>4, <3>5
  <2> QED BY <2>9, <2>10
<1> QED BY <1>3, <1>5, <1>6, <1>7

\* A step that keeps every slot, thread and counter keeps the invariant.
LEMMA QuietSlots ==
    ASSUME SlotTypes, Mcn = Conns, SlotInvariant,
           conn' \in [Conns -> ConnType], \A d \in Conns : conn'[d].slot = conn[d].slot,
           UNCHANGED <<task, count, multi>>
    PROVE  SlotTypes' /\ SlotInvariant'
<1>1. SlotTypes' BY DEF SlotTypes
<1>2. ASSUME NEW d \in Conns
      PROVE  /\ HasMulti(d)' <=> HasMulti(d)
             /\ HoldsCs(d)' <=> HoldsCs(d)
             /\ Delta(d)' = Delta(d)
             /\ Phase(conn[d], task[d])' <=> Phase(conn[d], task[d])
             /\ Takes(d, conn'[d], task'[d]) <=> Takes(d, conn[d], task[d])
             /\ pc(d)' = pc(d)
  <2>1. conn'[d].slot = conn[d].slot /\ task'[d] = task[d] OBVIOUS
  <2> QED BY <2>1 DEF HasMulti, HoldsCs, Delta, Phase, Takes, SlotAt, pc
<1>3. Phases' BY <1>2 DEF SlotInvariant, Phases
<1>4. OneInside' BY <1>2 DEF SlotInvariant, OneInside
<1>5. LoadedFresh' BY <1>2 DEF SlotInvariant, LoadedFresh
<1>6. StillFree' BY <1>2 DEF SlotInvariant, StillFree
<1>7. McnCounted'
  <2>1. Multi' = Multi BY <1>2 DEF Multi
  <2>2. \A u \in Users : MultiOf(u)' = MultiOf(u) BY <1>2 DEF MultiOf
  <2>3. \A d : Storers(d)' = Storers(d) BY <1>2 DEF Storers
  <2>4. Active' = Active BY DEF Active
  <2>5. McnCounted BY DEF SlotInvariant
  <2> QED BY <2>1, <2>2, <2>3, <2>4, <2>5, CountedSets
          DEF McnCounted, Multi, MultiOf, Active, Storers, Pending
<1> QED BY <1>1, <1>3, <1>4, <1>5, <1>6, <1>7 DEF SlotInvariant

\* The events of a connection leave its slot to the steps that follow a failure.
LEMMA EventSlots ==
    ASSUME SlotTypes, Mcn = Conns, SlotInvariant, NEW c \in Conns, Event(c)
    PROVE  SlotTypes' /\ SlotInvariant' /\ UNCHANGED count
<1>0. /\ conn \in [Conns -> ConnType] /\ task \in [Conns -> TaskType]
      /\ conn[c] \in ConnType /\ pc(c) = task[c].pc
  BY DEF SlotTypes, pc
<1>1. ASSUME NEW s \in {"closed", "GET", "SEND", "RUNNING"}, NEW t \in Tokens \cup {"none"},
             conn' = [conn EXCEPT ![c].state = s, ![c].upload = t]
      PROVE  conn' \in [Conns -> ConnType] /\ \A d \in Conns : conn'[d].slot = conn[d].slot
  <2> DEFINE k == [conn[c] EXCEPT !.state = s, !.upload = t]
  <2>1. k \in ConnType /\ k.slot = conn[c].slot BY <1>0 DEF ConnType
  <2>2. conn' = [conn EXCEPT ![c] = k] BY <1>0, <1>1 DEF ConnType
  <2> HIDE DEF k
  <2> QED BY <2>1, <2>2, ConnFields
<1>2. conn[c].upload \in Tokens \cup {"none"}
      /\ conn[c].state \in {"closed", "GET", "SEND", "RUNNING"}
  BY <1>0 DEF ConnType
<1>3. CASE addConnection(c)
  <2>1. conn' = [conn EXCEPT ![c].state = "GET", ![c].upload = conn[c].upload]
    BY <1>0, <1>3 DEF addConnection, ConnType
  <2>2. conn' \in [Conns -> ConnType] /\ \A d \in Conns : conn'[d].slot = conn[d].slot
    BY <1>1, <1>2, <2>1
  <2> QED BY <1>3, <2>2, QuietSlots DEF addConnection, slotVars
<1>4. CASE Send(c)
  <2>1. conn' = [conn EXCEPT ![c].state = "RUNNING", ![c].upload = conn[c].upload]
    BY <1>0, <1>4 DEF Send, ConnType
  <2>2. conn' \in [Conns -> ConnType] /\ \A d \in Conns : conn'[d].slot = conn[d].slot
    BY <1>1, <1>2, <2>1
  <2> QED BY <1>4, <2>2, QuietSlots DEF Send, slotVars
<1>5. ASSUME NEW delay \in Delays, TransmitDone(c, delay)
      PROVE  SlotTypes' /\ SlotInvariant' /\ UNCHANGED count
  <2> DEFINE t == IF delay THEN conn[c].upload ELSE "none"
  <2>1. conn' = [conn EXCEPT ![c].state = "GET", ![c].upload = t] /\ t \in Tokens \cup {"none"}
    BY <1>0, <1>2, <1>5 DEF TransmitDone, ConnType
  <2> HIDE DEF t
  <2>2. conn' \in [Conns -> ConnType] /\ \A d \in Conns : conn'[d].slot = conn[d].slot
    BY <1>1, <2>1
  <2> QED BY <1>5, <2>2, QuietSlots DEF TransmitDone, slotVars
<1>6. CASE Failed(c)
  <2>1. conn' = [conn EXCEPT ![c].state = conn[c].state, ![c].upload = "none"]
    BY <1>0, <1>6 DEF Failed, ConnType
  <2>2. conn' \in [Conns -> ConnType] /\ \A d \in Conns : conn'[d].slot = conn[d].slot
    BY <1>1, <1>2, <2>1
  <2>3. task[c].pc = "idle" /\ Go(c, "lose") /\ UNCHANGED <<count, multi>>
    BY <1>0, <1>6 DEF Failed, slotVars
  <2>4. /\ task' \in [Conns -> TaskType] /\ task'[c].pc = "lose"
        /\ \A d \in Conns \ {c} : task'[d] = task[d]
    BY <2>3, GoTypes, PlacesFacts
  <2>5. Phase(conn'[c], task'[c]) /\ ~Takes(c, conn'[c], task'[c])
    BY <2>4 DEF Phase, Takes, Taking
  <2>6. /\ task[c].pc \notin Storing \cup {"add"} /\ task'[c].pc \notin Storing \cup {"add"}
        /\ task'[c].pc \notin Section
    BY <2>3, <2>4, PlacesFacts
  <2>7. SlotTypes' /\ PlainStep(c) BY <2>2, <2>3, <2>4, <2>5, <2>6, MoveSlots
  <2> QED BY <2>3, <2>7, PlainKeeps
<1>7. CASE Disconnect(c)
  BY <1>0, <1>7, QuietSlots DEF Disconnect, slotVars
<1> QED BY <1>3, <1>4, <1>5, <1>6, <1>7 DEF Event

\* Neither the timer nor the users nor a posted deletion touch a slot.
LEMMA OtherSlots ==
    ASSUME SlotTypes, Mcn = Conns, SlotInvariant,
           \/ Timer
           \/ \E x \in posted : deleteExpired(x)
           \/ \E u \in Users : User(u)
           \/ UNCHANGED vars
    PROVE  SlotTypes' /\ SlotInvariant' /\ UNCHANGED count
<1>0. conn \in [Conns -> ConnType] BY DEF SlotTypes
<1>1. ASSUME UNCHANGED <<connVars, slotVars>>
      PROVE  SlotTypes' /\ SlotInvariant' /\ UNCHANGED count
  BY <1>0, <1>1, QuietSlots DEF connVars, slotVars
<1>2. CASE Timer
  <2>1. UNCHANGED <<connVars, slotVars>>
    <3>1. CASE Second BY <3>1 DEF Second
    <3>2. CASE notifyQueuedUsers BY <3>2 DEF notifyQueuedUsers
    <3>3. CASE Minute BY <3>3 DEF Minute
    <3>4. CASE \E x \in delayed : checkExpiredDelayUploads(x)
      BY <3>4 DEF checkExpiredDelayUploads
    <3> QED BY <1>2, <3>1, <3>2, <3>3, <3>4 DEF Timer
  <2> QED BY <1>1, <2>1
<1>3. ASSUME NEW x \in posted, deleteExpired(x)
      PROVE  SlotTypes' /\ SlotInvariant' /\ UNCHANGED count
  <2>1. UNCHANGED <<task, count, multi>> BY <1>3 DEF deleteExpired, slotVars
  <2>2. CASE conn' = [conn EXCEPT ![x[1]].upload = "none"]
    <3>1. CASE x[1] \in Conns
      <4> DEFINE k == [conn[x[1]] EXCEPT !.upload = "none"]
      <4>1. k \in ConnType /\ k.slot = conn[x[1]].slot BY <1>0, <3>1 DEF ConnType
      <4>2. conn' = [conn EXCEPT ![x[1]] = k] BY <2>2
      <4> HIDE DEF k
      <4>3. conn' \in [Conns -> ConnType] /\ \A d \in Conns : conn'[d].slot = conn[d].slot
        BY <3>1, <4>1, <4>2, ConnFields
      <4> QED BY <2>1, <4>3, QuietSlots
    <3>2. CASE x[1] \notin Conns
      <4>1. conn' = conn BY <1>0, <2>2, <3>2
      <4> QED BY <1>0, <2>1, <4>1, QuietSlots
    <3> QED BY <3>1, <3>2
  <2>3. CASE conn' = conn
    BY <1>0, <2>1, <2>3, QuietSlots
  <2> QED BY <1>3, <2>2, <2>3 DEF deleteExpired
<1>4. ASSUME NEW u \in Users, User(u)
      PROVE  SlotTypes' /\ SlotInvariant' /\ UNCHANGED count
  <2>1. UNCHANGED <<connVars, slotVars>>
    BY <1>4 DEF User, Elapse, UserDisconnected, UserConnected
  <2> QED BY <1>1, <2>1
<1>5. CASE UNCHANGED vars
  BY <1>1, <1>5 DEF vars
<1> QED BY <1>2, <1>3, <1>4, <1>5

\* The slots in the initial state.
LEMMA SlotInit ==
    ASSUME Init
    PROVE  SlotTypes /\ SlotInvariant
<1>1. /\ conn = [c \in Conns |-> NewConnection] /\ task = [c \in Conns |-> Idle]
      /\ count = [k \in Counters |-> 0] /\ multi = [u \in Users |-> 0]
  BY DEF Init
<1>2. NewConnection \in ConnType /\ NewConnection.slot = "none"
  BY PlacesFacts DEF NewConnection, ConnType
<1>3. Idle \in TaskType /\ Idle.pc = "idle"
  BY PlacesFacts, UploadAssumption DEF Idle, TaskType
<1>4. \A c \in Conns : conn[c].slot = "none" /\ task[c].pc = "idle" /\ pc(c) = "idle"
  BY <1>1, <1>2, <1>3 DEF pc
<1>5. SlotTypes BY <1>1, <1>2, <1>3, UploadAssumption DEF SlotTypes
<1>6. \A c \in Conns : ~HoldsCs(c) /\ ~HasMulti(c)
  BY <1>4 DEF HoldsCs, HasMulti, Storing
<1>7. Phases /\ OneInside /\ LoadedFresh /\ StillFree
  <2>1. Phases BY <1>4 DEF Phases, Phase
  <2>2. OneInside BY <1>4, <1>6 DEF OneInside, Section
  <2>3. LoadedFresh BY <1>6 DEF LoadedFresh
  <2>4. StillFree BY <1>4 DEF StillFree, Takes, Taking
  <2> QED BY <2>1, <2>2, <2>3, <2>4
<1>8. McnCounted
  <2>1. /\ Multi = {} /\ \A u \in Users : MultiOf(u) = {}
        /\ Storers(1) = {} /\ Storers(-1) = {}
    BY <1>6 DEF Multi, MultiOf, Storers
  <2>2. Active = {} BY <1>1 DEF Active
  <2>3. /\ count["mcn"] = 0 /\ count["running"] = 0
        /\ \A u \in Users : multi[u] = 0
    BY <1>1 DEF Counters
  <2>4. Cardinality({}) = 0 BY FS_EmptySet
  <2> QED BY <2>1, <2>2, <2>3, <2>4, CountedSets
<1> QED BY <1>5, <1>7, <1>8 DEF SlotInvariant

\* Every step keeps the invariant, and runningUsers grows only when a thread
\* stores the slot it has decided on, within the limit unless a hook granted it.
LEMMA SlotNext ==
    ASSUME SlotTypes, Mcn = Conns, Cardinality(Conns) < Wrap, SlotInvariant, [Next]_vars
    PROVE  /\ SlotTypes' /\ SlotInvariant'
           /\ count'["running"] > count["running"] /\ count'["running"] > Limit
                => \E c \in Conns : /\ pc(c) = "addStore" /\ pc(c)' # pc(c)
                                    /\ "user" \in Grants[UserOf[c]]
<1> DEFINE Grown == count'["running"] > count["running"] /\ count'["running"] > Limit
           Granted == \E c \in Conns : /\ pc(c) = "addStore" /\ pc(c)' # pc(c)
                                       /\ "user" \in Grants[UserOf[c]]
<1>0. /\ Phases /\ McnCounted /\ StillFree /\ count["running"] \in Nat /\ Limit \in Nat
  BY UploadAssumption DEF SlotInvariant, SlotTypes, Counters, Limit
<1>1. ASSUME NEW c \in Conns, Request(c)
      PROVE  SlotTypes' /\ (PlainStep(c) \/ TakeStep(c) \/ GiveStep(c) \/ SettleStep(c))
  <2>1. CASE \/ \E r \in Requests : Get(c, r)
             \/ Gate(c)
             \/ \E hook \in Grants[UserOf[c]] : Parse(c, hook)
             \/ Rejected(c)
             \/ Refuse(c)
    BY <1>0, <2>1, AskingSlots
  <2>2. CASE Open(c) \/ OpenFailed(c) \/ Finish(c) \/ removeQueue(c)
    BY <1>0, <2>2, OpeningSlots
  <2>3. CASE NotCounted(c) \/ Load(c) \/ changeMultiConnSlot(c) \/ Store(c)
    BY <1>0, <2>3, CountingSlots
  <2> QED BY <1>1, <2>1, <2>2, <2>3, Zenon DEF Request
<1>2. ASSUME NEW c \in Conns, Request(c)
      PROVE  SlotTypes' /\ SlotInvariant' /\ (Grown => Granted)
  <2>0. SlotTypes' BY <1>1, <1>2
  <2>1. CASE PlainStep(c)
    <3>1. count'["running"] = count["running"] BY <2>1 DEF PlainStep
    <3>2. ~Grown BY <1>0, <3>1
    <3> QED BY <2>0, <2>1, <3>2, PlainKeeps
  <2>2. CASE TakeStep(c)
    <3>1. count'["running"] = count["running"] BY <2>2 DEF TakeStep
    <3>2. ~Grown BY <1>0, <3>1
    <3> QED BY <2>0, <2>2, <3>2, TakeKeeps
  <2>3. CASE GiveStep(c)
    <3>1. count'["running"] = count["running"] BY <2>3 DEF GiveStep
    <3>2. ~Grown BY <1>0, <3>1
    <3> QED BY <2>0, <2>3, <3>2, GiveKeeps
  <2>4. CASE SettleStep(c)
    <3>1. SlotInvariant' /\ count'["running"] = count["running"] + Delta(c)
      BY <2>0, <2>4, SettleKeeps
    <3>2. pc(c) \in {"addStore", "loseStore"} /\ HoldsCs(c)
          /\ pc(c)' \in {"finish", "idle"}
      BY <2>4 DEF SettleStep, pc
    <3>3. CASE pc(c) = "loseStore"
      <4>1. Delta(c) = -1 BY <3>3 DEF Delta
      <4>2. ~Grown BY <1>0, <3>1, <4>1
      <4> QED BY <2>0, <3>1, <4>2
    <3>4. CASE pc(c) = "addStore"
      <4>1. Delta(c) = 1 BY <3>4 DEF Delta
      <4>2. task[c].pc = "addStore" /\ task[c].new = "user" BY <3>2, <3>4, SlotFacts DEF pc
      <4>3. Grown => ~(count["running"] < Limit) BY <1>0, <3>1, <4>1
      <4>4. Grown => "user" \in Grants[UserOf[c]]
        BY <1>0, <4>2, <4>3 DEF StillFree, Takes, Taking
      <4>5. Grown => Granted BY <3>2, <3>4, <4>4
      <4> QED BY <2>0, <3>1, <4>5
    <3> QED BY <3>2, <3>3, <3>4
  <2> QED BY <1>1, <1>2, <2>1, <2>2, <2>3, <2>4
<1>3. UNCHANGED count => ~Grown BY <1>0
<1>4. ASSUME NEW c \in Conns, Event(c)
      PROVE  SlotTypes' /\ SlotInvariant' /\ (Grown => Granted)
  BY <1>3, <1>4, EventSlots
<1>5. ASSUME \/ Timer
             \/ \E x \in posted : deleteExpired(x)
             \/ \E u \in Users : User(u)
             \/ UNCHANGED vars
      PROVE  SlotTypes' /\ SlotInvariant' /\ (Grown => Granted)
  BY <1>3, <1>5, OtherSlots
<1> HIDE DEF Grown, Granted
<1>6. SlotTypes' /\ SlotInvariant' /\ (Grown => Granted)
  BY <1>2, <1>4, <1>5, Zenon DEF Next
<1> QED BY <1>6 DEF Grown, Granted

\* With MCN connections only, and fewer of them than a uint8_t counts, the
\* counters of UploadManager.h:101 agree with the slots of the connections in
\* every interleaving of the socket threads, connections that fail in the middle
\* of another one's request included.
THEOREM McnAlwaysCounted ==
    ASSUME Mcn = Conns, Cardinality(Conns) < Wrap
    PROVE  Spec => []McnCounted
<1>1. Init => SlotTypes /\ SlotInvariant
  BY SlotInit
<1>2. SlotTypes /\ SlotInvariant /\ [Next]_vars => (SlotTypes /\ SlotInvariant)'
  BY SlotNext
<1>3. SlotInvariant => McnCounted
  BY DEF SlotInvariant
<1> QED BY <1>1, <1>2, <1>3, PTL DEF Spec

\* Under the same hypotheses runningUsers grows beyond the slots of the settings
\* and those opened for a low speed only for a user to whom a hook may grant a
\* slot: what parseSlotHookedThrow has tested still holds when updateSlotCounts
\* counts the slot.
THEOREM SlotsRespected ==
    ASSUME Mcn = Conns, Cardinality(Conns) < Wrap
    PROVE  Spec => WithinSlots
<1>1. Init => SlotTypes /\ SlotInvariant
  BY SlotInit
<1>2. SlotTypes /\ SlotInvariant /\ [Next]_vars => (SlotTypes /\ SlotInvariant)'
  BY SlotNext
<1> DEFINE Step == /\ count'["running"] > count["running"]
                   /\ count'["running"] > SlotCount + (IF LowSpeed THEN MaxAutoOpened ELSE 0)
                   => \E c \in Conns : /\ pc(c) = "addStore" /\ pc(c)' # pc(c)
                                       /\ "user" \in Grants[UserOf[c]]
<1>3. SlotTypes /\ SlotInvariant /\ [Next]_vars => [Step]_vars
  BY SlotNext DEF Limit
<1> HIDE DEF Step
<1>4. Spec => [][Step]_vars
  BY <1>1, <1>2, <1>3, PTL DEF Spec
<1> QED BY <1>4 DEF WithinSlots, Step

-----------------------------------------------------------------------------
(* Type correctness *)

\* The types that OwnTypes leaves out.
ThreadTypes ==
    /\ task \in [Conns -> TaskType]
    /\ count \in [Counters -> 0..(Wrap - 1)]
    /\ multi \in [Users -> Nat]
    /\ closing \subseteq Conns

QueueTypes ==
    /\ queue \in Seq(Users)
    /\ notified \in [Users -> {"no", "fresh", "old"}]
    /\ timerFree \in -1..(Wrap - 1)
    /\ online \subseteq Users

\* The positions that remain are finitely many.
LEMMA PositionsFinite ==
  ASSUME NEW S, NEW s \in Seq(S), NEW K
  PROVE  /\ Remaining(s, K) \in SUBSET (1..Len(s))
         /\ IsFiniteSet(Remaining(s, K)) /\ Cardinality(Remaining(s, K)) \in Nat
         /\ Cardinality(Remaining(s, K)) <= Len(s)
<1>1. Remaining(s, K) \in SUBSET (1..Len(s)) BY DEF Remaining
<1>2. IsFiniteSet(1..Len(s)) /\ Cardinality(1..Len(s)) = Len(s)
  <2>1. Len(s) \in Int /\ Len(s) >= 0 /\ 1 \in Int OBVIOUS
  <2>2. /\ IsFiniteSet(1..Len(s))
        /\ Cardinality(1..Len(s)) = IF 1 > Len(s) THEN 0 ELSE Len(s) - 1 + 1
    BY <2>1, FS_Interval
  <2> QED BY <2>1, <2>2
<1> QED BY <1>1, <1>2, FS_Subset, FS_CardinalityType

\* The rank of a position grows from 1 to the number of positions.
LEMMA RankProperties ==
  ASSUME NEW n \in Nat, NEW I \in SUBSET (1..n), IsFiniteSet(I)
  PROVE  /\ \A i \in I : Rank(I, i) \in 1..Cardinality(I)
         /\ \A i, j \in I : Rank(I, i) = Rank(I, j) => i = j
<1> DEFINE Upto(i) == {j \in I : j <= i}
<1>0. \A i \in I : i \in Nat OBVIOUS
<1>1. ASSUME NEW i \in I
      PROVE  /\ Upto(i) \in SUBSET I /\ IsFiniteSet(Upto(i))
             /\ Cardinality(Upto(i)) \in 1..Cardinality(I)
             /\ Rank(I, i) = Cardinality(Upto(i))
  <2>1. Upto(i) \in SUBSET I OBVIOUS
  <2>2. i \in Upto(i) BY <1>0
  <2>3. IsFiniteSet(Upto(i)) /\ Cardinality(Upto(i)) <= Cardinality(I)
    BY <2>1, FS_Subset
  <2>4. Cardinality(Upto(i)) \in Nat /\ Cardinality(I) \in Nat
    BY <2>3, FS_CardinalityType
  <2>5. Cardinality(Upto(i)) # 0 BY <2>2, <2>3, FS_EmptySet
  <2>6. Rank(I, i) = Cardinality(Upto(i)) BY DEF Rank
  <2> HIDE DEF Upto
  <2> QED BY <2>1, <2>3, <2>4, <2>5, <2>6
<1>2. ASSUME NEW i \in I, NEW j \in I, i < j PROVE Rank(I, i) # Rank(I, j)
  <2>0. \A k \in I : k <= i => k <= j BY <1>0, <1>2
  <2>1. Upto(i) \in SUBSET Upto(j) BY <2>0
  <2>2. j \in Upto(j) /\ j \notin Upto(i) BY <1>0, <1>2
  <2>3. Upto(i) # Upto(j) BY <2>2
  <2>4. IsFiniteSet(Upto(j)) BY <1>1
  <2> HIDE DEF Upto
  <2>5. Cardinality(Upto(j)) # Cardinality(Upto(i)) BY <2>1, <2>3, <2>4, FS_Subset
  <2> QED BY <1>1, <2>5
<1>3. \A i, j \in I : Rank(I, i) = Rank(I, j) => i = j
  <2> SUFFICES ASSUME NEW i \in I, NEW j \in I, i # j PROVE Rank(I, i) # Rank(I, j)
    OBVIOUS
  <2>1. i < j \/ j < i BY <1>0
  <2> QED BY <1>2, <2>1
<1> QED BY <1>1, <1>3

\* The result is a list of the entries' type.
LEMMA FilterType ==
  ASSUME NEW S, NEW s \in Seq(S), NEW K
  PROVE  Filter(s, K) \in Seq(S)
<1> DEFINE I == Remaining(s, K)
           n == Cardinality(I)
           rank == [i \in I |-> Rank(I, i)]
<1>0. I \in SUBSET (1..Len(s)) /\ IsFiniteSet(I) /\ n \in Nat /\ Len(s) \in Nat
  BY PositionsFinite
<1>1. \A i \in 1..Len(s) : s[i] \in S OBVIOUS
<1>2. Filter(s, K) = [k \in 1..n |-> s[CHOOSE i \in I : Rank(I, i) = k]] BY DEF Filter
<1> HIDE DEF I
<1>3. /\ \A i \in I : Rank(I, i) \in 1..n
      /\ \A i, j \in I : Rank(I, i) = Rank(I, j) => i = j
  BY <1>0, RankProperties
<1>4. rank \in Injection(I, 1..n)
  <2>1. rank \in [I -> 1..n] BY <1>3
  <2>2. \A i, j \in I : rank[i] = rank[j] => i = j BY <1>3
  <2> HIDE DEF rank, n
  <2> QED BY <2>1, <2>2 DEF Injection, IsInjective
<1>5. rank \in Surjection(I, 1..n)
  <2> HIDE DEF rank
  <2>1. IsFiniteSet(1..n) /\ Cardinality(1..n) = n
    <3> HIDE DEF n
    <3> QED BY <1>0, FS_Interval
  <2>2. Cardinality(I) = Cardinality(1..n) BY <2>1
  <2> HIDE DEF n
  <2> QED BY <1>4, <2>1, <2>2, FS_Injection
<1>6. ASSUME NEW k \in 1..n PROVE \E i \in I : Rank(I, i) = k
  <2>1. \E i \in I : rank[i] = k
    <3> HIDE DEF rank, n
    <3> QED BY <1>5, <1>6 DEF Surjection
  <2> QED BY <2>1
<1>7. \A k \in 1..n : s[CHOOSE i \in I : Rank(I, i) = k] \in S
  <2> TAKE k \in 1..n
  <2>1. (CHOOSE i \in I : Rank(I, i) = k) \in I BY <1>6
  <2> QED BY <1>0, <1>1, <2>1
<1>8. n \in Nat BY <1>0
<1> HIDE DEF n
<1>9. Filter(s, K) \in [1..n -> S] BY <1>2, <1>7
<1> QED BY <1>8, <1>9, SeqDef

\* What a user leaves of the queue.
LEMMA UnqueuedType ==
    ASSUME QueueTypes, NEW K
    PROVE  Filter(queue, K) \in Seq(Users)
BY FilterType DEF QueueTypes

\* The hooks answer with a kind of slot or with a refusal.
LEMMA ParsedSlot ==
    ASSUME NEW c \in Conns, NEW hook \in Grants[UserOf[c]], hook # "reject", NEW low
    PROVE  parseSlot(c, hook, low) \in SlotKinds
<1>1. Grants[UserOf[c]] \subseteq Hooks BY UploadAssumption
<1>2. hook \in {"none", "file", "user"} BY <1>1 DEF Hooks
<1> QED BY <1>2, PlacesFacts DEF parseSlot

\* The steps of a request keep the types of the threads and of the counters.
LEMMA RequestTypes ==
    ASSUME OwnTypes, ThreadTypes, NEW c \in Conns, Request(c)
    PROVE  ThreadTypes'
<1>0. /\ SlotTypes /\ task \in [Conns -> TaskType] /\ closing \subseteq Conns
      /\ count \in [Counters -> 0..(Wrap - 1)] /\ multi \in [Users -> Nat]
      /\ task[c] \in TaskType /\ conn[c] \in ConnType /\ pc(c) = task[c].pc
      /\ task[c].pc \in Places /\ task[c].new \in SlotKinds /\ task[c].reg \in 0..(Wrap - 1)
      /\ UserOf[c] \in Users /\ uploads \subseteq Conns \X Tokens /\ "none" \in SlotKinds
  BY UploadAssumption, PlacesFacts DEF OwnTypes, ThreadTypes, SlotTypes, TaskType, pc
<1>1. \A place \in Places : Go(c, place) => task' \in [Conns -> TaskType]
  BY <1>0, GoTypes
<1>2. \A place \in Places, slot \in SlotKinds : GoWith(c, place, slot) => task' \in [Conns -> TaskType]
  BY <1>0, GoTypes
<1>3. /\ {"gate", "parse", "refuse", "open", "drop", "dropStore", "add", "addStore", "finish",
          "idle", "unqueue", "lose", "loseStore"} \subseteq Places
      /\ "user" \in SlotKinds
  BY PlacesFacts
<1>4. ASSUME NEW r \in Requests, Get(c, r) PROVE ThreadTypes'
  <2>1. r \in {"normal", "mini", "small"} BY UploadAssumption
  <2>2. /\ task' = [task EXCEPT ![c].pc = "gate", ![c].request = r] /\ closing' = closing
        /\ count' = count /\ multi' = multi
    BY <1>4 DEF Get, slotVars
  <2>3. task' \in [Conns -> TaskType] BY <1>0, <1>3, <2>1, <2>2 DEF TaskType
  <2> QED BY <1>0, <2>2, <2>3 DEF ThreadTypes
<1>5. CASE Gate(c)
  <2>1. closing' = closing /\ count' = count /\ multi' = multi BY <1>5 DEF Gate, slotVars
  <2>2. \/ GoWith(c, "open", "user") \/ Go(c, "refuse")
        \/ task' = [task EXCEPT ![c].pc = "parse"]
    BY <1>5 DEF Gate
  <2>3. CASE task' = [task EXCEPT ![c].pc = "parse"]
    <3>1. task' \in [Conns -> TaskType] BY <1>0, <1>3, <2>3 DEF TaskType
    <3> QED BY <1>0, <2>1, <3>1 DEF ThreadTypes
  <2>4. CASE GoWith(c, "open", "user") \/ Go(c, "refuse")
    <3>1. task' \in [Conns -> TaskType] BY <1>1, <1>2, <1>3, <2>4
    <3> QED BY <1>0, <2>1, <3>1 DEF ThreadTypes
  <2> QED BY <2>2, <2>3, <2>4
<1>6. ASSUME NEW hook \in Grants[UserOf[c]], Parse(c, hook) PROVE ThreadTypes'
  <2>1. closing' = closing /\ count' = count /\ multi' = multi BY <1>6 DEF Parse, slotVars
  <2>2. hook # "reject" BY <1>6 DEF Parse
  <2>3. PICK low \in lowSpeedSlotsRemaining :
          IF parseSlot(c, hook, low) = "none" THEN Go(c, "refuse")
                                              ELSE GoWith(c, "open", parseSlot(c, hook, low))
    BY <1>6 DEF Parse
  <2>4. parseSlot(c, hook, low) \in SlotKinds BY <2>2, ParsedSlot
  <2>5. task' \in [Conns -> TaskType] BY <1>1, <1>2, <1>3, <2>3, <2>4
  <2> QED BY <1>0, <2>1, <2>5 DEF ThreadTypes
<1>7. CASE Rejected(c) \/ Refuse(c)
  <2>1. /\ closing' = closing \cup {c} /\ count' = count /\ multi' = multi /\ Go(c, "idle")
    BY <1>7 DEF Rejected, Refuse, slotVars
  <2>2. task' \in [Conns -> TaskType] BY <1>1, <1>3, <2>1
  <2> QED BY <1>0, <2>1, <2>2 DEF ThreadTypes
<1>8. CASE Open(c) \/ OpenFailed(c)
  <2>1. /\ closing' = closing /\ count' = count /\ multi' = multi
        /\ Go(c, "idle") \/ Go(c, "unqueue") \/ GoWith(c, "drop", task[c].new)
    BY <1>8 DEF Open, OpenFailed, slotVars
  <2>2. task' \in [Conns -> TaskType] BY <1>0, <1>1, <1>2, <1>3, <2>1
  <2> QED BY <1>0, <2>1, <2>2 DEF ThreadTypes
<1>9. DOMAIN StoreOf = {"drop", "add", "lose"}
      /\ \A place \in DOMAIN StoreOf : StoreOf[place] \in Places
  BY <1>3 DEF StoreOf
<1>10. ASSUME Counted(c, pc(c)), task[c].pc \in Storing \cup {"drop", "add", "lose"}
       PROVE  task' \in [Conns -> TaskType] /\ closing' \subseteq Conns
  <2>1. task' \in [Conns -> TaskType] BY <1>0, <1>10, CountedFacts
  <2>2. closing' \subseteq closing BY <1>10 DEF Counted
  <2> QED BY <1>0, <2>1, <2>2
<1>11. ASSUME NEW r \in 0..(Wrap - 1), pc(c) \in DOMAIN StoreOf,
              task' = [task EXCEPT ![c].pc = StoreOf[@], ![c].reg = r]
       PROVE  task' \in [Conns -> TaskType]
  <2>1. StoreOf[task[c].pc] \in Places BY <1>0, <1>9, <1>11
  <2>2. task' = [task EXCEPT ![c] = [task[c] EXCEPT !.pc = StoreOf[task[c].pc], !.reg = r]]
    BY <1>0, <1>11
  <2>3. [task[c] EXCEPT !.pc = StoreOf[task[c].pc], !.reg = r] \in TaskType
    BY <1>0, <2>1 DEF TaskType
  <2> QED BY <1>0, <2>2, <2>3
<1>12. CASE NotCounted(c)
  <2>1. /\ task[c].pc \in {"drop", "add", "lose"} /\ Counted(c, pc(c))
        /\ count' = count /\ multi' = multi
    BY <1>0, <1>9, <1>12 DEF NotCounted, slotVars
  <2> QED BY <1>0, <1>10, <2>1 DEF ThreadTypes
<1>13. CASE Load(c)
  <2>1. PICK k \in Counters : task' = [task EXCEPT ![c].pc = StoreOf[@], ![c].reg = count[k]]
    BY <1>13 DEF Load
  <2>2. /\ pc(c) \in DOMAIN StoreOf /\ closing' = closing /\ count' = count /\ multi' = multi
        /\ count[k] \in 0..(Wrap - 1)
    BY <1>0, <1>13 DEF Load, slotVars
  <2> QED BY <1>0, <1>11, <2>1, <2>2 DEF ThreadTypes
<1>14. Delta(c) \in Int /\ \A k \in Counters : count[k] \in 0..(Wrap - 1) /\ count[k] \in Int
  BY <1>0, UploadAssumption DEF Delta
<1>15. ASSUME NEW k, NEW n \in Int PROVE [count EXCEPT ![k] = u8(n)] \in [Counters -> 0..(Wrap - 1)]
  BY <1>0, <1>15, U8Type
<1>16. CASE changeMultiConnSlot(c)
  <2> DEFINE u == UserOf[c]
             n == multi[u] + Delta(c)
  <2>1. pc(c) \in DOMAIN StoreOf /\ task[c].pc \in Storing \cup {"drop", "add", "lose"}
    BY <1>0, <1>9, <1>16 DEF changeMultiConnSlot
  <2>2. n \in Int BY <1>0, <1>14
  <2>3. CASE n >= 0
    <3>1. /\ multi' = [multi EXCEPT ![u] = n]
          /\ count' = [count EXCEPT !["mcn"] = u8(count["mcn"] + Delta(c))]
          /\ \/ /\ task' = [task EXCEPT ![c].pc = StoreOf[@], ![c].reg = count["running"]]
                /\ closing' = closing
             \/ Counted(c, pc(c))
      BY <1>16, <2>3 DEF changeMultiConnSlot
    <3>2. n \in Nat BY <2>2, <2>3
    <3>3. multi' \in [Users -> Nat] BY <1>0, <3>1, <3>2
    <3>4. "mcn" \in Counters /\ "running" \in Counters BY DEF Counters
    <3>5. count["mcn"] + Delta(c) \in Int BY <1>14, <3>4
    <3>6. count' \in [Counters -> 0..(Wrap - 1)] BY <1>15, <3>1, <3>5
    <3>7. task' \in [Conns -> TaskType] /\ closing' \subseteq Conns
      BY <1>0, <1>10, <1>11, <1>14, <2>1, <3>1, <3>4
    <3> QED BY <3>3, <3>6, <3>7 DEF ThreadTypes
  <2>4. CASE ~(n >= 0)
    <3>1. Counted(c, pc(c)) /\ count' = count /\ multi' = multi
      BY <1>16, <2>4 DEF changeMultiConnSlot, slotVars
    <3> QED BY <1>0, <1>10, <2>1, <3>1 DEF ThreadTypes
  <2> QED BY <2>3, <2>4
<1>17. CASE Store(c)
  <2>1. PICK k : count' = [count EXCEPT ![k] = u8(task[c].reg + Delta(c))]
    BY <1>17 DEF Store
  <2>2. Counted(c, pc(c)) /\ multi' = multi /\ task[c].pc \in Storing BY <1>0, <1>17 DEF Store
  <2>3. task[c].reg + Delta(c) \in Int BY <1>0, <1>14, UploadAssumption
  <2>4. count' \in [Counters -> 0..(Wrap - 1)] BY <1>15, <2>1, <2>3
  <2> QED BY <1>0, <1>10, <2>2, <2>4 DEF ThreadTypes
<1>18. CASE Finish(c)
  <2>1. count' = count /\ multi' = multi /\ Go(c, "unqueue") BY <1>18 DEF Finish, slotVars
  <2>2. closing' = closing \/ \E x \in uploads : closing' = closing \cup {x[1]}
    BY <1>18 DEF Finish, disconnectExtraMultiConn, Extra
  <2>3. closing' \subseteq Conns BY <1>0, <2>2
  <2>4. task' \in [Conns -> TaskType] BY <1>1, <1>3, <2>1
  <2> QED BY <1>0, <2>1, <2>3, <2>4 DEF ThreadTypes
<1>19. CASE removeQueue(c)
  <2>1. closing' = closing /\ count' = count /\ multi' = multi /\ Go(c, "idle")
    BY <1>19 DEF removeQueue, slotVars
  <2>2. task' \in [Conns -> TaskType] BY <1>1, <1>3, <2>1
  <2> QED BY <1>0, <2>1, <2>2 DEF ThreadTypes
<1> QED BY <1>4, <1>5, <1>6, <1>7, <1>8, <1>12, <1>13, <1>16, <1>17, <1>18, <1>19, Zenon
        DEF Request

\* The other steps hardly touch the threads.
LEMMA OtherTypes ==
    ASSUME OwnTypes, ThreadTypes,
           \/ \E c \in Conns : Event(c)
           \/ Timer
           \/ \E x \in posted : deleteExpired(x)
           \/ \E u \in Users : User(u)
           \/ UNCHANGED vars
    PROVE  ThreadTypes'
<1>1. ASSUME UNCHANGED <<task, count, multi>>, closing' \subseteq Conns PROVE ThreadTypes'
  BY <1>1 DEF ThreadTypes
<1>2. closing \subseteq Conns BY DEF ThreadTypes
<1>3. ASSUME NEW c \in Conns, Event(c) PROVE ThreadTypes'
  <2>1. CASE Failed(c)
    <3>1. Go(c, "lose") /\ UNCHANGED <<closing, count, multi>> BY <2>1 DEF Failed, slotVars
    <3>2. SlotTypes /\ "lose" \in Places /\ "none" \in SlotKinds
      BY PlacesFacts DEF OwnTypes, ThreadTypes, SlotTypes
    <3>3. task' \in [Conns -> TaskType] BY <3>1, <3>2, GoTypes
    <3> QED BY <3>1, <3>3 DEF ThreadTypes
  <2>2. CASE addConnection(c) BY <1>1, <1>2, <2>2 DEF addConnection, slotVars
  <2>3. CASE Send(c) BY <1>1, <1>2, <2>3 DEF Send, slotVars
  <2>4. CASE \E delay \in Delays : TransmitDone(c, delay)
    BY <1>1, <1>2, <2>4 DEF TransmitDone, slotVars
  <2>5. CASE Disconnect(c) BY <1>1, <1>2, <2>5 DEF Disconnect, slotVars
  <2> QED BY <1>3, <2>1, <2>2, <2>3, <2>4, <2>5 DEF Event
<1>4. CASE Timer
  BY <1>1, <1>2, <1>4 DEF Timer, Second, notifyQueuedUsers, Minute, checkExpiredDelayUploads,
                          connVars, slotVars
<1>5. CASE \E x \in posted : deleteExpired(x)
  BY <1>1, <1>2, <1>5 DEF deleteExpired, slotVars
<1>6. CASE \E u \in Users : User(u)
  BY <1>1, <1>2, <1>6 DEF User, Elapse, UserDisconnected, UserConnected, connVars, slotVars
<1>7. CASE UNCHANGED vars
  BY <1>1, <1>2, <1>7 DEF vars, connVars, slotVars
<1> QED BY <1>3, <1>4, <1>5, <1>6, <1>7

\* The queue holds users, whatever is taken off it and however often.
LEMMA QueueSteps ==
    ASSUME ThreadTypes, QueueTypes, [Next]_vars
    PROVE  QueueTypes'
<1>0. /\ queue \in Seq(Users) /\ notified \in [Users -> {"no", "fresh", "old"}]
      /\ timerFree \in -1..(Wrap - 1) /\ online \subseteq Users
      /\ \A c \in Conns : UserOf[c] \in Users
  BY UploadAssumption DEF QueueTypes
<1>1. ASSUME UNCHANGED queueVars PROVE QueueTypes'
  BY <1>1 DEF queueVars, QueueTypes
<1>2. ASSUME NEW c \in Conns, Request(c) PROVE QueueTypes'
  <2>1. CASE Refuse(c)
    <3>1. queue' = queue \/ queue' = Append(queue, UserOf[c]) BY <2>1 DEF Refuse
    <3>2. queue' \in Seq(Users) BY <1>0, <3>1
    <3> QED BY <1>0, <2>1, <3>2 DEF Refuse, QueueTypes
  <2>2. CASE removeQueue(c)
    <3>1. /\ queue' = Filter(queue, Users \ {UserOf[c]})
          /\ notified' = [notified EXCEPT ![UserOf[c]] = "no"]
          /\ timerFree' = timerFree /\ online' = online
      BY <2>2 DEF removeQueue, Unqueued
    <3>2. queue' \in Seq(Users) BY <3>1, UnqueuedType
    <3> QED BY <1>0, <3>1, <3>2 DEF QueueTypes
  <2>3. CASE \E r \in Requests : Get(c, r) BY <1>1, <2>3 DEF Get
  <2>4. CASE Gate(c) \/ (\E hook \in Grants[UserOf[c]] : Parse(c, hook)) \/ Rejected(c)
    BY <1>1, <2>4 DEF Gate, Parse, Rejected
  <2>5. CASE Open(c) \/ OpenFailed(c) \/ NotCounted(c) \/ Load(c) \/ Finish(c)
    BY <1>1, <2>5 DEF Open, OpenFailed, NotCounted, Load, Finish
  <2>6. CASE changeMultiConnSlot(c) \/ Store(c)
    BY <1>1, <2>6 DEF changeMultiConnSlot, Store
  <2> QED BY <1>2, <2>1, <2>2, <2>3, <2>4, <2>5, <2>6, Zenon DEF Request
<1>3. ASSUME NEW c \in Conns, Event(c) PROVE QueueTypes'
  BY <1>1, <1>3 DEF Event, addConnection, Send, TransmitDone, Failed, Disconnect
<1>4. CASE Second
  <2>1. count["running"] \in 0..(Wrap - 1) BY DEF ThreadTypes, Counters
  <2>2. getFreeSlots \in -1..(Wrap - 1) BY <2>1, UploadAssumption DEF getFreeSlots, NonNegative
  <2> QED BY <1>0, <1>4, <2>2 DEF Second, QueueTypes
<1>5. CASE notifyQueuedUsers
  <2>1. PICK taken \in SUBSET (DOMAIN queue) :
          queue' = SubSeq(queue, Cardinality(taken) + 1, Len(queue))
    BY <1>5 DEF notifyQueuedUsers, Taken
  <2>2. IsFiniteSet(1..Len(queue)) BY <1>0, FS_Interval
  <2>3. DOMAIN queue = 1..Len(queue) /\ Len(queue) \in Nat BY <1>0
  <2>4. Cardinality(taken) \in Nat BY <2>2, <2>3, FS_Subset, FS_CardinalityType
  <2>5. SubSeq(queue, Cardinality(taken) + 1, Len(queue)) \in Seq(Users)
    BY <1>0, <2>3, <2>4, SubSeqProperties
  <2>6. notified' \in [Users -> {"no", "fresh", "old"}] BY <1>0, <1>5 DEF notifyQueuedUsers
  <2>7. timerFree' \in -1..(Wrap - 1) BY <1>5, UploadAssumption DEF notifyQueuedUsers
  <2> QED BY <1>0, <1>5, <2>1, <2>5, <2>6, <2>7 DEF notifyQueuedUsers, QueueTypes
<1>6. CASE Minute
  <2>1. queue' \in Seq(Users) BY <1>6, UnqueuedType DEF Minute
  <2>2. notified' \in [Users -> {"no", "fresh", "old"}] BY <1>0, <1>6 DEF Minute
  <2> QED BY <1>0, <1>6, <2>1, <2>2 DEF Minute, QueueTypes
<1>7. CASE \/ \E x \in delayed : checkExpiredDelayUploads(x)
           \/ \E x \in posted : deleteExpired(x)
  BY <1>1, <1>7 DEF checkExpiredDelayUploads, deleteExpired
<1>8. ASSUME NEW u \in Users, User(u) PROVE QueueTypes'
  <2>1. CASE Elapse(u) BY <1>0, <2>1 DEF Elapse, QueueTypes
  <2>2. CASE UserDisconnected(u)
    <3>1. queue' \in Seq(Users) BY <2>2, UnqueuedType DEF UserDisconnected, Unqueued
    <3> QED BY <1>0, <2>2, <3>1 DEF UserDisconnected, QueueTypes
  <2>3. CASE UserConnected(u) BY <1>0, <2>3 DEF UserConnected, QueueTypes
  <2> QED BY <1>8, <2>1, <2>2, <2>3 DEF User
<1>9. CASE UNCHANGED vars BY <1>1, <1>9 DEF vars, queueVars
<1> QED BY <1>2, <1>3, <1>4, <1>5, <1>6, <1>7, <1>8, <1>9 DEF Next, Timer

\* Every variable keeps its type for any number of connections, users and slots;
\* the counters keep the eight bits of UploadManager.h:101 and multiUploads
\* never goes below zero, whatever the races between the threads do to them.
THEOREM TypeCorrect == Spec => []TypeOK
<1> DEFINE Inv == /\ OwnTypes /\ \A c \in Conns : Owned(c)
                  /\ ThreadTypes /\ QueueTypes
<1>1. Init => Inv
  <2> SUFFICES ASSUME Init PROVE ThreadTypes /\ QueueTypes BY OwnInit
  <2>1. ThreadTypes
    <3>1. SlotTypes BY SlotInit
    <3> QED BY <3>1 DEF SlotTypes, ThreadTypes, Init
  <2>2. QueueTypes BY UploadAssumption DEF Init, QueueTypes
  <2> QED BY <2>1, <2>2
<1>2. Inv /\ [Next]_vars => Inv'
  <2> SUFFICES ASSUME Inv, [Next]_vars PROVE ThreadTypes' /\ QueueTypes' BY OwnNext
  <2>1. ThreadTypes' BY RequestTypes, OtherTypes DEF Next
  <2> QED BY <2>1, QueueSteps
<1>3. Inv => TypeOK
  BY DEF OwnTypes, ThreadTypes, QueueTypes, TypeOK
<1> QED BY <1>1, <1>2, <1>3, PTL DEF Spec
=============================================================================
