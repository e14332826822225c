--------------------------- MODULE HubClientProofs ---------------------------
(***************************************************************************)
(* A hub's client has one socket that it listens to, and users online only *)
(* by a connection that is up, for every number of sockets and whatever    *)
(* the timer, the user, the hub and the sockets' threads do.               *)
(***************************************************************************)
EXTENDS HubClient, TLAPS

Threads == {"timer", "user"}

SockType ==
  [state : {"none", "STARTING", "RUNNING", "FAILED"},
   tasks : Seq({"CONNECT", "DISCONNECT", "INFO", "SHUTDOWN", "CLOSE"}),
   pc : {"idle", "connecting", "fire", "failed", "join", "joinTCP", "closing"},
   disconnecting : BOOLEAN, listener : BOOLEAN, up : BOOLEAN, started : BOOLEAN,
   told : 0..MaxInfo, forbidden : BOOLEAN]

ThreadType ==
  [pc : {"idle", "destroy", "remove", "prepare", "new", "start"}, old : Socks \cup {Null}]

HubTypes ==
  /\ state \in {"DISCONNECTED", "CONNECTING", "PROTOCOL", "IDENTIFY", "VERIFY", "NORMAL"}
  /\ sock \in Socks \cup {Null} /\ auto \in BOOLEAN /\ users \in BOOLEAN
  /\ counted \in BOOLEAN /\ asked \in BOOLEAN
  /\ info \in 1..MaxInfo /\ lastInfo \in 0..MaxInfo
  /\ sk \in [Socks -> SockType]
  /\ thread \in [Threads -> ThreadType]
  /\ closer \in [pc : {"none", "join", "unlisten", "remove", "closed"},
                 by : Socks \cup {"user"}, old : Socks \cup {Null}]

LEMMA InitTypes == Init => HubTypes
<1> SUFFICES ASSUME Init PROVE HubTypes
  OBVIOUS
<1>1. thread \in [Threads -> ThreadType]
  BY DEF Init, ThreadType, Threads, NoThread
<1>2. NoSock \in SockType
  BY HubAssumption DEF NoSock, SockType
<1>3. sk \in [Socks -> SockType]
  BY <1>2 DEF Init
<1>4. closer \in [pc : {"none", "join", "unlisten", "remove", "closed"},
                 by : Socks \cup {"user"}, old : Socks \cup {Null}]
  BY DEF Init
<1>5. info \in 1..MaxInfo /\ lastInfo \in 0..MaxInfo
  BY HubAssumption DEF Init
<1> QED BY <1>1, <1>3, <1>4, <1>5 DEF Init, HubTypes

-----------------------------------------------------------------------------
(* The inductive invariant.                                                *)

In(a, q) == \E n \in DOMAIN q : q[n] = a
Has(s, task) == In(task, sk[s].tasks)

\* A socket whose thread connects, or has connected, for the client.
Active(s) == sk[s].started /\ sk[s].state \in {"STARTING", "RUNNING"}

\* The client may be connected anew: its socket has failed and said so, or its
\* thread was never started.
Quiet == \A s \in Socks : sk[s].listener => ~Active(s) /\ sk[s].pc = "idle"

\* One socket: where its thread is goes with its state, it fires events only
\* while the client listens, a thread that is active works for the client's
\* socket, and what ends it was asked for by shutdown or by the next connect.
SockInv(s) ==
  /\ sk[s].state = "none" =>
       ~sk[s].listener /\ ~sk[s].up /\ ~sk[s].started /\ sk[s].tasks = << >>
  /\ ~sk[s].started => sk[s].state \in {"none", "STARTING"}
  /\ sk[s].state \in {"none", "STARTING"} => ~sk[s].up /\ sk[s].pc = "idle"
  /\ sk[s].pc = "connecting" => sk[s].state = "RUNNING" /\ ~sk[s].up
  /\ sk[s].pc \in {"fire", "failed"} => sk[s].state = "FAILED"
  /\ Firing(s) => sk[s].listener
  /\ sk[s].listener => s = sock
  /\ Active(s) => s = sock /\ (sk[s].listener \/ Has(s, "CLOSE"))
  /\ Has(s, "CLOSE") => s = sock /\ closer.pc = "closed" /\ ~sk[s].listener
  /\ Has(s, "SHUTDOWN") /\ s = sock => \E t \in Threads : thread[t].pc \in {"prepare", "new"}

\* One thread at a time connects, none once the client is closed, and only
\* when the client's socket is quiet.
ThreadInv ==
  /\ thread["timer"].pc = "idle" \/ thread["user"].pc = "idle"
  /\ closer.pc # "none" => thread["user"].pc = "idle"
  /\ closer.pc \in {"remove", "closed"} => thread["timer"].pc = "idle"
  /\ closer.pc = "remove" => closer.old = sock /\ sock # Null
  /\ \A t \in Threads :
       /\ thread[t].pc \in {"destroy", "remove"} => Quiet
       /\ thread[t].pc = "remove" => thread[t].old = sock /\ sock # Null
       /\ thread[t].pc \in {"prepare", "new"} => \A s \in Socks : ~sk[s].listener
       /\ thread[t].pc \in {"new", "start"} => state = "CONNECTING"
       /\ thread[t].pc = "start" => /\ sock # Null /\ sk[sock].state = "STARTING"
                                    /\ ~sk[sock].started /\ sk[sock].listener
  /\ state = "DISCONNECTED" /\ closer.pc \in {"none", "join", "unlisten"} => Quiet
  /\ isConnected /\ sock # Null /\ sk[sock].state # "none" => sk[sock].up

HubInv == (\A s \in Socks : SockInv(s)) /\ ThreadInv /\ NoGhosts

\* HubInv gives the type invariant its relation between a socket's states.
LEMMA InvType == HubTypes /\ HubInv => TypeOK
<1> SUFFICES ASSUME HubTypes, HubInv PROVE TypeOK
  OBVIOUS
<1>1. ASSUME NEW s \in Socks
      PROVE  /\ sk[s].state \in {"none", "STARTING", "RUNNING", "FAILED"}
             /\ sk[s].listener => sk[s].state # "none"
             /\ sk[s].pc = "connecting" => sk[s].state = "RUNNING"
             /\ sk[s].pc \in {"fire", "failed"} => sk[s].state = "FAILED"
  BY DEF HubTypes, SockType, HubInv, SockInv
<1> QED BY <1>1 DEF HubTypes, TypeOK

LEMMA InitInv == Init => HubInv
<1> SUFFICES ASSUME Init PROVE HubInv
  OBVIOUS
<1>1. \A s \in Socks : sk[s] = NoSock
  BY DEF Init
<1>2. \A s \in Socks : SockInv(s)
  BY <1>1 DEF NoSock, SockInv, Firing, Active, Has, In
<1>3. thread["timer"].pc = "idle" /\ thread["user"].pc = "destroy"
  BY DEF Init, NoThread
<1>4. Quiet
  BY <1>1 DEF Quiet, NoSock
<1>5. ThreadInv
  BY <1>1, <1>3, <1>4 DEF Init, ThreadInv, Threads, isConnected
<1> QED BY <1>2, <1>5 DEF Init, HubInv, NoGhosts

-----------------------------------------------------------------------------
(* The tasks of a socket.                                                  *)

LEMMA InAppend ==
  ASSUME NEW T, NEW q \in Seq(T), NEW e \in T, NEW a
  PROVE  In(a, Append(q, e)) <=> In(a, q) \/ a = e
<1>1. /\ DOMAIN Append(q, e) = 1..Len(q) + 1 /\ DOMAIN q = 1..Len(q) /\ Len(q) \in Nat
      /\ \A n \in 1..Len(q) : Append(q, e)[n] = q[n]
      /\ Append(q, e)[Len(q) + 1] = e
  OBVIOUS
<1> QED BY <1>1 DEF In

LEMMA InTail ==
  ASSUME NEW T, NEW q \in Seq(T), q # << >>, NEW a
  PROVE  /\ Tail(q) \in Seq(T)
         /\ In(a, q) <=> Head(q) = a \/ In(a, Tail(q))
<1>1. /\ Tail(q) \in Seq(T) /\ Head(q) = q[1]
      /\ DOMAIN Tail(q) = 1..Len(q) - 1 /\ DOMAIN q = 1..Len(q)
      /\ Len(q) \in Nat \ {0}
      /\ \A n \in 1..Len(q) - 1 : Tail(q)[n] = q[n + 1]
  OBVIOUS
<1>2. ASSUME In(a, q), Head(q) # a PROVE In(a, Tail(q))
  <2>1. PICK n \in 1..Len(q) : q[n] = a
    BY <1>1, <1>2 DEF In
  <2>2. n - 1 \in 1..Len(q) - 1 /\ Tail(q)[n - 1] = a
    BY <1>1, <1>2, <2>1
  <2> QED BY <1>1, <2>2 DEF In
<1>3. ASSUME In(a, Tail(q)) PROVE In(a, q)
  <2>1. PICK n \in 1..Len(q) - 1 : Tail(q)[n] = a
    BY <1>1, <1>3 DEF In
  <2> QED BY <1>1, <2>1 DEF In
<1>4. Head(q) = a => In(a, q)
  BY <1>1 DEF In
<1> QED BY <1>1, <1>2, <1>3, <1>4

-----------------------------------------------------------------------------
(* Steps that leave the client's socket and its threads alone.             *)

\* An event of s is under way, or one can come.
Busy(s) == sk[s].listener /\ (Active(s) \/ sk[s].pc # "idle")

\* Nobody connects while that is so.
LEMMA BusyIdle ==
  ASSUME HubTypes, HubInv, NEW s \in Socks, Busy(s)
  PROVE  \A t \in Threads : thread[t].pc = "idle"
<1> SUFFICES ASSUME NEW t \in Threads, thread[t].pc # "idle" PROVE FALSE
  OBVIOUS
<1>1. SockInv(s) /\ s = sock
  BY DEF HubInv, SockInv, Busy
<1>2. thread[t].pc \in {"destroy", "remove", "prepare", "new", "start"}
  BY DEF HubTypes, ThreadType
<1>3. CASE thread[t].pc \in {"destroy", "remove"}
  BY <1>3 DEF HubInv, ThreadInv, Quiet, Busy
<1>4. CASE thread[t].pc \in {"prepare", "new"}
  BY <1>4 DEF HubInv, ThreadInv, Busy
<1>5. CASE thread[t].pc = "start"
  BY <1>1, <1>5 DEF HubInv, ThreadInv, Busy, SockInv, Active
<1> QED BY <1>2, <1>3, <1>4, <1>5

\* The state is left alone or written by an event.
StateMoves ==
  state' # state =>
    /\ \E s \in Socks : Busy(s)
    /\ state' = "DISCONNECTED" => Quiet'
    /\ isConnected' /\ sock # Null => sk'[sock].up

\* Users come and the hub is counted only over a connection that runs.
GhostMoves ==
  users' \/ counted' =>
    users \/ counted \/ (sock # Null /\ sk[sock].up /\ sk[sock].state = "RUNNING")

\* What the invariant sees of a socket is the same in r and in q.
Alike(r, q) ==
  /\ q.state = r.state /\ q.pc = r.pc /\ q.listener = r.listener
  /\ q.up = r.up /\ q.started = r.started
  /\ In("CLOSE", q.tasks) <=> In("CLOSE", r.tasks)
  /\ In("SHUTDOWN", q.tasks) => In("SHUTDOWN", r.tasks)
  /\ r.state = "none" => q.tasks = r.tasks
Same(x) == Alike(sk[x], sk'[x])

\* The thread of s goes on, without touching the listener.
Moves(s) ==
  /\ \A x \in Socks \ {s} : Same(x)
  /\ sk'[s].listener = sk[s].listener /\ sk'[s].started = sk[s].started
  /\ Active(s)' => Active(s)
  /\ sk[s].pc = "idle" /\ ~Active(s) => sk'[s].pc = "idle"
  /\ ~sk[s].started => sk'[s].state = sk[s].state
  /\ sk'[s].state = "none" <=> sk[s].state = "none"
  /\ sk[s].up => sk'[s].up

Stays == sock' = sock /\ thread' = thread /\ closer' = closer

LEMMA MovesThread ==
  ASSUME HubTypes, HubInv, NEW s \in Socks, Stays, StateMoves, Moves(s)
  PROVE  ThreadInv'
<1>1. \A x \in Socks : sk'[x].listener = sk[x].listener
  BY DEF Moves, Same, Alike
<1>2. Quiet => Quiet'
  BY <1>1 DEF Quiet, Moves, Same, Alike, Active
<1>3. ASSUME NEW t \in Threads, thread[t].pc = "start"
      PROVE  /\ sock # Null /\ sk'[sock].state = "STARTING"
             /\ ~sk'[sock].started /\ sk'[sock].listener
  BY <1>1, <1>3 DEF HubInv, ThreadInv, HubTypes, Moves, Same, Alike
<1>4. ASSUME NEW t \in Threads, thread[t].pc \in {"new", "start"}
      PROVE  state' = "CONNECTING"
  BY <1>4, BusyIdle DEF HubInv, ThreadInv, StateMoves
<1>5. isConnected' /\ sock # Null /\ sk'[sock].state # "none" => sk'[sock].up
  BY DEF HubInv, ThreadInv, HubTypes, Moves, Same, Alike, StateMoves, isConnected
<1>6. state' = "DISCONNECTED" /\ closer.pc \in {"none", "join", "unlisten"} => Quiet'
  BY <1>2 DEF HubInv, ThreadInv, StateMoves
<1> QED BY <1>1, <1>2, <1>3, <1>4, <1>5, <1>6 DEF Stays, HubInv, ThreadInv

LEMMA SameSock ==
  ASSUME HubInv, Stays, NEW x \in Socks, Same(x)
  PROVE  SockInv(x)'
BY DEF HubInv, Stays, Same, Alike, SockInv, Firing, Active, Has

\* A step that only posts, tells or writes the client's own variables.
LEMMA PostsInv ==
  ASSUME HubTypes, HubInv, Stays, StateMoves, GhostMoves, \A x \in Socks : Same(x)
  PROVE  HubInv'
<1>1. \A x \in Socks : SockInv(x)'
  BY SameSock
<1>2. ThreadInv'
  <2>1. CASE Socks = {}
    BY <2>1 DEF Stays, HubInv, ThreadInv, HubTypes, StateMoves, Quiet, isConnected
  <2>2. ASSUME NEW s \in Socks PROVE Moves(s)
    BY DEF Moves, Same, Alike, Active
  <2> QED BY <2>1, <2>2, MovesThread
<1>3. NoGhosts'
  <2> SUFFICES ASSUME users' \/ counted' 
               PROVE  /\ sock # Null /\ sk[sock].up
                      /\ \/ sk[sock].listener /\ (sk[sock].state = "RUNNING" \/ sk[sock].pc = "fire")
                         \/ Has(sock, "CLOSE")
    BY DEF NoGhosts, Stays, Same, Alike, HubTypes, Has, In
  <2>1. CASE users \/ counted
    BY <2>1 DEF HubInv, NoGhosts, Has, In
  <2>2. CASE sock # Null /\ sk[sock].up /\ sk[sock].state = "RUNNING"
    <3>1. sock \in Socks /\ SockInv(sock)
      BY <2>2 DEF HubTypes, HubInv
    <3> QED BY <2>2, <3>1 DEF SockInv, Active
  <2> QED BY <2>1, <2>2 DEF GhostMoves
<1> QED BY <1>1, <1>2, <1>3 DEF HubInv

Tasks == {"CONNECT", "DISCONNECT", "INFO", "SHUTDOWN", "CLOSE"}

\* Giving a socket a task that does not end it, ...
LEMMA AppendFacts ==
  ASSUME NEW q \in [Socks -> SockType], NEW s \in Socks, q[s].state # "none",
         NEW task \in {"DISCONNECT", "INFO"}, NEW b \in BOOLEAN, NEW r,
         r = [q EXCEPT ![s].tasks = Append(@, task), ![s].disconnecting = b]
  PROVE  /\ r \in [Socks -> SockType]
         /\ \A x \in Socks : Alike(q[x], r[x])
<1>1. q[s] \in SockType /\ q[s].tasks \in Seq(Tasks) /\ task \in Tasks
  BY DEF SockType, Tasks
<1>2. Append(q[s].tasks, task) \in Seq(Tasks)
  BY <1>1
<1>3. [q[s] EXCEPT !.tasks = Append(@, task), !.disconnecting = b] \in SockType
  BY <1>1, <1>2 DEF SockType, Tasks
<1>4. \A a \in {"CLOSE", "SHUTDOWN"} : In(a, Append(q[s].tasks, task)) <=> In(a, q[s].tasks)
  BY <1>1, InAppend
<1>5. Alike(q[s], r[s])
  BY <1>1, <1>4 DEF Alike, SockType
<1> QED BY <1>3, <1>5 DEF Alike

LEMMA PostsFacts ==
  ASSUME HubTypes, NEW task \in {"DISCONNECT", "INFO"}, NEW graceless \in BOOLEAN
  PROVE  /\ Posts(sock, task, graceless) \in [Socks -> SockType]
         /\ \A x \in Socks : Alike(sk[x], Posts(sock, task, graceless)[x])
<1> DEFINE q == Posts(sock, task, graceless)
<1>1. CASE sock = Null \/ sk[sock].state = "none"
  <2>1. q = sk
    BY <1>1 DEF Posts
  <2> QED BY <2>1 DEF HubTypes, Alike
<1>2. CASE sock # Null /\ sk[sock].state # "none"
  <2>1. sock \in Socks /\ sk \in [Socks -> SockType]
    BY <1>2 DEF HubTypes
  <2>2. (sk[sock].disconnecting \/ graceless) \in BOOLEAN
    OBVIOUS
  <2>3. q = [sk EXCEPT ![sock].tasks = Append(@, task),
                       ![sock].disconnecting = (sk[sock].disconnecting \/ graceless)]
    BY <1>2, <2>1 DEF Posts
  <2> QED BY <1>2, <2>1, <2>2, <2>3, AppendFacts
<1> QED BY <1>1, <1>2

\* Telling the hub changes nothing else, ...
LEMMA TellsFacts ==
  ASSUME HubTypes, NEW q \in [Socks -> SockType]
  PROVE  /\ Tells(q) \in [Socks -> SockType]
         /\ \A x \in Socks : Alike(q[x], Tells(q)[x])
<1>1. CASE sock # Null /\ ~q[sock].forbidden /\ lastInfo # info
  <2>1. Tells(q) = [q EXCEPT ![sock].told = info]
    BY <1>1 DEF Tells
  <2>2. info \in 0..MaxInfo /\ sock \in Socks
    BY <1>1 DEF HubTypes
  <2>3. [q[sock] EXCEPT !.told = info] \in SockType
    BY <2>2 DEF SockType
  <2>4. Alike(q[sock], Tells(q)[sock])
    BY <2>1, <2>2 DEF SockType, Alike
  <2> QED BY <2>1, <2>2, <2>3, <2>4 DEF Alike
<1>2. CASE ~(sock # Null /\ ~q[sock].forbidden /\ lastInfo # info)
  BY <1>2 DEF Tells, Alike
<1> QED BY <1>1, <1>2

\* ... and neither does taking a task that does not end the socket.
LEMMA PoppedFacts ==
  ASSUME HubTypes, HubInv, NEW s \in Socks, NEW task \in {"CONNECT", "DISCONNECT", "INFO"},
         Next1(s, task)
  PROVE  /\ Popped(s) \in [Socks -> SockType]
         /\ \A x \in Socks : Alike(sk[x], Popped(s)[x])
         /\ sk[s].state # "none" /\ sk[s].started /\ sk[s].pc = "idle"
<1>1. /\ sk[s].tasks # << >> /\ Head(sk[s].tasks) = task
      /\ sk[s].started /\ sk[s].pc = "idle" /\ sk[s] \in SockType
  BY DEF Next1, idle, HubTypes
<1>2. sk[s].state # "none"
  BY <1>1 DEF HubInv, SockInv
<1>3. /\ Tail(sk[s].tasks) \in Seq(Tasks)
      /\ \A a \in {"CLOSE", "SHUTDOWN"} : In(a, Tail(sk[s].tasks)) <=> In(a, sk[s].tasks)
  BY <1>1, InTail DEF SockType, Tasks
<1>4. Popped(s) \in [Socks -> SockType]
  BY <1>1, <1>3 DEF Popped, HubTypes, SockType, Tasks
<1>5. \A x \in Socks \ {s} : Popped(s)[x] = sk[x]
  BY DEF Popped, HubTypes
<1>6. Alike(sk[s], Popped(s)[s])
  BY <1>1, <1>2, <1>3 DEF Popped, HubTypes, SockType, Alike
<1> QED BY <1>1, <1>2, <1>4, <1>5, <1>6 DEF Alike

LEMMA AlikeTransitive ==
  ASSUME NEW p, NEW q, NEW r, Alike(p, q), Alike(q, r)
  PROVE  Alike(p, r)
BY DEF Alike

-----------------------------------------------------------------------------
(* The client's calls, and lines that leave the socket's thread alone.     *)

LEMMA LineFacts ==
  ASSUME HubTypes, HubInv, NEW s \in Socks, Line(s)
  PROVE  /\ s = sock /\ sock # Null /\ Busy(s) /\ Active(s)
         /\ sk[s].pc = "idle" /\ sk[s].state = "RUNNING" /\ sk[s].up /\ sk[s].started
BY HubAssumption DEF Line, idle, is, HubInv, SockInv, Busy, Active

LEMMA CallSteps ==
  ASSUME HubTypes, HubInv, reconnect \/ myInfoUpdated \/ Minute \/ HbriEnds \/ UNCHANGED vars
  PROVE  HubTypes' /\ HubInv'
<1>1. CASE reconnect
  <2>0. asked' \in BOOLEAN
    BY <1>1 DEF reconnect
  <2>1. /\ sk' = Posts(sock, "DISCONNECT", TRUE) /\ auto' = TRUE
        /\ UNCHANGED <<state, sock, users, counted, info, lastInfo, thread, closer>>
    BY <1>1 DEF reconnect, hub
  <2>2. sk' \in [Socks -> SockType] /\ \A x \in Socks : Same(x)
    BY <2>1, PostsFacts DEF Same
  <2>3. HubTypes'
    BY <2>0, <2>1, <2>2 DEF HubTypes
  <2> QED BY <2>1, <2>2, <2>3, PostsInv DEF Stays, StateMoves, GhostMoves
<1>2. CASE myInfoUpdated
  <2>1. /\ sk' = Posts(sock, "INFO", FALSE) \/ sk' = sk
        /\ info < MaxInfo /\ info' = info + 1
        /\ UNCHANGED <<state, sock, auto, users, counted, lastInfo, thread, closer, asked>>
    BY <1>2 DEF myInfoUpdated, client
  <2>2. sk' \in [Socks -> SockType] /\ \A x \in Socks : Same(x)
    <3>1. CASE sk' = Posts(sock, "INFO", FALSE)
      BY <3>1, PostsFacts DEF Same
    <3>2. CASE sk' = sk
      BY <3>2 DEF Same, Alike, HubTypes
    <3> QED BY <2>1, <3>1, <3>2
  <2>3. info' \in 1..MaxInfo
    BY <2>1, HubAssumption DEF HubTypes
  <2>4. HubTypes'
    BY <2>1, <2>2, <2>3 DEF HubTypes
  <2> QED BY <2>1, <2>2, <2>4, PostsInv DEF Stays, StateMoves, GhostMoves
<1>3. CASE Minute
  <2>1. /\ sk' = Posts(sock, "INFO", FALSE)
        /\ UNCHANGED <<state, sock, auto, users, counted, info, lastInfo, thread, closer, asked>>
    BY <1>3 DEF Minute, client, hub
  <2>2. sk' \in [Socks -> SockType] /\ \A x \in Socks : Same(x)
    BY <2>1, PostsFacts DEF Same
  <2>3. HubTypes'
    BY <2>1, <2>2 DEF HubTypes
  <2> QED BY <2>1, <2>2, <2>3, PostsInv DEF Stays, StateMoves, GhostMoves
<1>4. CASE HbriEnds \/ UNCHANGED vars
  <2>1. UNCHANGED <<client, hub, sk, thread, closer, asked>>
    BY <1>4 DEF HbriEnds, vars
  <2>2. HubTypes' /\ \A x \in Socks : Same(x)
    BY <2>1 DEF client, hub, HubTypes, Same, Alike
  <2> QED BY <2>1, <2>2, PostsInv DEF Stays, StateMoves, GhostMoves, client, hub
<1> QED BY <1>1, <1>2, <1>3, <1>4

\* Lines that only write the client's variables or post.
LEMMA LineSteps ==
  ASSUME HubTypes, HubInv, NEW s \in Socks, NEW b \in BOOLEAN,
         SID(s) \/ INF(s) \/ UserQuits(s) \/ GPA(s) \/ Forbid(s) \/ QUI(s, b) \/ Leave(s, b)
  PROVE  HubTypes' /\ HubInv'
<1>1. /\ s = sock /\ sock # Null /\ Busy(s) /\ Line(s)
      /\ sk[s].up /\ sk[s].state = "RUNNING"
      /\ sock' = sock /\ counted' = counted /\ info' = info /\ thread' = thread
      /\ closer' = closer /\ asked' = asked
  BY LineFacts DEF SID, INF, UserQuits, GPA, Forbid, QUI, Leave, hub
<1>2. sk' \in [Socks -> SockType] /\ \A x \in Socks : Same(x)
  <2>1. CASE SID(s)
    BY <2>1, TellsFacts DEF SID, HubTypes, Same
  <2>2. CASE INF(s) \/ UserQuits(s) \/ GPA(s) \/ QUI(s, b)
    BY <2>2 DEF INF, UserQuits, GPA, QUI, HubTypes, Same, Alike
  <2>3. CASE Leave(s, b)
    BY <2>3, PostsFacts DEF Leave, Same
  <2>4. CASE Forbid(s)
    <3>1. sk' = [sk EXCEPT ![s].forbidden = TRUE] /\ sk[s] \in SockType
      BY <2>4 DEF Forbid, HubTypes
    <3>2. [sk[s] EXCEPT !.forbidden = TRUE] \in SockType
      BY <3>1 DEF SockType
    <3>3. Same(s)
      BY <3>1 DEF HubTypes, SockType, Same, Alike
    <3> QED BY <3>1, <3>2, <3>3 DEF HubTypes, Same, Alike
  <2> QED BY <2>1, <2>2, <2>3, <2>4
<1>3. /\ state' \in {state, "IDENTIFY", "VERIFY"} /\ auto' \in BOOLEAN /\ users' \in BOOLEAN
      /\ lastInfo' \in {lastInfo, info}
  BY DEF SID, INF, UserQuits, GPA, Forbid, QUI, Leave, hub, HubTypes
<1>4. HubTypes'
  BY <1>1, <1>2, <1>3 DEF HubTypes
<1>5. StateMoves
  BY <1>1, <1>2, <1>3 DEF StateMoves, Same, Alike
<1> QED BY <1>1, <1>2, <1>4, <1>5, PostsInv DEF Stays, GhostMoves

\* Client::info in the thread of the socket.
LEMMA InfoStep ==
  ASSUME HubTypes, HubInv, NEW s \in Socks, INFO(s)
  PROVE  HubTypes' /\ HubInv'
<1>1. /\ Next1(s, "INFO")
      /\ UNCHANGED <<state, sock, users, info, thread, closer, asked>>
  BY DEF INFO
<1>2. /\ Popped(s) \in [Socks -> SockType]
      /\ \A x \in Socks : Alike(sk[x], Popped(s)[x])
      /\ sk[s].state # "none" /\ sk[s].started
  BY <1>1, PoppedFacts
<1>3. CASE is(s, "RUNNING") /\ state \in {"IDENTIFY", "NORMAL"}
  <2>1. s = sock /\ sock # Null /\ sk[sock].up /\ sk[sock].state = "RUNNING"
    BY <1>2, <1>3, HubAssumption DEF is, HubInv, SockInv, ThreadInv, Active, isConnected
  <2>2. PICK ok \in BOOLEAN :
          /\ counted' = IF state = "NORMAL" THEN ok ELSE counted
          /\ auto' = (auto /\ ok)
          /\ lastInfo' = IF ok THEN info ELSE lastInfo
          /\ sk' = IF ok THEN Tells(Popped(s))
                   ELSE [Popped(s) EXCEPT ![sock].tasks = Append(@, "DISCONNECT"),
                                          ![sock].disconnecting = TRUE]
    BY <1>3 DEF INFO
  <2>3. counted' \in BOOLEAN /\ auto' \in BOOLEAN
    BY <2>2 DEF HubTypes
  <2>4. lastInfo' \in 0..MaxInfo
    BY <2>2 DEF HubTypes
  <2>5. sk' \in [Socks -> SockType] /\ \A x \in Socks : Alike(Popped(s)[x], sk'[x])
    <3>1. CASE ok
      BY <1>2, <2>2, <3>1, TellsFacts
    <3>2. CASE ~ok
      <4>1. Popped(s)[sock].state # "none"
        BY <1>2, <2>1 DEF Alike
      <4>2. sk' = [Popped(s) EXCEPT ![sock].tasks = Append(@, "DISCONNECT"),
                                    ![sock].disconnecting = TRUE]
        BY <2>2, <3>2
      <4>3. sock \in Socks /\ TRUE \in BOOLEAN /\ "DISCONNECT" \in {"DISCONNECT", "INFO"}
        BY <2>1
      <4>4. Popped(s) \in [Socks -> SockType]
        BY <1>2
      <4> QED BY <4>1, <4>2, <4>3, <4>4, AppendFacts
    <3> QED BY <3>1, <3>2
  <2>6. \A x \in Socks : Same(x)
    BY <1>2, <2>5, AlikeTransitive DEF Same
  <2>7. HubTypes'
    BY <1>1, <2>3, <2>4, <2>5 DEF HubTypes
  <2> QED BY <1>1, <2>1, <2>6, <2>7, PostsInv DEF Stays, StateMoves, GhostMoves
<1>4. CASE ~(is(s, "RUNNING") /\ state \in {"IDENTIFY", "NORMAL"})
  <2>1. sk' = Popped(s) /\ UNCHANGED <<counted, auto, lastInfo>>
    BY <1>4 DEF INFO
  <2>2. \A x \in Socks : Same(x)
    BY <1>2, <2>1 DEF Same
  <2>3. HubTypes'
    BY <1>1, <1>2, <2>1 DEF HubTypes
  <2> QED BY <1>1, <2>1, <2>2, <2>3, PostsInv DEF Stays, StateMoves, GhostMoves
<1> QED BY <1>3, <1>4

-----------------------------------------------------------------------------
(* A step of a socket's thread.                                            *)

\* The step preserves the invariant if it does so for the socket itself and
\* leaves no ghosts there.
LEMMA MovesInv ==
  ASSUME HubTypes, HubInv, NEW s \in Socks, Stays, StateMoves, Moves(s), SockInv(s)',
         users' \/ counted' => users \/ counted \/ s = sock,
         s = sock => NoGhosts'
  PROVE  HubInv'
<1>1. \A x \in Socks : SockInv(x)'
  BY SameSock DEF Moves
<1>2. ThreadInv'
  BY MovesThread
<1>3. CASE s # sock
  <2> SUFFICES ASSUME users' \/ counted' PROVE NoGhosts'
    BY <1>1, <1>2 DEF HubInv, NoGhosts
  <2>1. /\ sock \in Socks /\ sk[sock].up
        /\ \/ sk[sock].listener /\ (sk[sock].state = "RUNNING" \/ sk[sock].pc = "fire")
           \/ In("CLOSE", sk[sock].tasks)
    BY <1>3 DEF HubInv, NoGhosts, In, HubTypes
  <2>2. Alike(sk[sock], sk'[sock])
    BY <1>3, <2>1 DEF Moves, Same
  <2> QED BY <2>1, <2>2, HubAssumption DEF Alike, Stays, NoGhosts, In
<1> QED BY <1>1, <1>2, <1>3 DEF HubInv

\* The thread of s puts it in state st, goes to p, and the connection is up or
\* not (u); the tasks that end it are what they were.
Acts(s, st, p, u) ==
  /\ sk' \in [Socks -> SockType]
  /\ \A x \in Socks \ {s} : Same(x)
  /\ sk'[s].state = st /\ sk'[s].pc = p /\ sk'[s].up = u
  /\ sk'[s].listener = sk[s].listener /\ sk'[s].started = sk[s].started
  /\ Has(s, "CLOSE")' <=> Has(s, "CLOSE")
  /\ Has(s, "SHUTDOWN")' => Has(s, "SHUTDOWN")

LEMMA ActsFacts ==
  ASSUME HubTypes, NEW s \in Socks, NEW q \in [Socks -> SockType],
         \A x \in Socks : Alike(sk[x], q[x]),
         NEW st \in {"none", "STARTING", "RUNNING", "FAILED"},
         NEW p \in {"idle", "connecting", "fire", "failed", "join", "joinTCP", "closing"},
         NEW u \in BOOLEAN,
         sk' = [q EXCEPT ![s] = [q[s] EXCEPT !.state = st, !.pc = p, !.up = u]]
  PROVE  Acts(s, st, p, u)
<1>1. q[s] \in SockType
  OBVIOUS
<1>2. [q[s] EXCEPT !.state = st, !.pc = p, !.up = u] \in SockType
  BY <1>1 DEF SockType
<1>3. sk' \in [Socks -> SockType] /\ \A x \in Socks \ {s} : sk'[x] = q[x]
  BY <1>2
<1>4. /\ sk'[s].state = st /\ sk'[s].pc = p /\ sk'[s].up = u /\ sk'[s].tasks = q[s].tasks
      /\ sk'[s].listener = q[s].listener /\ sk'[s].started = q[s].started
  BY <1>1 DEF SockType
<1> QED BY <1>3, <1>4 DEF Acts, Same, Alike, Has

\* Such a step keeps the invariant when the place and the state go together.
LEMMA ActsInv ==
  ASSUME HubTypes, HubInv, NEW s \in Socks, NEW st, NEW p, NEW u \in BOOLEAN,
         Acts(s, st, p, u), Stays, StateMoves,
         sk[s].started, st # "none",
         st = "STARTING" => sk[s].state = "STARTING" /\ ~u /\ p = "idle",
         st = "RUNNING" => sk[s].state \in {"STARTING", "RUNNING"},
         p = "connecting" => st = "RUNNING" /\ ~u,
         p \in {"fire", "failed"} => st = "FAILED",
         p \in {"failed", "join", "joinTCP", "closing"} => sk[s].listener,
         p # "idle" => sk[s].pc # "idle" \/ Active(s),
         sk[s].up => u,
         users' \/ counted' =>
           \/ s # sock /\ (users \/ counted)
           \/ /\ s = sock /\ u
              /\ \/ sk[s].listener /\ (st = "RUNNING" \/ p = "fire")
                 \/ Has(s, "CLOSE")
  PROVE  HubInv'
<1>1. SockInv(s) /\ sk[s].state # "none"
  BY DEF HubInv, SockInv
<1>2. SockInv(s)'
  BY <1>1 DEF Acts, Stays, SockInv, Firing, Active
<1>3. Moves(s)
  BY <1>1 DEF Acts, Moves, Active
<1>4. s = sock => NoGhosts'
  BY HubAssumption DEF Acts, Stays, NoGhosts, Has, In
<1> QED BY <1>2, <1>3, <1>4, MovesInv

\* CONNECT and DISCONNECT.
LEMMA TaskSteps ==
  ASSUME HubTypes, HubInv, NEW s \in Socks, CONNECT(s) \/ DISCONNECT(s)
  PROVE  HubTypes' /\ HubInv'
<1>1. /\ UNCHANGED <<state, sock, auto, users, counted, info, lastInfo, thread, closer, asked>>
      /\ Next1(s, "CONNECT") \/ Next1(s, "DISCONNECT")
  BY DEF CONNECT, DISCONNECT, client, hub
<1>2. /\ Popped(s) \in [Socks -> SockType]
      /\ \A x \in Socks : Alike(sk[x], Popped(s)[x])
      /\ sk[s].state # "none" /\ sk[s].started /\ sk[s].pc = "idle"
  BY <1>1, PoppedFacts
<1>3. /\ Popped(s)[s] \in SockType /\ Popped(s)[s].up = sk[s].up
      /\ sk[s].up \in BOOLEAN /\ SockInv(s)
  BY <1>2 DEF Alike, HubTypes, SockType, HubInv
<1>4. CASE sk' = Popped(s)
  <2>1. HubTypes'
    BY <1>1, <1>2, <1>4 DEF HubTypes
  <2> QED BY <1>1, <1>2, <1>4, <2>1, PostsInv DEF Same, Stays, StateMoves, GhostMoves
<1>5. ASSUME NEW st \in {"RUNNING", "FAILED"}, NEW p \in {"connecting", "fire"},
             sk' = [Popped(s) EXCEPT ![s] = [Popped(s)[s] EXCEPT !.state = st, !.pc = p, !.up = sk[s].up]],
             \/ st = "RUNNING" /\ p = "connecting" /\ sk[s].state = "STARTING"
             \/ st = "FAILED" /\ p = "fire" /\ sk[s].state = "RUNNING"
      PROVE  HubTypes' /\ HubInv'
  <2>1. Acts(s, st, p, sk[s].up)
    BY <1>2, <1>3, <1>5, ActsFacts
  <2>2. HubTypes'
    BY <1>1, <2>1 DEF HubTypes, Acts
  <2>3. ~sk[s].up \/ st # "RUNNING"
    BY <1>3, <1>5 DEF SockInv
  <2>4. users \/ counted => s # sock \/ (sk[s].up /\ (sk[s].listener \/ Has(s, "CLOSE")))
    BY DEF HubInv, NoGhosts, Has, In
  <2>5. users \/ counted =>
           \/ s # sock /\ (users \/ counted)
           \/ /\ s = sock /\ sk[s].up
              /\ \/ sk[s].listener /\ (st = "RUNNING" \/ p = "fire")
                 \/ Has(s, "CLOSE")
    BY <1>3, <1>5, <2>4 DEF SockInv
  <2> QED BY <1>1, <1>2, <1>3, <1>5, <2>1, <2>2, <2>3, <2>5, ActsInv DEF Stays, StateMoves, Active
<1>6. CASE CONNECT(s)
  <2>1. CASE is(s, "STARTING")
    <3>1. sk' = [Popped(s) EXCEPT ![s].state = "RUNNING", ![s].pc = "connecting"]
      BY <1>2, <1>6, <2>1 DEF CONNECT
    <3>2. sk' = [Popped(s) EXCEPT ![s] =
                   [Popped(s)[s] EXCEPT !.state = "RUNNING", !.pc = "connecting", !.up = sk[s].up]]
      BY <1>2, <1>3, <3>1 DEF SockType
    <3> QED BY <1>5, <2>1, <3>2 DEF is
  <2>2. CASE ~is(s, "STARTING")
    <3>1. sk' = [Popped(s) EXCEPT ![s].state = @, ![s].pc = @]
      BY <1>6, <2>2 DEF CONNECT
    <3> QED BY <1>2, <1>3, <1>4, <3>1 DEF SockType
  <2> QED BY <2>1, <2>2
<1>7. CASE DISCONNECT(s)
  <2>1. CASE is(s, "RUNNING")
    <3>1. sk' = [Popped(s) EXCEPT ![s].state = "FAILED", ![s].pc = "fire"]
      BY <1>2, <1>7, <2>1 DEF DISCONNECT
    <3>2. sk' = [Popped(s) EXCEPT ![s] =
                   [Popped(s)[s] EXCEPT !.state = "FAILED", !.pc = "fire", !.up = sk[s].up]]
      BY <1>2, <1>3, <3>1 DEF SockType
    <3> QED BY <1>5, <2>1, <3>2 DEF is
  <2>2. CASE ~is(s, "RUNNING")
    <3>1. sk' = [Popped(s) EXCEPT ![s].state = @, ![s].pc = @]
      BY <1>7, <2>2 DEF DISCONNECT
    <3> QED BY <1>2, <1>3, <1>4, <3>1 DEF SockType
  <2> QED BY <2>1, <2>2
<1> QED BY <1>6, <1>7

\* A socket whose thread is at work has been started.
LEMMA PlaceFacts ==
  ASSUME HubTypes, HubInv, NEW s \in Socks
  PROVE  /\ sk[s] \in SockType /\ SockInv(s) /\ \A x \in Socks : Alike(sk[x], sk[x])
         /\ sk[s].pc # "idle" => sk[s].started
         /\ s = sock /\ (users \/ counted) =>
              /\ sk[s].up
              /\ \/ sk[s].listener /\ (sk[s].state = "RUNNING" \/ sk[s].pc = "fire")
                 \/ Has(s, "CLOSE")
BY HubAssumption DEF HubTypes, HubInv, SockInv, NoGhosts, Alike, Has, In

\* threadConnect, and the end of a connection.
LEMMA ConnectingSteps ==
  ASSUME HubTypes, HubInv, NEW s \in Socks,
         Connected(s) \/ NotConnected(s) \/ GivesUp(s) \/ Breaks(s)
  PROVE  HubTypes' /\ HubInv'
<1>1. /\ UNCHANGED <<sock, auto, users, counted, info, thread, closer, asked>>
  BY DEF Connected, NotConnected, GivesUp, Breaks, client, hub
<1>2. CASE Connected(s)
  <2>1. sk' = [sk EXCEPT ![s] = [sk[s] EXCEPT !.state = sk[s].state, !.pc = "idle", !.up = TRUE]]
    BY <1>2, PlaceFacts DEF Connected, HubTypes, SockType
  <2>2. Acts(s, sk[s].state, "idle", TRUE)
    BY <2>1, PlaceFacts, ActsFacts DEF HubTypes, SockType
  <2>3. sk[s].pc = "connecting" /\ sk[s].state = "RUNNING" /\ ~sk[s].up /\ sk[s].started
    BY <1>2, PlaceFacts DEF Connected, SockInv
  <2>4. /\ state' \in {state, "PROTOCOL"} /\ lastInfo' \in {lastInfo, 0}
        /\ state' # state => sk[s].listener
    BY <1>2 DEF Connected
  <2>5. HubTypes'
    BY <1>1, <2>2, <2>4, HubAssumption DEF HubTypes, Acts
  <2>6. StateMoves
    BY <2>2, <2>3, <2>4, PlaceFacts DEF StateMoves, Busy, Acts, SockInv
  <2> QED BY <1>1, <2>2, <2>3, <2>5, <2>6, PlaceFacts, ActsInv DEF Stays
<1>3. CASE NotConnected(s) \/ Breaks(s)
  <2>1. /\ sk' = [sk EXCEPT ![s] = [sk[s] EXCEPT !.state = "FAILED", !.pc = "fire", !.up = sk[s].up]]
        /\ UNCHANGED <<state, lastInfo>>
    BY <1>3, PlaceFacts DEF NotConnected, Breaks, client, hub, HubTypes, SockType
  <2>2. Acts(s, "FAILED", "fire", sk[s].up) /\ sk[s].up \in BOOLEAN
    BY <2>1, PlaceFacts, ActsFacts DEF HubTypes, SockType
  <2>3. sk[s].started /\ sk[s].state = "RUNNING"
    BY <1>3, PlaceFacts DEF NotConnected, Breaks, idle, is, SockInv
  <2>4. HubTypes'
    BY <1>1, <2>1, <2>2 DEF HubTypes, Acts
  <2> QED BY <1>1, <2>1, <2>2, <2>3, <2>4, PlaceFacts, ActsInv DEF Stays, StateMoves, Active
<1>4. CASE GivesUp(s)
  <2>1. /\ sk' = [sk EXCEPT ![s] = [sk[s] EXCEPT !.state = sk[s].state, !.pc = "idle", !.up = sk[s].up]]
        /\ UNCHANGED <<state, lastInfo>>
    BY <1>4, PlaceFacts DEF GivesUp, client, hub, HubTypes, SockType
  <2>2. Acts(s, sk[s].state, "idle", sk[s].up) /\ sk[s].up \in BOOLEAN
    BY <2>1, PlaceFacts, ActsFacts DEF HubTypes, SockType
  <2>3. sk[s].pc = "connecting" /\ sk[s].state = "RUNNING" /\ ~sk[s].up /\ sk[s].started
    BY <1>4, PlaceFacts DEF GivesUp, SockInv
  <2>4. HubTypes'
    BY <1>1, <2>1, <2>2 DEF HubTypes, Acts
  <2> QED BY <1>1, <2>1, <2>2, <2>3, <2>4, PlaceFacts, ActsInv DEF Stays, StateMoves
<1> QED BY <1>2, <1>3, <1>4

\* The two halves of Client::on(Failed).
LEMMA FailingSteps ==
  ASSUME HubTypes, HubInv, NEW s \in Socks, FailedClears(s) \/ FailedState(s)
  PROVE  HubTypes' /\ HubInv'
<1>1. UNCHANGED <<sock, auto, info, lastInfo, thread, closer, asked>>
  BY DEF FailedClears, FailedState, client, hub
<1>2. CASE FailedClears(s)
  <2> DEFINE p == IF sk[s].listener THEN "failed" ELSE "idle"
  <2>1. sk' = [sk EXCEPT ![s] = [sk[s] EXCEPT !.state = sk[s].state, !.pc = p, !.up = sk[s].up]]
    BY <1>2, PlaceFacts DEF FailedClears, HubTypes, SockType
  <2>2. Acts(s, sk[s].state, p, sk[s].up) /\ sk[s].up \in BOOLEAN
    BY <2>1, PlaceFacts, ActsFacts DEF HubTypes, SockType
  <2>3. sk[s].pc = "fire" /\ sk[s].state = "FAILED" /\ sk[s].started
    BY <1>2, PlaceFacts DEF FailedClears, SockInv
  <2>4. /\ state' = state /\ users' \in BOOLEAN /\ counted' \in BOOLEAN
        /\ users' \/ counted' => ~sk[s].listener /\ (users \/ counted)
    BY <1>2 DEF FailedClears, client, HubTypes
  <2>5. HubTypes'
    BY <1>1, <2>2, <2>4 DEF HubTypes, Acts
  <2> QED BY <1>1, <2>2, <2>3, <2>4, <2>5, PlaceFacts, ActsInv DEF Stays, StateMoves
<1>3. CASE FailedState(s)
  <2>1. sk' = [sk EXCEPT ![s] = [sk[s] EXCEPT !.state = sk[s].state, !.pc = "idle", !.up = sk[s].up]]
    BY <1>3, PlaceFacts DEF FailedState, HubTypes, SockType
  <2>2. Acts(s, sk[s].state, "idle", sk[s].up) /\ sk[s].up \in BOOLEAN
    BY <2>1, PlaceFacts, ActsFacts DEF HubTypes, SockType
  <2>3. /\ sk[s].pc = "failed" /\ sk[s].state = "FAILED" /\ sk[s].started
        /\ sk[s].listener /\ Busy(s)
    BY <1>3, PlaceFacts DEF FailedState, SockInv, Firing, Busy
  <2>4. state' = "DISCONNECTED" /\ UNCHANGED <<users, counted>>
    BY <1>3 DEF FailedState, hub
  <2>5. HubTypes'
    BY <1>1, <2>2, <2>4 DEF HubTypes, Acts
  <2>6. \A x \in Socks : sk[x].listener => x = s
    BY <2>3 DEF HubInv, SockInv
  <2>7. Quiet'
    BY <2>2, <2>3, <2>6 DEF Quiet, Acts, Same, Alike, Active
  <2>8. StateMoves
    BY <2>3, <2>4, <2>7 DEF StateMoves, isConnected
  <2> QED BY <1>1, <2>2, <2>3, <2>4, <2>5, <2>8, PlaceFacts, ActsInv DEF Stays
<1> QED BY <1>2, <1>3

\* A handler that may wait for the HBRI validator.
LEMMA ResetsInv ==
  ASSUME HubTypes, HubInv, NEW s \in Socks, Line(s), Stays,
         NEW q \in [Socks -> SockType], \A x \in Socks : Alike(sk[x], q[x]),
         NEW p \in Joining, sk' = q \/ sk' = [q EXCEPT ![s].pc = p],
         state' \in {state, "NORMAL"},
         auto' \in BOOLEAN, users' \in BOOLEAN, counted' \in BOOLEAN,
         UNCHANGED <<info, lastInfo, asked>>
  PROVE  HubTypes' /\ HubInv'
<1>1. /\ s = sock /\ sock # Null /\ Busy(s) /\ Active(s)
      /\ sk[s].pc = "idle" /\ sk[s].state = "RUNNING" /\ sk[s].up /\ sk[s].started
      /\ sk[s].listener
  BY LineFacts DEF Busy
<1>2. CASE sk' = q
  <2>1. HubTypes' /\ \A x \in Socks : Same(x)
    BY <1>2 DEF HubTypes, Stays, Same
  <2>2. StateMoves /\ GhostMoves
    BY <1>1, <2>1 DEF StateMoves, GhostMoves, Same, Alike
  <2> QED BY <2>1, <2>2, PostsInv
<1>3. CASE sk' = [q EXCEPT ![s].pc = p]
  <2>1. q[s] \in SockType /\ q[s].state = "RUNNING" /\ q[s].up = sk[s].up
    BY <1>1 DEF Alike
  <2>2. sk[s].up \in BOOLEAN
    BY PlaceFacts DEF SockType
  <2>3. sk' = [q EXCEPT ![s] = [q[s] EXCEPT !.state = "RUNNING", !.pc = p, !.up = sk[s].up]]
    BY <1>3, <2>1 DEF SockType
  <2>4. Acts(s, "RUNNING", p, sk[s].up)
    BY <2>2, <2>3, ActsFacts DEF Joining
  <2>5. HubTypes'
    BY <2>4 DEF HubTypes, Acts, Stays
  <2>6. StateMoves
    BY <1>1, <2>4 DEF StateMoves, Acts
  <2> QED BY <1>1, <2>2, <2>4, <2>5, <2>6, ActsInv DEF Joining
<1> QED BY <1>2, <1>3

LEMMA ResettingSteps ==
  ASSUME HubTypes, HubInv, NEW s \in Socks, NEW b \in BOOLEAN,
         OwnINF(s, b) \/ TCP(s, b) \/ resetHBRI(s)
  PROVE  HubTypes' /\ HubInv'
<1>1. CASE OwnINF(s, b)
  <2>1. /\ Line(s) /\ Stays /\ state' = "NORMAL" /\ users' = TRUE
        /\ UNCHANGED <<info, lastInfo, asked>>
    BY <1>1 DEF OwnINF, Stays
  <2>2. PICK ok \in BOOLEAN :
          LET q == IF ok THEN sk ELSE Posts(sock, "DISCONNECT", TRUE) IN
          /\ auto' = (ok /\ (state # "NORMAL" \/ auto)) /\ counted' = ok
          /\ sk' = q \/ sk' = [q EXCEPT ![s].pc = "join"]
    BY <1>1 DEF OwnINF, Resets
  <2> DEFINE q == IF ok THEN sk ELSE Posts(sock, "DISCONNECT", TRUE)
  <2>3. auto' \in BOOLEAN /\ counted' \in BOOLEAN /\ users' \in BOOLEAN
    BY <2>1, <2>2
  <2>4. q \in [Socks -> SockType] /\ \A x \in Socks : Alike(sk[x], q[x])
    BY PostsFacts, PlaceFacts DEF HubTypes
  <2>5. sk' = q \/ sk' = [q EXCEPT ![s].pc = "join"]
    BY <2>2
  <2>6. "join" \in Joining
    BY DEF Joining
  <2> HIDE DEF q
  <2> QED BY <2>1, <2>3, <2>4, <2>5, <2>6, ResetsInv
<1>2. CASE TCP(s, b)
  <2>1. /\ Line(s) /\ Stays /\ UNCHANGED <<state, auto, users, counted, info, lastInfo, asked>>
    BY <1>2 DEF TCP, Stays, hub
  <2>2. PICK p \in Joining : sk' = sk \/ sk' = [sk EXCEPT ![s].pc = p]
    BY <1>2 DEF TCP, Resets, Joining
  <2>3. /\ auto' \in BOOLEAN /\ counted' \in BOOLEAN /\ users' \in BOOLEAN
        /\ sk \in [Socks -> SockType] /\ state' \in {state, "NORMAL"}
    BY <2>1 DEF HubTypes
  <2> QED BY <2>1, <2>2, <2>3, PlaceFacts, ResetsInv
<1>3. CASE resetHBRI(s)
  <2>1. /\ Stays /\ UNCHANGED <<state, auto, users, counted, info, lastInfo, asked>>
        /\ sk[s].pc \in Joining
    BY <1>3 DEF resetHBRI, Stays, client, hub
  <2>2. sk' = [sk EXCEPT ![s] = [sk[s] EXCEPT !.state = sk[s].state, !.pc = "idle", !.up = sk[s].up]]
    BY <1>3, PlaceFacts DEF resetHBRI, HubTypes, SockType
  <2>3. Acts(s, sk[s].state, "idle", sk[s].up) /\ sk[s].up \in BOOLEAN
    BY <2>2, PlaceFacts, ActsFacts DEF HubTypes, SockType
  <2>4. HubTypes'
    BY <2>1, <2>3 DEF HubTypes, Acts, Stays
  <2>5. sk[s].started /\ sk[s].state # "none" /\ sk[s].state # "STARTING" /\ sk[s].pc # "fire"
    BY <2>1, PlaceFacts DEF Joining, SockInv
  <2> QED BY <2>1, <2>3, <2>4, <2>5, PlaceFacts, ActsInv DEF StateMoves
<1> QED BY <1>1, <1>2, <1>3

-----------------------------------------------------------------------------
(* The end of a socket.                                                    *)

LEMMA NoSockFacts ==
  /\ NoSock \in SockType /\ NoSock.state = "none" /\ NoSock.pc = "idle"
  /\ NoSock.tasks = << >> /\ ~NoSock.listener /\ ~NoSock.up /\ ~NoSock.started
  /\ \A a : ~In(a, << >>)
BY HubAssumption DEF NoSock, SockType, In

\* A task at the head of the queue is in the queue.
LEMMA HeadFacts ==
  ASSUME HubTypes, HubInv, NEW s \in Socks, NEW task, Next1(s, task)
  PROVE  /\ Has(s, task) /\ sk[s].started /\ sk[s].pc = "idle" /\ SockInv(s)
<1>1. sk[s].tasks \in Seq(Tasks) /\ sk[s].tasks # << >> /\ Head(sk[s].tasks) = task
  BY PlaceFacts DEF SockType, Tasks, Next1
<1> QED BY <1>1, InTail, PlaceFacts DEF Has, Next1, idle

LEMMA EndSteps ==
  ASSUME HubTypes, HubInv, NEW s \in Socks, SHUTDOWN(s) \/ CLOSE(s)
  PROVE  HubTypes' /\ HubInv'
<1>1. /\ sk' = [sk EXCEPT ![s] = NoSock] /\ sk[s].started /\ sk[s].pc = "idle"
      /\ UNCHANGED <<state, auto, info, lastInfo, thread, closer, asked>>
  BY HeadFacts DEF SHUTDOWN, CLOSE, client, hub
<1>2. /\ sk' \in [Socks -> SockType] /\ sk'[s] = NoSock
      /\ \A x \in Socks \ {s} : sk'[x] = sk[x]
  BY <1>1, NoSockFacts DEF HubTypes
<1>3. Quiet => Quiet'
  BY <1>2, NoSockFacts DEF Quiet, Active
<1>4. CASE SHUTDOWN(s)
  <2>1. UNCHANGED <<sock, users, counted>> /\ Has(s, "SHUTDOWN")
    BY <1>4, HeadFacts DEF SHUTDOWN, client, hub
  <2>2. HubTypes'
    BY <1>1, <1>2, <2>1 DEF HubTypes
  <2>3. SockInv(s)'
    BY <1>2, NoSockFacts DEF SockInv, Firing, Active, Has
  <2>4. ASSUME NEW x \in Socks \ {s} PROVE SockInv(x)'
    BY <1>1, <1>2, <2>1 DEF HubInv, SockInv, Firing, Active, Has
  <2>5. ASSUME NEW t \in Threads, thread[t].pc = "start" PROVE sock # s
    BY <1>1, <2>5 DEF HubInv, ThreadInv
  <2>6. ThreadInv'
    BY <1>1, <1>2, <1>3, <2>1, <2>5, NoSockFacts DEF HubInv, ThreadInv, HubTypes, isConnected
  <2>7. CASE s = sock
    <3>1. PICK t \in Threads : thread[t].pc \in {"prepare", "new"}
      BY <2>1, <2>7 DEF HubInv, SockInv
    <3>2. ~sk[s].listener /\ closer.pc # "closed"
      BY <3>1 DEF HubInv, ThreadInv, Threads
    <3>3. ~Has(s, "CLOSE")
      BY <3>2 DEF HubInv, SockInv
    <3>4. ~(users \/ counted)
      BY <2>7, <3>2, <3>3, PlaceFacts
    <3> QED BY <2>1, <2>2, <2>3, <2>4, <2>6, <3>4 DEF HubInv, NoGhosts
  <2>8. CASE s # sock
    <3>1. sock \in Socks => sk'[sock] = sk[sock]
      BY <1>2, <2>8
    <3>2. NoGhosts'
      BY <2>1, <3>1 DEF HubInv, HubTypes, NoGhosts
    <3> QED BY <2>2, <2>3, <2>4, <2>6, <3>2 DEF HubInv
  <2> QED BY <2>7, <2>8
<1>5. CASE CLOSE(s)
  <2>1. sock' = Null /\ users' = FALSE /\ counted' = FALSE /\ s = sock /\ closer.pc = "closed"
    BY <1>5, HeadFacts DEF CLOSE, SockInv
  <2>2. HubTypes'
    BY <1>1, <1>2, <2>1 DEF HubTypes
  <2>3. SockInv(s)'
    BY <1>2, NoSockFacts DEF SockInv, Firing, Active, Has
  <2>4. ASSUME NEW x \in Socks \ {s} PROVE SockInv(x)'
    BY <1>1, <1>2, <2>1, HubAssumption DEF HubInv, SockInv, Firing, Active, Has
  <2>5. \A t \in Threads : thread[t].pc = "idle"
    BY <2>1 DEF HubInv, ThreadInv, Threads
  <2>6. ThreadInv'
    BY <1>1, <2>1, <2>5 DEF HubInv, ThreadInv, isConnected
  <2> QED BY <2>1, <2>2, <2>3, <2>4, <2>6 DEF HubInv, NoGhosts
<1> QED BY <1>4, <1>5

-----------------------------------------------------------------------------
(* Client::connect.                                                        *)

\* A thread moves on, and the sockets, the client's pointer and its users stay.
LEMMA ThreadMoves ==
  ASSUME HubTypes, HubInv, NEW t \in Threads, NEW r \in ThreadType,
         thread' = [thread EXCEPT ![t] = r],
         UNCHANGED <<sock, sk, users, counted, closer>>,
         thread[t].pc \in {"prepare", "new"} => r.pc \in {"prepare", "new"},
         ThreadInv'
  PROVE  HubInv'
<1>1. (\E u \in Threads : thread[u].pc \in {"prepare", "new"}) =>
        (\E u \in Threads : thread'[u].pc \in {"prepare", "new"})
  BY DEF HubTypes
<1>2. ASSUME NEW x \in Socks PROVE SockInv(x)'
  BY <1>1 DEF HubInv, SockInv, Firing, Active, Has
<1> QED BY <1>2 DEF HubInv, NoGhosts

\* The other thread is idle while t is not.
LEMMA OtherIdle ==
  ASSUME HubTypes, HubInv, NEW t \in Threads, thread[t].pc # "idle", NEW r,
         thread' = [thread EXCEPT ![t] = r]
  PROVE  /\ thread'[t] = r
         /\ \A u \in Threads \ {t} : thread'[u] = thread[u] /\ thread[u].pc = "idle"
         /\ closer.pc \in {"none", "join", "unlisten"}
         /\ t = "user" => closer.pc = "none"
         /\ \A x \in Socks : ~Has(x, "CLOSE")
BY DEF HubTypes, HubInv, ThreadInv, SockInv, Threads

LEMMA BeginSteps ==
  ASSUME HubTypes, HubInv, "overlap" \notin Events, Reconnect \/ allowUntrustedConnect
  PROVE  HubTypes' /\ HubInv'
<1>1. PICK t \in Threads :
        /\ thread[t].pc = "idle" /\ thread[Other(t)].pc = "idle"
        /\ thread' = [thread EXCEPT ![t].pc = "destroy"]
        /\ state = "DISCONNECTED" /\ closer.pc \in {"none", "join", "unlisten"}
        /\ t = "user" => closer.pc = "none"
        /\ UNCHANGED <<client, hub, sk, closer, asked>>
  BY DEF Reconnect, allowUntrustedConnect, Begins, Threads, Open
<1> DEFINE r == [thread[t] EXCEPT !.pc = "destroy"]
<1>2. r \in ThreadType /\ r.pc = "destroy" /\ thread' = [thread EXCEPT ![t] = r]
  BY <1>1 DEF HubTypes, ThreadType
<1> HIDE DEF r
<1>3. thread'[t] = r /\ \A u \in Threads \ {t} : thread'[u] = thread[u] /\ thread[u].pc = "idle"
  BY <1>1, <1>2 DEF HubTypes, Threads, Other
<1>4. UNCHANGED <<state, sock, auto, users, counted, info, lastInfo>>
  BY <1>1 DEF client, hub
<1>5. HubTypes'
  BY <1>1, <1>2, <1>4 DEF HubTypes
<1>6. Quiet'
  BY <1>1 DEF HubInv, ThreadInv, Quiet, Active
<1>7. ThreadInv'
  BY <1>1, <1>2, <1>3, <1>4, <1>6 DEF HubInv, ThreadInv, Threads, isConnected
<1> QED BY <1>1, <1>2, <1>4, <1>5, <1>7, ThreadMoves

LEMMA DestroyStep ==
  ASSUME HubTypes, HubInv, NEW t \in Threads, destroySocket(t) \/ SetConnecting(t)
  PROVE  HubTypes' /\ HubInv'
<1>1. UNCHANGED <<sock, users, counted, info, lastInfo, sk, closer, asked>>
  BY DEF destroySocket, SetConnecting, hub
<1>2. PICK r \in ThreadType :
        /\ thread' = [thread EXCEPT ![t] = r]
        /\ \/ /\ thread[t].pc = "destroy" /\ sock = Null /\ r.pc = "prepare"
              /\ UNCHANGED <<state, auto>>
           \/ /\ thread[t].pc = "destroy" /\ sock # Null /\ r.pc = "remove" /\ r.old = sock
              /\ state' = "DISCONNECTED" /\ UNCHANGED auto
           \/ /\ thread[t].pc = "prepare" /\ r.pc = "new"
              /\ state' = "CONNECTING" /\ auto' = TRUE
  <2>1. CASE destroySocket(t) /\ sock = Null
    <3> DEFINE r == [thread[t] EXCEPT !.pc = "prepare"]
    <3>1. r \in ThreadType /\ r.pc = "prepare" /\ thread' = [thread EXCEPT ![t] = r]
      BY <2>1 DEF destroySocket, goes, HubTypes, ThreadType
    <3> HIDE DEF r
    <3> QED BY <2>1, <3>1 DEF destroySocket, at
  <2>2. CASE destroySocket(t) /\ sock # Null
    <3> DEFINE r == [pc |-> "remove", old |-> sock]
    <3>1. r \in ThreadType /\ r.pc = "remove" /\ r.old = sock
      BY DEF HubTypes, ThreadType
    <3>2. thread' = [thread EXCEPT ![t] = r]
      BY <2>2 DEF destroySocket
    <3> HIDE DEF r
    <3> QED BY <2>2, <3>1, <3>2 DEF destroySocket, at
  <2>3. CASE SetConnecting(t)
    <3> DEFINE r == [thread[t] EXCEPT !.pc = "new"]
    <3>1. r \in ThreadType /\ r.pc = "new" /\ thread' = [thread EXCEPT ![t] = r]
      BY <2>3 DEF SetConnecting, goes, HubTypes, ThreadType
    <3> HIDE DEF r
    <3> QED BY <2>3, <3>1 DEF SetConnecting, at
  <2> QED BY <2>1, <2>2, <2>3
<1>3. /\ thread'[t] = r
      /\ \A u \in Threads \ {t} : thread'[u] = thread[u] /\ thread[u].pc = "idle"
      /\ closer.pc \in {"none", "join", "unlisten"} /\ (t = "user" => closer.pc = "none")
  BY <1>2, OtherIdle
<1>4. HubTypes'
  BY <1>1, <1>2 DEF HubTypes
<1>5. Quiet <=> Quiet'
  BY <1>1 DEF Quiet, Active
<1>6. sock = Null => \A x \in Socks : ~sk[x].listener
  BY HubAssumption DEF HubInv, SockInv
<1>7. ThreadInv'
  BY <1>1, <1>2, <1>3, <1>5, <1>6 DEF HubInv, ThreadInv, Threads, isConnected
<1> QED BY <1>1, <1>2, <1>4, <1>7, ThreadMoves

\* BufferedSocket::putSocket of a socket that exists.
LEMMA PutFacts ==
  ASSUME HubTypes, NEW s \in Socks, sk[s].state # "none", NEW task \in {"SHUTDOWN", "CLOSE"}
  PROVE  /\ Put(s, task) \in [Socks -> SockType]
         /\ \A x \in Socks \ {s} : Put(s, task)[x] = sk[x]
         /\ LET r == Put(s, task)[s] IN
              /\ r.state = sk[s].state /\ r.pc = sk[s].pc /\ r.up = sk[s].up
              /\ r.started = sk[s].started /\ ~r.listener
              /\ \A a : In(a, r.tasks) <=> In(a, sk[s].tasks) \/ a = task
<1>1. /\ sk[s] \in SockType /\ sk[s].tasks \in Seq(Tasks) /\ task \in Tasks
      /\ sk \in [Socks -> SockType]
  BY DEF HubTypes, SockType, Tasks
<1>2. Append(sk[s].tasks, task) \in Seq(Tasks)
  BY <1>1
<1> DEFINE r == [sk[s] EXCEPT !.listener = FALSE, !.disconnecting = TRUE,
                              !.tasks = Append(@, task)]
<1>3. r \in SockType
  BY <1>1, <1>2 DEF SockType, Tasks
<1>4. /\ r.state = sk[s].state /\ r.pc = sk[s].pc /\ r.up = sk[s].up
      /\ r.started = sk[s].started /\ ~r.listener /\ r.tasks = Append(sk[s].tasks, task)
  BY <1>1 DEF SockType
<1>5. Put(s, task) = [sk EXCEPT ![s] = r]
  BY DEF Put
<1>6. \A a : In(a, r.tasks) <=> In(a, sk[s].tasks) \/ a = task
  BY <1>1, <1>4, InAppend
<1> HIDE DEF r
<1> QED BY <1>1, <1>3, <1>4, <1>5, <1>6

LEMMA PutStep ==
  ASSUME HubTypes, HubInv, NEW t \in Threads, putSocket(t)
  PROVE  HubTypes' /\ HubInv'
<1> DEFINE s == sock
<1>1. /\ thread[t].pc = "remove" /\ thread[t].old = s /\ s \in Socks /\ Quiet
  BY DEF putSocket, at, HubInv, ThreadInv, HubTypes
<1>2. /\ sk' = Put(s, "SHUTDOWN")
      /\ UNCHANGED <<state, sock, auto, users, counted, info, lastInfo, closer, asked>>
  BY <1>1 DEF putSocket, client, hub
<1> DEFINE r == [NoThread EXCEPT !.pc = "prepare"]
<1>3. r \in ThreadType /\ r.pc = "prepare"
  BY DEF NoThread, ThreadType
<1>4. thread' = [thread EXCEPT ![t] = r]
  BY DEF putSocket, HubTypes
<1> HIDE DEF r
<1>5. /\ thread'[t] = r
      /\ \A u \in Threads \ {t} : thread'[u] = thread[u] /\ thread[u].pc = "idle"
      /\ closer.pc \in {"none", "join", "unlisten"} /\ (t = "user" => closer.pc = "none")
      /\ \A x \in Socks : ~Has(x, "CLOSE")
  BY <1>1, <1>4, OtherIdle
<1>6. ~(users \/ counted) /\ ~Active(s)
  BY <1>1, <1>5, PlaceFacts DEF Quiet, SockInv, Active
<1>7. /\ sk' \in [Socks -> SockType] /\ \A x \in Socks \ {s} : sk'[x] = sk[x]
      /\ sk'[s].state = sk[s].state /\ sk'[s].pc = sk[s].pc /\ sk'[s].up = sk[s].up
      /\ sk'[s].started = sk[s].started /\ ~sk'[s].listener
      /\ In("CLOSE", sk'[s].tasks) <=> In("CLOSE", sk[s].tasks)
      /\ sk[s].state = "none" => sk'[s].tasks = sk[s].tasks
  <2>1. CASE sk[s].state = "none"
    BY <1>1, <1>2, <2>1, PlaceFacts DEF Put, HubTypes, SockInv
  <2>2. CASE sk[s].state # "none"
    BY <1>1, <1>2, <2>2, PutFacts
  <2> QED BY <2>1, <2>2
<1>8. HubTypes'
  BY <1>2, <1>3, <1>4, <1>7 DEF HubTypes
<1>9. SockInv(s)'
  <2>1. ~Firing(s) /\ SockInv(s)
    BY <1>1, PlaceFacts DEF putSocket
  <2>2. thread'[t].pc \in {"prepare", "new"}
    BY <1>3, <1>5
  <2> QED BY <1>1, <1>2, <1>5, <1>6, <1>7, <2>1, <2>2 DEF SockInv, Firing, Active, Has
<1>10. ASSUME NEW x \in Socks \ {s} PROVE SockInv(x)'
  BY <1>2, <1>7, <1>10 DEF HubInv, SockInv, Firing, Active, Has
<1>11. \A x \in Socks : ~sk'[x].listener
  BY <1>7 DEF HubInv, SockInv
<1>12. ThreadInv'
  <2>1. Quiet'
    BY <1>11 DEF Quiet
  <2>2. isConnected' /\ sock' # Null /\ sk'[sock'].state # "none" => sk'[sock'].up
    BY <1>2, <1>7 DEF HubInv, ThreadInv, isConnected
  <2> QED BY <1>2, <1>3, <1>5, <1>11, <2>1, <2>2 DEF ThreadInv, Threads
<1> QED BY <1>2, <1>6, <1>8, <1>9, <1>10, <1>12 DEF HubInv, NoGhosts

LEMMA GetStep ==
  ASSUME HubTypes, HubInv, NEW t \in Threads, getSocket(t)
  PROVE  HubTypes' /\ HubInv'
<1>1. /\ thread[t].pc = "new" /\ asked' = FALSE
      /\ UNCHANGED <<state, auto, users, counted, info, lastInfo, closer>>
  BY DEF getSocket, at, hub
<1> DEFINE k == [NoSock EXCEPT !.state = "STARTING", !.listener = TRUE]
<1>2. /\ k \in SockType /\ k.state = "STARTING" /\ k.listener /\ k.pc = "idle"
      /\ ~k.up /\ ~k.started /\ k.tasks = << >>
  BY NoSockFacts DEF NoSock, SockType
<1>3. PICK s \in Socks : s # sock /\ sock' = s /\ sk' = [sk EXCEPT ![s] = k]
  BY DEF getSocket
<1> HIDE DEF k
<1> DEFINE r == [thread[t] EXCEPT !.pc = "start"]
<1>4. r \in ThreadType /\ r.pc = "start" /\ thread' = [thread EXCEPT ![t] = r]
  BY DEF getSocket, goes, HubTypes, ThreadType
<1> HIDE DEF r
<1>5. /\ thread'[t] = r
      /\ \A u \in Threads \ {t} : thread'[u] = thread[u] /\ thread[u].pc = "idle"
      /\ closer.pc \in {"none", "join", "unlisten"} /\ (t = "user" => closer.pc = "none")
      /\ \A x \in Socks : ~Has(x, "CLOSE")
  BY <1>1, <1>4, OtherIdle
<1>6. /\ state = "CONNECTING" /\ \A x \in Socks : ~sk[x].listener
  BY <1>1 DEF HubInv, ThreadInv
<1>7. /\ sk' \in [Socks -> SockType] /\ sk'[s] = k
      /\ \A x \in Socks \ {s} : sk'[x] = sk[x]
  BY <1>2, <1>3 DEF HubTypes
<1>8. ~(users \/ counted)
  BY <1>5, <1>6, PlaceFacts, HubAssumption DEF HubInv, NoGhosts, HubTypes, Has, In
<1>9. HubTypes'
  BY <1>1, <1>3, <1>4, <1>7 DEF HubTypes
<1>10. SockInv(s)'
  BY <1>2, <1>3, <1>7, NoSockFacts DEF SockInv, Firing, Active, Has
<1>11. ASSUME NEW x \in Socks \ {s} PROVE SockInv(x)'
  BY <1>1, <1>3, <1>5, <1>6, <1>7, <1>11 DEF HubInv, SockInv, Firing, Active, Has
<1>12. ThreadInv'
  BY <1>1, <1>2, <1>3, <1>4, <1>5, <1>6, <1>7, HubAssumption DEF ThreadInv, Threads, isConnected
<1> QED BY <1>1, <1>8, <1>9, <1>10, <1>11, <1>12 DEF HubInv, NoGhosts

LEMMA StartStep ==
  ASSUME HubTypes, HubInv, NEW t \in Threads, Start(t)
  PROVE  HubTypes' /\ HubInv'
<1> DEFINE s == sock
<1>1. /\ thread[t].pc = "start"
      /\ UNCHANGED <<sock, auto, users, counted, info, lastInfo, closer, asked>>
  BY DEF Start, at, hub
<1>2. /\ s \in Socks /\ sk[s].state = "STARTING" /\ ~sk[s].started /\ sk[s].listener
      /\ state = "CONNECTING" /\ SockInv(s) /\ sk[s].pc = "idle" /\ ~sk[s].up
  BY <1>1 DEF HubInv, ThreadInv, HubTypes, SockInv
<1> DEFINE r == [thread[t] EXCEPT !.pc = "idle"]
<1>3. r \in ThreadType /\ r.pc = "idle" /\ thread' = [thread EXCEPT ![t] = r]
  BY DEF Start, goes, HubTypes, ThreadType
<1> HIDE DEF r
<1>4. /\ thread'[t] = r
      /\ \A u \in Threads \ {t} : thread'[u] = thread[u] /\ thread[u].pc = "idle"
      /\ closer.pc \in {"none", "join", "unlisten"} /\ (t = "user" => closer.pc = "none")
      /\ \A x \in Socks : ~Has(x, "CLOSE")
  BY <1>1, <1>3, OtherIdle
<1>5. /\ \A u \in Threads : thread'[u].pc = "idle"
      /\ \A u \in Threads : thread[u].pc \notin {"prepare", "new"}
  BY <1>1, <1>3, <1>4
<1>6. ~Has(s, "SHUTDOWN") /\ ~(users \/ counted)
  BY <1>2, <1>5, PlaceFacts DEF SockInv
<1>7. \A x \in Socks : sk[x].listener => x = s
  BY DEF HubInv, SockInv
<1>8. CASE /\ state' = state
           /\ sk' = [sk EXCEPT ![sock].started = TRUE, ![sock].tasks = Append(@, "CONNECT")]
  <2>1. sk[s] \in SockType /\ sk[s].tasks \in Seq(Tasks) /\ "CONNECT" \in Tasks
    BY <1>2 DEF HubTypes, SockType, Tasks
  <2>2. Append(sk[s].tasks, "CONNECT") \in Seq(Tasks)
    BY <2>1
  <2> DEFINE k == [sk[s] EXCEPT !.started = TRUE, !.tasks = Append(@, "CONNECT")]
  <2>3. /\ k \in SockType /\ k.state = "STARTING" /\ k.started /\ k.listener
        /\ k.pc = "idle" /\ ~k.up /\ k.tasks = Append(sk[s].tasks, "CONNECT")
    BY <1>2, <2>1, <2>2 DEF SockType, Tasks
  <2>4. sk' = [sk EXCEPT ![s] = k]
    BY <1>8
  <2>5. ~In("CLOSE", k.tasks) /\ ~In("SHUTDOWN", k.tasks)
    BY <1>2, <1>4, <1>6, <2>1, <2>3, InAppend DEF Has
  <2> HIDE DEF k
  <2>6. sk' \in [Socks -> SockType] /\ sk'[s] = k /\ \A x \in Socks \ {s} : sk'[x] = sk[x]
    BY <1>2, <2>3, <2>4 DEF HubTypes
  <2>7. HubTypes'
    BY <1>1, <1>3, <1>8, <2>6 DEF HubTypes
  <2>8. SockInv(s)'
    BY <1>1, <2>3, <2>5, <2>6 DEF SockInv, Firing, Active, Has
  <2>9. ASSUME NEW x \in Socks \ {s} PROVE SockInv(x)'
    BY <1>1, <2>6, <2>9 DEF HubInv, SockInv, Firing, Active, Has
  <2>10. ThreadInv'
    BY <1>1, <1>2, <1>4, <1>5, <1>8 DEF ThreadInv, Threads, isConnected
  <2> QED BY <1>1, <1>6, <2>7, <2>8, <2>9, <2>10 DEF HubInv, NoGhosts
<1>9. CASE state' = "DISCONNECTED" /\ sk' = sk
  <2>1. HubTypes'
    BY <1>1, <1>3, <1>9 DEF HubTypes
  <2>2. SockInv(s)'
    BY <1>1, <1>2, <1>6, <1>9 DEF SockInv, Firing, Active, Has
  <2>3. ASSUME NEW x \in Socks \ {s} PROVE SockInv(x)'
    BY <1>1, <1>9, <2>3 DEF HubInv, SockInv, Firing, Active, Has
  <2>4. Quiet'
    BY <1>2, <1>7, <1>9 DEF Quiet, Active
  <2>5. ThreadInv'
    BY <1>1, <1>4, <1>5, <1>9, <2>4 DEF ThreadInv, Threads, isConnected
  <2> QED BY <1>1, <1>6, <2>1, <2>2, <2>3, <2>5 DEF HubInv, NoGhosts
<1> QED BY <1>8, <1>9 DEF Start

-----------------------------------------------------------------------------
(* AdcHub::shutdown.                                                       *)

CloserType == [pc : {"none", "join", "unlisten", "remove", "closed"},
               by : Socks \cup {"user"}, old : Socks \cup {Null}]

LEMMA BeginClose ==
  ASSUME HubTypes, HubInv, putClient \/ \E s \in Socks : Redirect(s)
  PROVE  HubTypes' /\ HubInv'
<1> DEFINE q == Posts(sock, "DISCONNECT", TRUE)
<1>1. q \in [Socks -> SockType] /\ \A x \in Socks : Alike(sk[x], q[x])
  BY PostsFacts
<1> HIDE DEF q
<1>2. PICK by \in Socks \cup {"user"} :
        /\ closer.pc = "none"
        /\ sk' = [s \in Socks |-> IF s = by THEN [q[s] EXCEPT !.pc = "closing"] ELSE q[s]]
        /\ closer' = [pc |-> "join", by |-> by, old |-> Null]
        /\ UNCHANGED <<state, sock, auto, users, counted, info, lastInfo, thread, asked>>
        /\ thread["user"].pc = "idle"
        /\ by # "user" => Line(by)
  <2>1. CASE putClient
    BY <2>1 DEF putClient, Closes, Open, at, client, hub, q
  <2>2. ASSUME NEW s \in Socks, Redirect(s)
        PROVE  \E by \in Socks \cup {"user"} :
          /\ closer.pc = "none"
          /\ sk' = [x \in Socks |-> IF x = by THEN [q[x] EXCEPT !.pc = "closing"] ELSE q[x]]
          /\ closer' = [pc |-> "join", by |-> by, old |-> Null]
          /\ UNCHANGED <<state, sock, auto, users, counted, info, lastInfo, thread, asked>>
          /\ thread["user"].pc = "idle"
          /\ by # "user" => Line(by)
    <3>1. Line(s) /\ thread["user"].pc = "idle"
      BY <2>2, LineFacts, BusyIdle DEF Redirect, Threads
    <3> QED BY <2>2, <3>1 DEF Redirect, Closes, Open, hub, q
  <2> QED BY <2>1, <2>2
<1>3. /\ closer' \in CloserType /\ closer'.pc = "join"
  BY <1>2 DEF CloserType
<1>4. /\ sock' = sock /\ thread' = thread /\ state' = state
      /\ users' = users /\ counted' = counted
      /\ closer.pc = "none" /\ thread["user"].pc = "idle"
  BY <1>2
<1>5. ASSUME NEW x \in Socks
      PROVE  /\ sk'[x] \in SockType
             /\ sk'[x].state = sk[x].state /\ sk'[x].listener = sk[x].listener
             /\ sk'[x].up = sk[x].up /\ sk'[x].started = sk[x].started
             /\ sk'[x].pc = IF x = by THEN "closing" ELSE sk[x].pc
             /\ In("CLOSE", sk'[x].tasks) <=> In("CLOSE", sk[x].tasks)
             /\ In("SHUTDOWN", sk'[x].tasks) => In("SHUTDOWN", sk[x].tasks)
             /\ sk[x].state = "none" => sk'[x].tasks = sk[x].tasks
  <2>1. q[x] \in SockType /\ Alike(sk[x], q[x])
    BY <1>1
  <2>2. sk'[x] = IF x = by THEN [q[x] EXCEPT !.pc = "closing"] ELSE q[x]
    BY <1>2
  <2> QED BY <2>1, <2>2 DEF SockType, Alike
<1>6. /\ sk' \in [Socks -> SockType]
  <2>1. \A x \in Socks : sk'[x] \in SockType
    BY <1>5
  <2> QED BY <1>2, <2>1
<1>7. HubTypes'
  BY <1>2, <1>3, <1>6 DEF HubTypes, CloserType
<1>8. by \in Socks => /\ sk[by].state = "RUNNING" /\ sk[by].listener /\ sk[by].pc = "idle"
                      /\ Busy(by) /\ Active(by)
  BY <1>2, HubAssumption, LineFacts DEF Busy
<1>9. ASSUME NEW x \in Socks PROVE SockInv(x)'
  <2>1. SockInv(x) /\ ~Has(x, "CLOSE")
    BY <1>2 DEF HubInv, SockInv
  <2>2. CASE x = by
    BY <1>4, <1>3, <1>5, <1>8, <2>1, <2>2 DEF SockInv, Firing, Active, Has
  <2>3. CASE x # by
    BY <1>4, <1>3, <1>5, <2>1, <2>3 DEF SockInv, Firing, Active, Has
  <2> QED BY <2>2, <2>3
<1>10. by \in Socks => ~Quiet
  BY <1>8 DEF Quiet, Busy
<1>11. Quiet => Quiet'
  BY <1>5, <1>10 DEF Quiet, Active
<1>12. ThreadInv'
  BY <1>4, <1>3, <1>5, <1>11 DEF HubInv, HubTypes, ThreadInv, isConnected
<1>13. NoGhosts'
  <2> SUFFICES ASSUME users \/ counted PROVE NoGhosts'
    BY <1>4 DEF NoGhosts
  <2>1. /\ sock \in Socks /\ sk[sock].up
        /\ \/ sk[sock].listener /\ (sk[sock].state = "RUNNING" \/ sk[sock].pc = "fire")
           \/ Has(sock, "CLOSE")
    BY PlaceFacts DEF HubInv, NoGhosts, HubTypes, Has, In
  <2>2. sk'[sock].pc = "fire" \/ sk[sock].pc # "fire"
    BY <1>5, <1>8, <2>1
  <2> QED BY <1>4, <1>5, <2>1, <2>2, HubAssumption DEF NoGhosts, Has, In
<1> QED BY <1>7, <1>9, <1>12, <1>13 DEF HubInv

LEMMA CloseSteps ==
  ASSUME HubTypes, HubInv, CloseJoin \/ CloseUnlisten
  PROVE  HubTypes' /\ HubInv'
<1>1. UNCHANGED <<sock, auto, users, counted, info, lastInfo, sk, thread, asked>>
  BY DEF CloseJoin, CloseUnlisten, client, hub
<1>2. /\ closer' \in CloserType
      /\ \/ closer.pc = "join" /\ closer'.pc = "unlisten" /\ state' = state
         \/ /\ closer.pc = "unlisten" /\ thread["timer"].pc = "idle"
            /\ \/ closer'.pc = "closed" /\ state' = state /\ sock = Null
               \/ closer'.pc = "remove" /\ closer'.old = sock /\ sock # Null
                  /\ state' = "DISCONNECTED"
  <2>1. closer \in CloserType
    BY DEF HubTypes, CloserType
  <2>2. CASE CloseJoin
    BY <2>1, <2>2 DEF CloseJoin, CloserType, client
  <2>3. CASE CloseUnlisten
    <3>1. CASE sock = Null
      BY <2>1, <2>3, <3>1 DEF CloseUnlisten, CloserType, at
    <3>2. CASE sock # Null
      BY <2>1, <2>3, <3>2 DEF CloseUnlisten, CloserType, at, HubTypes
    <3> QED BY <3>1, <3>2
  <2> QED BY <2>2, <2>3
<1>3. HubTypes'
  BY <1>1, <1>2 DEF HubTypes, CloserType
<1>4. ASSUME NEW x \in Socks PROVE SockInv(x)'
  <2>1. ~Has(x, "CLOSE")
    BY <1>2 DEF HubInv, SockInv
  <2> QED BY <1>1, <2>1 DEF HubInv, SockInv, Firing, Active, Has
<1>5. Quiet <=> Quiet'
  BY <1>1 DEF Quiet, Active
<1>6. ThreadInv'
  BY <1>1, <1>2, <1>5 DEF HubInv, ThreadInv, Threads, isConnected
<1>7. NoGhosts'
  BY <1>1 DEF HubInv, NoGhosts
<1> QED BY <1>3, <1>4, <1>6, <1>7 DEF HubInv

LEMMA ClosePutStep ==
  ASSUME HubTypes, HubInv, ClosePut
  PROVE  HubTypes' /\ HubInv'
<1> DEFINE s == sock
<1>1. /\ closer.pc = "remove" /\ closer.old = s /\ s \in Socks
      /\ ~Firing(s) \/ closer.by = s
  BY DEF ClosePut, HubInv, ThreadInv, HubTypes
<1>2. UNCHANGED <<state, sock, auto, users, counted, info, lastInfo, thread, asked>>
  BY DEF ClosePut, client, hub
<1>3. closer' \in CloserType /\ closer'.pc = "closed" /\ closer \in CloserType
  BY DEF ClosePut, HubTypes, CloserType
<1>4. \A t \in Threads : thread[t].pc = "idle"
  BY <1>1 DEF HubInv, ThreadInv, Threads
<1> DEFINE p == Put(s, "CLOSE")
<1>5. /\ p \in [Socks -> SockType] /\ \A x \in Socks \ {s} : p[x] = sk[x]
      /\ p[s].state = sk[s].state /\ p[s].pc = sk[s].pc /\ p[s].up = sk[s].up
      /\ p[s].started = sk[s].started /\ ~p[s].listener
      /\ sk[s].state = "none" => p[s] = sk[s]
      /\ In("SHUTDOWN", p[s].tasks) => In("SHUTDOWN", sk[s].tasks)
      /\ sk[s].state # "none" => In("CLOSE", p[s].tasks)
  <2>1. CASE sk[s].state = "none"
    BY <1>1, <2>1, PlaceFacts DEF Put, HubTypes, SockInv
  <2>2. CASE sk[s].state # "none"
    BY <1>1, <2>2, PutFacts
  <2> QED BY <2>1, <2>2
<1> HIDE DEF p
<1>6. sk' = [x \in Socks |-> IF x = closer.by THEN [p[x] EXCEPT !.pc = "idle"] ELSE p[x]]
  BY <1>1 DEF ClosePut, p
<1>7. ASSUME NEW x \in Socks
      PROVE  /\ sk'[x] \in SockType
             /\ sk'[x].state = sk[x].state /\ sk'[x].up = sk[x].up
             /\ sk'[x].started = sk[x].started
             /\ sk'[x].pc = IF x = closer.by THEN "idle" ELSE sk[x].pc
             /\ sk'[x].listener = p[x].listener /\ sk'[x].tasks = p[x].tasks
  <2>1. sk'[x] = IF x = closer.by THEN [p[x] EXCEPT !.pc = "idle"] ELSE p[x]
    BY <1>6
  <2>2. /\ p[x] \in SockType /\ p[x].state = sk[x].state /\ p[x].up = sk[x].up
        /\ p[x].started = sk[x].started /\ p[x].pc = sk[x].pc
    BY <1>5
  <2> QED BY <2>1, <2>2 DEF SockType
<1>8. sk' \in [Socks -> SockType]
  <2>1. \A x \in Socks : sk'[x] \in SockType
    BY <1>7
  <2> QED BY <1>6, <2>1
<1>9. HubTypes'
  BY <1>2, <1>3, <1>8 DEF HubTypes, CloserType
<1>10. SockInv(s)'
  <2>1. sk'[s].pc = IF s = closer.by THEN "idle" ELSE sk[s].pc
    BY <1>1, <1>7
  <2>2. ~Firing(s)'
    <3>1. CASE closer.by = s
      BY <1>2, <2>1, <3>1 DEF Firing
    <3>2. CASE closer.by # s
      BY <1>1, <1>2, <2>1, <3>2 DEF Firing
    <3> QED BY <3>1, <3>2
  <2>3. ~Has(s, "SHUTDOWN")
    BY <1>1, <1>4, PlaceFacts DEF SockInv
  <2>4. SockInv(s)
    BY <1>1, PlaceFacts
  <2> QED BY <1>1, <1>2, <1>3, <1>5, <1>7, <2>2, <2>3, <2>4 DEF SockInv, Active, Has
<1>11. ASSUME NEW x \in Socks \ {s} PROVE SockInv(x)'
  <2>1. SockInv(x) /\ p[x] = sk[x] /\ ~Has(x, "CLOSE")
    BY <1>1, <1>5, PlaceFacts DEF SockInv
  <2> QED BY <1>2, <1>3, <1>7, <2>1 DEF SockInv, Firing, Active, Has
<1>12. ThreadInv'
  BY <1>1, <1>2, <1>3, <1>4, <1>7 DEF HubInv, ThreadInv, Threads, isConnected
<1>13. NoGhosts'
  <2> SUFFICES ASSUME users \/ counted PROVE NoGhosts'
    BY <1>2 DEF NoGhosts
  <2>1. sk[s].up /\ sk[s].state # "none"
    BY <1>1, PlaceFacts DEF SockInv
  <2>2. In("CLOSE", sk'[s].tasks) /\ sk'[s].up
    BY <1>1, <1>5, <1>7, <2>1
  <2>3. sock' = sock /\ sock # Null
    BY <1>1, <1>2, HubAssumption
  <2> QED BY <2>2, <2>3 DEF NoGhosts, In
<1> QED BY <1>2, <1>9, <1>10, <1>11, <1>12, <1>13 DEF HubInv

-----------------------------------------------------------------------------
LEMMA HubNext ==
  ASSUME "overlap" \notin Events, HubTypes, HubInv, [Next]_vars
  PROVE  HubTypes' /\ HubInv'
<1>1. ASSUME NEW t \in {"timer", "user"}, Connects(t) PROVE HubTypes' /\ HubInv'
  BY <1>1, DestroyStep, PutStep, GetStep, StartStep DEF Connects, Threads
<1>2. CASE Closing
  BY <1>2, CloseSteps, ClosePutStep DEF Closing
<1>3. ASSUME NEW s \in Socks, Runs(s) PROVE HubTypes' /\ HubInv'
  <2>1. CASE RunsTask(s)
    BY <2>1, EndSteps, TaskSteps, InfoStep DEF RunsTask
  <2>2. CASE Connecting(s) \/ Failing(s)
    BY <2>2, ConnectingSteps, FailingSteps DEF Connecting, Failing
  <2> QED BY <1>3, <2>1, <2>2, ResettingSteps DEF Runs
<1>4. ASSUME NEW s \in Socks, HubSends(s) PROVE HubTypes' /\ HubInv'
  BY <1>4, LineSteps, BeginClose, ConnectingSteps, ResettingSteps DEF HubSends
<1> QED BY <1>1, <1>2, <1>3, <1>4, BeginSteps, BeginClose, CallSteps DEF Next

\* The invariant is inductive when the timer and the user do not connect the
\* client at the same time: Client::connect takes no lock that would stop them.
LEMMA HubInvariant ==
  ASSUME "overlap" \notin Events
  PROVE  Spec => [](HubTypes /\ HubInv)
<1>1. Init => HubTypes /\ HubInv
  BY InitTypes, InitInv
<1>2. HubTypes /\ HubInv /\ [Next]_vars => (HubTypes /\ HubInv)'
  BY HubNext
<1> QED BY <1>1, <1>2, PTL DEF Spec

\* The client and its sockets keep their types, and where a socket's thread is
\* (BufferedSocket::threadConnect, fail) goes with the state it is in.
THEOREM TypeCorrect ==
  ASSUME "overlap" \notin Events
  PROVE  Spec => []TypeOK
<1>1. HubTypes /\ HubInv => TypeOK
  BY InvType
<1> QED BY <1>1, HubInvariant, PTL

\* No old socket keeps the client as its listener, for any number of sockets,
\* reconnects, redirects and closings, and whenever the threads are stopped
\* between two steps of Client::connect and AdcHub::shutdown: a failure or a
\* line of an old connection is never taken for one of the new.
THEOREM OneSocketAlways ==
  ASSUME "overlap" \notin Events
  PROVE  Spec => []OneSocket
<1>1. HubTypes /\ HubInv => OneSocket
  BY DEF HubInv, SockInv, OneSocket
<1> QED BY <1>1, HubInvariant, PTL

\* Users stay online and the hub stays counted only by a connection that is up
\* and has not been given up, or until the closing client's socket clears them.
THEOREM NoGhostsAlways ==
  ASSUME "overlap" \notin Events
  PROVE  Spec => []NoGhosts
<1>1. HubTypes /\ HubInv => NoGhosts
  BY DEF HubInv
<1> QED BY <1>1, HubInvariant, PTL

=============================================================================
