------------------------------ MODULE HubClient ------------------------------
(***************************************************************************)
(* The connection to an ADC hub: a Client (AdcHub) and the BufferedSockets *)
(* it uses one after the other, each with a thread of its own.             *)
(*                                                                         *)
(* A socket's thread runs the tasks others give it, reads lines and fires  *)
(* events at the client while it holds the socket's listener lock.  The    *)
(* timer reconnects, the user reconnects, allows an untrusted hub or       *)
(* closes the hub, the hub redirects.  Client::connect and shutdown take   *)
(* the old socket's listeners away, which waits for a handler that runs,   *)
(* and leave the rest to the old socket's thread.  Client::state and the   *)
(* pointer to the socket are read and written without a common lock.  A    *)
(* call of a socket that is deleted already is lost here, and marked.      *)
(* Sending is left out but for the client's own INF.                       *)
(***************************************************************************)
EXTENDS Naturals, Sequences, FiniteSets

CONSTANTS
  Socks,      \* BufferedSockets that exist at once
  Null,       \* no socket
  Events,     \* what the user and the hub do in this instance
  MaxEvents,  \* bound: how often
  MaxInfo     \* bound: versions of our information

ASSUME HubAssumption ==
  /\ IsFiniteSet(Socks) /\ Null \notin Socks /\ "user" \notin Socks
  /\ MaxEvents \in Nat /\ MaxInfo \in Nat \ {0}

VARIABLES
  state,      \* Client::state
  sock,       \* Client::sock
  auto,       \* autoReconnect
  users,      \* has the hub's list users (who are online for ClientManager)?
  counted,    \* is the hub in Client::allCounts?
  info,       \* version of our information
  lastInfo,   \* lastInfoMap: the version the hub is taken to know
  sk,         \* the sockets
  thread,     \* Client::connect in the timer's and the user's thread
  closer,     \* AdcHub::shutdown, and who runs it
  hbri,       \* the HBRI validator: "none", or its thread "run"s or has "ended"
  asked,      \* has the user asked for a new socket, and not got it yet?
  events,
  marks       \* what has gone wrong on the way, for the properties to except

client == <<state, sock, auto>>
hub == <<users, counted, info, lastInfo>>
vars == <<client, hub, sk, thread, closer, hbri, asked, events, marks>>

NoSock == [state |-> "none", tasks |-> << >>, pc |-> "idle", disconnecting |-> FALSE,
           listener |-> FALSE, up |-> FALSE, started |-> FALSE, told |-> 0,
           forbidden |-> FALSE]
NoThread == [pc |-> "idle", old |-> Null]

\* A hub that has just been created; the user's thread is about to connect it.
Init ==
  /\ state = "DISCONNECTED" /\ sock = Null /\ auto = FALSE
  /\ users = FALSE /\ counted = FALSE /\ info = 1 /\ lastInfo = 0
  /\ sk = [s \in Socks |-> NoSock]
  /\ thread = [timer |-> NoThread, user |-> [pc |-> "destroy", old |-> Null]]
  /\ closer = [pc |-> "none", by |-> "user", old |-> Null]
  /\ hbri = "none" /\ asked = FALSE /\ events = 0 /\ marks = {}

Event(e) == e \in Events /\ events < MaxEvents /\ events' = events + 1

isConnected == state \notin {"CONNECTING", "DISCONNECTED"}
Open == closer.pc = "none"
Listed == closer.pc # "closed"  \* in ClientManager::clients

\* A handler of socket s is running: its thread holds listenerCS.
Firing(s) == sk[s].pc \in {"failed", "join", "joinTCP", "closing"}
Joining == {"join", "joinTCP"}

\* disconnect, callAsync and the like of the socket the client points to; it
\* may be deleted already while Client::connect makes the next one.
Posts(s, task, graceless) ==
  IF s = Null \/ sk[s].state = "none" THEN sk
  ELSE [sk EXCEPT ![s].tasks = Append(@, task),
                  ![s].disconnecting = @ \/ graceless]
Dangling(s) == IF s # Null /\ sk[s].state = "none" THEN {"dangling"} ELSE {}

-----------------------------------------------------------------------------
(* Client::connect, in the timer's or in the user's thread.                *)

Other(t) == IF t = "timer" THEN "user" ELSE "timer"
Begins(t) ==
  /\ thread[t].pc = "idle" /\ (thread[Other(t)].pc = "idle" \/ "overlap" \in Events)
  /\ thread' = [thread EXCEPT ![t].pc = "destroy"]

\* Client::on(Second), when reconnDelay has passed: time is left out.
Reconnect ==
  /\ closer.pc \in {"none", "join", "unlisten"}
  /\ state = "DISCONNECTED" /\ auto
  /\ Begins("timer")
  /\ UNCHANGED <<client, hub, sk, closer, hbri, asked, events, marks>>

allowUntrustedConnect ==
  /\ Open /\ state = "DISCONNECTED"
  /\ Begins("user")
  /\ Event("untrusted")
  /\ UNCHANGED <<client, hub, sk, closer, hbri, asked, marks>>

at(t, pc) == thread[t].pc = pc
goes(t, pc) == thread' = [thread EXCEPT ![t].pc = pc]

MutDestroySocket(t) ==
  /\ at(t, "destroy") /\ goes(t, "prepare")
  /\ UNCHANGED <<client, hub, sk, closer, hbri, asked, events, marks>>

destroySocket(t) ==
  /\ at(t, "destroy")
  /\ IF sock = Null THEN goes(t, "prepare") /\ UNCHANGED state
     ELSE /\ thread' = [thread EXCEPT ![t] = [pc |-> "remove", old |-> sock]]
          /\ state' = "DISCONNECTED"
  /\ UNCHANGED <<sock, auto, hub, sk, closer, hbri, asked, events, marks>>

\* BufferedSocket::putSocket: removeListeners, then shutdown.
Put(s, task) ==
  IF sk[s].state = "none" THEN sk
  ELSE [sk EXCEPT ![s].listener = FALSE, ![s].disconnecting = TRUE,
                  ![s].tasks = Append(@, task)]

putSocket(t) ==
  LET s == thread[t].old IN
  /\ at(t, "remove") /\ ~Firing(s)
  /\ sk' = Put(s, "SHUTDOWN")
  /\ thread' = [thread EXCEPT ![t] = NoThread, ![t].pc = "prepare"]
  /\ marks' = marks \cup Dangling(s)
  /\ UNCHANGED <<client, hub, closer, hbri, asked, events>>

SetConnecting(t) ==
  /\ at(t, "prepare") /\ goes(t, "new")
  /\ auto' = TRUE /\ state' = "CONNECTING"
  /\ UNCHANGED <<sock, hub, sk, closer, hbri, asked, events, marks>>

getSocket(t) ==
  /\ at(t, "new") /\ goes(t, "start")
  /\ \E s \in {x \in Socks : sk[x].state = "none" /\ x # sock} :
       /\ sock' = s
       /\ sk' = [sk EXCEPT ![s] = [NoSock EXCEPT !.state = "STARTING", !.listener = TRUE]]
  /\ asked' = FALSE
  /\ UNCHANGED <<state, auto, hub, closer, hbri, events, marks>>

\* BufferedSocket::connect: the thread is started and told to connect.
Start(t) ==
  /\ at(t, "start") /\ goes(t, "idle")
  /\ \/ /\ sk' = [sk EXCEPT ![sock].started = TRUE, ![sock].tasks = Append(@, "CONNECT")]
        /\ UNCHANGED <<state, events, marks>>
     \/ /\ Event("thread")
        /\ state' = "DISCONNECTED"
        /\ marks' = marks \cup {"thread"}
        /\ UNCHANGED sk
  /\ UNCHANGED <<sock, auto, hub, closer, hbri, asked>>

Connects(t) ==
  destroySocket(t) \/ putSocket(t) \/ SetConnecting(t) \/ getSocket(t) \/ Start(t)

-----------------------------------------------------------------------------
(* What others ask of the client.                                          *)

\* Client::reconnect
reconnect ==
  /\ Open /\ at("user", "idle")
  /\ sk' = Posts(sock, "DISCONNECT", TRUE)
  /\ auto' = TRUE
  /\ asked' = (sock # Null)
  /\ marks' = marks \cup Dangling(sock)
  /\ Event("reconnect")
  /\ UNCHANGED <<state, sock, hub, thread, closer, hbri>>

\* Our information changes: ClientManager::myInfoUpdated.
myInfoUpdated ==
  /\ Listed /\ info < MaxInfo
  /\ info' = info + 1
  /\ sk' = IF isConnected THEN Posts(sock, "INFO", FALSE) ELSE sk
  /\ marks' = marks \cup (IF isConnected THEN Dangling(sock) ELSE {})
  /\ UNCHANGED <<client, users, counted, lastInfo, thread, closer, hbri, asked, events>>

\* ClientManager::on(Minute); a call that would find nothing to send, or one
\* on its way, is left out.
Minute ==
  /\ Listed /\ at("timer", "idle") /\ sock # Null /\ sk[sock].state # "none"
  /\ state \in {"IDENTIFY", "VERIFY", "NORMAL"} /\ lastInfo # info
  /\ \A n \in DOMAIN sk[sock].tasks : sk[sock].tasks[n] # "INFO"
  /\ sk' = Posts(sock, "INFO", FALSE)
  /\ UNCHANGED <<client, hub, thread, closer, hbri, asked, events, marks>>

-----------------------------------------------------------------------------
(* AdcHub::shutdown, for ClientManager::putClient in the user's thread or  *)
(* for a redirect in the thread of the socket.                             *)

\* Two threads reset one validator at once; s is the one that comes.
BothReset(s) ==
  IF \/ hbri # "none" /\ closer.pc = "join"
     \/ \E x \in Socks \ {s} : sk[x].pc \in Joining
  THEN {"hbri"} ELSE {}

\* The disconnect that comes first; resetHBRI is CloseJoin, which waits for a
\* validator that runs.
Closes(by) ==
  LET q == Posts(sock, "DISCONNECT", TRUE) IN
  /\ sk' = [s \in Socks |-> IF s = by THEN [q[s] EXCEPT !.pc = "closing"] ELSE q[s]]
  /\ closer' = [pc |-> "join", by |-> by, old |-> Null]
  /\ marks' = marks \cup Dangling(sock) \cup BothReset(by)

putClient ==
  /\ Open /\ at("user", "idle")
  /\ Closes("user")
  /\ Event("close")
  /\ UNCHANGED <<client, hub, thread, hbri, asked>>

CloseJoin ==
  /\ closer.pc = "join" /\ hbri # "run"
  /\ hbri' = "none"
  /\ closer' = [closer EXCEPT !.pc = "unlisten"]
  /\ UNCHANGED <<client, hub, sk, thread, asked, events, marks>>

\* TimerManager::removeListener waits for the timer.
CloseUnlisten ==
  /\ closer.pc = "unlisten" /\ at("timer", "idle")
  /\ IF sock = Null THEN closer' = [closer EXCEPT !.pc = "closed"] /\ UNCHANGED state
     ELSE /\ closer' = [closer EXCEPT !.pc = "remove", !.old = sock]
          /\ state' = "DISCONNECTED"
  /\ UNCHANGED <<sock, auto, hub, sk, thread, hbri, asked, events, marks>>

ClosePut ==
  LET s == closer.old IN
  /\ closer.pc = "remove" /\ (~Firing(s) \/ closer.by = s)
  /\ sk' = [x \in Socks |->
              LET p == Put(s, "CLOSE")[x]
              IN IF x = closer.by THEN [p EXCEPT !.pc = "idle"] ELSE p]
  /\ closer' = [closer EXCEPT !.pc = "closed"]
  /\ UNCHANGED <<client, hub, thread, hbri, asked, events, marks>>

Closing == CloseJoin \/ CloseUnlisten \/ ClosePut

\* The validator ends by itself, by its time-outs or because it is told to.
HbriEnds ==
  /\ hbri = "run" /\ hbri' = "ended"
  /\ UNCHANGED <<client, hub, sk, thread, closer, asked, events, marks>>

-----------------------------------------------------------------------------
(* The thread of a socket: BufferedSocket::run.                            *)

idle(s) == sk[s].started /\ sk[s].pc = "idle"
is(s, st) == sk[s].state = st
Popped(s) == [sk EXCEPT ![s].tasks = Tail(@)]
Next1(s, task) == idle(s) /\ sk[s].tasks # << >> /\ Head(sk[s].tasks) = task

\* SHUTDOWN ends the thread and deletes the socket; the one of Client::shutdown
\* first clears what the client still has.
SHUTDOWN(s) ==
  /\ Next1(s, "SHUTDOWN")
  /\ sk' = [sk EXCEPT ![s] = NoSock]
  /\ UNCHANGED <<client, hub, thread, closer, hbri, asked, events, marks>>

MutCLOSE(s) ==
  /\ Next1(s, "CLOSE")
  /\ sk' = [sk EXCEPT ![s] = NoSock]
  /\ users' = FALSE /\ counted' = FALSE
  /\ UNCHANGED <<client, info, lastInfo, thread, closer, hbri, asked, events, marks>>

CLOSE(s) ==
  /\ Next1(s, "CLOSE")
  /\ sk' = [sk EXCEPT ![s] = NoSock]
  /\ sock' = Null /\ users' = FALSE /\ counted' = FALSE
  /\ UNCHANGED <<state, auto, info, lastInfo, thread, closer, hbri, asked, events, marks>>

MutCONNECT(s) ==
  /\ Next1(s, "CONNECT")
  /\ sk' = [Popped(s) EXCEPT ![s].pc = IF is(s, "STARTING") THEN "connecting" ELSE @]
  /\ UNCHANGED <<client, hub, thread, closer, hbri, asked, events, marks>>

CONNECT(s) ==
  /\ Next1(s, "CONNECT")
  /\ sk' = [Popped(s) EXCEPT ![s].state = IF is(s, "STARTING") THEN "RUNNING" ELSE @,
                             ![s].pc = IF is(s, "STARTING") THEN "connecting" ELSE @]
  /\ UNCHANGED <<client, hub, thread, closer, hbri, asked, events, marks>>

\* A task that comes before CONNECT, or after a failure, is dropped.
DISCONNECT(s) ==
  /\ Next1(s, "DISCONNECT")
  /\ sk' = [Popped(s) EXCEPT ![s].state = IF is(s, "RUNNING") THEN "FAILED" ELSE @,
                             ![s].pc = IF is(s, "RUNNING") THEN "fire" ELSE @]
  /\ marks' = marks \cup (IF is(s, "STARTING") THEN {"early"} ELSE {})
  /\ UNCHANGED <<client, hub, thread, closer, hbri, asked, events>>

\* Client::updateCounts(false): a hub that is not protected may be left.
Counts(ok) == IF ok THEN UNCHANGED events ELSE Event("protect")

\* AdcHub::infoImpl: what has changed is sent, unless the hub forbade it.
Tells(q) ==
  IF sock # Null /\ ~q[sock].forbidden /\ lastInfo # info
  THEN [q EXCEPT ![sock].told = info] ELSE q

INFO(s) ==
  /\ Next1(s, "INFO")
  /\ \E ok \in BOOLEAN :
       IF is(s, "RUNNING") /\ state \in {"IDENTIFY", "NORMAL"}
       THEN /\ Counts(ok) /\ (ok \/ state = "NORMAL")
            /\ counted' = IF state = "NORMAL" THEN ok ELSE counted
            /\ auto' = (auto /\ ok)
            /\ lastInfo' = IF ok THEN info ELSE lastInfo
            /\ LET q == Popped(s)
               IN sk' = IF ok THEN Tells(q)
                        ELSE [q EXCEPT ![sock].tasks = Append(@, "DISCONNECT"),
                                       ![sock].disconnecting = TRUE]
       ELSE sk' = Popped(s) /\ UNCHANGED <<counted, auto, lastInfo, events>>
  /\ UNCHANGED <<state, sock, users, info, thread, closer, hbri, asked, marks>>

MutConnected(s) ==
  /\ sk[s].pc = "connecting"
  /\ IF sk[s].listener THEN state' = "PROTOCOL" ELSE UNCHANGED state
  /\ sk' = [sk EXCEPT ![s].pc = "idle", ![s].up = TRUE]
  /\ UNCHANGED <<sock, auto, hub, thread, closer, hbri, asked, events, marks>>

\* threadConnect: the hub is reached, or not, or the wait is given up.
Connected(s) ==
  /\ sk[s].pc = "connecting"
  /\ IF sk[s].listener
     THEN /\ state' = "PROTOCOL" /\ lastInfo' = 0
     ELSE UNCHANGED <<state, lastInfo>>
  /\ sk' = [sk EXCEPT ![s].pc = "idle", ![s].up = TRUE]
  /\ UNCHANGED <<sock, auto, users, counted, info, thread, closer, hbri, asked, events,
                 marks>>

NotConnected(s) ==
  /\ sk[s].pc = "connecting"
  /\ sk' = [sk EXCEPT ![s].pc = "fire", ![s].state = "FAILED"]
  /\ UNCHANGED <<client, hub, thread, closer, hbri, asked, events, marks>>

GivesUp(s) ==
  /\ sk[s].pc = "connecting" /\ sk[s].disconnecting
  /\ sk' = [sk EXCEPT ![s].pc = "idle"]
  /\ UNCHANGED <<client, hub, thread, closer, hbri, asked, events, marks>>

\* The hub closes the connection, or it breaks.
Breaks(s) ==
  /\ idle(s) /\ is(s, "RUNNING")
  /\ sk' = [sk EXCEPT ![s].pc = "fire", ![s].state = "FAILED"]
  /\ UNCHANGED <<client, hub, thread, closer, hbri, asked, events, marks>>

MutFailedClears(s) ==
  /\ sk[s].pc = "fire"
  /\ sk' = [sk EXCEPT ![s].pc = IF sk[s].listener THEN "failed" ELSE "idle"]
  /\ UNCHANGED <<client, hub, thread, closer, hbri, asked, events, marks>>

\* fail fires Failed at the client: counts and users, then the state.
FailedClears(s) ==
  /\ sk[s].pc = "fire"
  /\ IF sk[s].listener THEN users' = FALSE /\ counted' = FALSE ELSE UNCHANGED <<users, counted>>
  /\ sk' = [sk EXCEPT ![s].pc = IF sk[s].listener THEN "failed" ELSE "idle"]
  /\ UNCHANGED <<client, info, lastInfo, thread, closer, hbri, asked, events, marks>>

MutFailedState(s) ==
  /\ sk[s].pc = "failed"
  /\ sk' = [sk EXCEPT ![s].pc = "idle"]
  /\ UNCHANGED <<client, hub, thread, closer, hbri, asked, events, marks>>

FailedState(s) ==
  /\ sk[s].pc = "failed"
  /\ state' = "DISCONNECTED"
  /\ sk' = [sk EXCEPT ![s].pc = "idle"]
  /\ UNCHANGED <<sock, auto, hub, thread, closer, hbri, asked, events, marks>>

-----------------------------------------------------------------------------
(* Lines from the hub: AdcHub's handlers.                                  *)

\* A line is read and the client still listens.
Line(s) == idle(s) /\ is(s, "RUNNING") /\ sk[s].up /\ sk[s].listener

SID(s) ==
  /\ Line(s) /\ state = "PROTOCOL"
  /\ state' = "IDENTIFY" /\ lastInfo' = info /\ sk' = Tells(sk)
  /\ UNCHANGED <<sock, auto, users, counted, info, thread, closer, hbri, asked, events,
                 marks>>

\* Another user's INF and QUI.
INF(s) ==
  /\ Line(s) /\ users' = TRUE
  /\ UNCHANGED <<state, sock, auto, counted, info, lastInfo, sk, thread, closer, hbri,
                 asked, events, marks>>

UserQuits(s) ==
  /\ Line(s) /\ users' = FALSE
  /\ UNCHANGED <<state, sock, auto, counted, info, lastInfo, sk, thread, closer, hbri,
                 asked, events, marks>>

\* resetHBRI in the thread of s: waits for the validator when there is one.
Resets(s, then, q) ==
  /\ sk' = IF hbri = "none" THEN q ELSE [q EXCEPT ![s].pc = then]
  /\ hbri' = IF hbri = "none" /\ then = "joinTCP" THEN "run" ELSE hbri
  /\ marks' = marks \cup BothReset(s)
       \cup (IF hbri # hbri' /\ ~Open THEN {"hbri"} ELSE {})

\* Our own INF.  The first one completes the login; it, and one that changes
\* how we can be connected, ends an HBRI validation.
OwnINF(s, modes) ==
  /\ Line(s)
  /\ state' = "NORMAL" /\ users' = TRUE
  /\ \E ok \in BOOLEAN :
       LET q == IF ok THEN sk ELSE Posts(sock, "DISCONNECT", TRUE) IN
       /\ Counts(ok)
       /\ auto' = (ok /\ (state # "NORMAL" \/ auto)) /\ counted' = ok
       /\ IF state # "NORMAL" \/ modes THEN Resets(s, "join", q)
          ELSE sk' = q /\ UNCHANGED <<hbri, marks>>
  /\ UNCHANGED <<sock, info, lastInfo, thread, closer, asked>>

GPA(s) ==
  /\ Line(s)
  /\ state' = "VERIFY"
  /\ UNCHANGED <<sock, auto, hub, sk, thread, closer, hbri, asked, events, marks>>

\* We are told to go, and whether to come back.
QUI(s, back) ==
  /\ Line(s)
  /\ auto' = back
  /\ Event("quit")
  /\ UNCHANGED <<state, sock, hub, sk, thread, closer, hbri, asked, marks>>

\* QUI with a redirect that is followed.
Redirect(s) ==
  /\ Line(s) /\ Open
  /\ Closes(s)
  /\ Event("redirect")
  /\ UNCHANGED <<state, sock, auto, hub, thread, hbri, asked>>

\* A search or connection flood (handled once), or no common protocol.
Leave(s, flood) ==
  /\ Line(s) /\ (flood => ~sk[sock].disconnecting)
  /\ sk' = Posts(sock, "DISCONNECT", flood)
  /\ Event("leave")
  /\ UNCHANGED <<state, sock, auto, hub, thread, closer, hbri, asked, marks>>

\* ERROR_COMMAND_ACCESS: the hub does not take our INF.
Forbid(s) ==
  /\ Line(s)
  /\ sk' = [sk EXCEPT ![s].forbidden = TRUE]
  /\ Event("forbid")
  /\ UNCHANGED <<state, sock, auto, hub, thread, closer, hbri, asked, marks>>

\* TCP starts an HBRI validation, ERROR_HBRI_TIMEOUT ends one; both first wait
\* for the one that runs.
TCP(s, valid) ==
  /\ Line(s)
  /\ Resets(s, IF valid THEN "joinTCP" ELSE "join", sk)
  /\ Event("hbri")
  /\ UNCHANGED <<state, sock, auto, hub, thread, closer, asked>>

resetHBRI(s) ==
  /\ sk[s].pc \in Joining /\ hbri # "run"
  /\ hbri' = IF sk[s].pc = "joinTCP" THEN "run" ELSE "none"
  /\ marks' = marks \cup (IF Open THEN {} ELSE {"hbri"})
  /\ sk' = [sk EXCEPT ![s].pc = "idle"]
  /\ UNCHANGED <<client, hub, thread, closer, asked, events>>

-----------------------------------------------------------------------------
RunsTask(s) == SHUTDOWN(s) \/ CLOSE(s) \/ CONNECT(s) \/ DISCONNECT(s) \/ INFO(s)
Connecting(s) == Connected(s) \/ NotConnected(s) \/ GivesUp(s)
Failing(s) == FailedClears(s) \/ FailedState(s)
Runs(s) == RunsTask(s) \/ Connecting(s) \/ Failing(s) \/ resetHBRI(s)
HubSends(s) ==
  \/ SID(s) \/ INF(s) \/ UserQuits(s) \/ GPA(s) \/ Redirect(s) \/ Forbid(s) \/ Breaks(s)
  \/ \E b \in BOOLEAN : OwnINF(s, b) \/ QUI(s, b) \/ Leave(s, b) \/ TCP(s, b)

Next ==
  \/ Reconnect \/ allowUntrustedConnect \/ reconnect \/ putClient
  \/ \E t \in {"timer", "user"} : Connects(t)
  \/ myInfoUpdated \/ Minute \/ HbriEnds \/ Closing
  \/ \E s \in Socks : Runs(s) \/ HubSends(s)

Spec == Init /\ [][Next]_vars

\* Threads go on: the timer calls every second and every minute, a call that
\* has begun returns, a socket's thread comes back to its tasks between two
\* lines and ends what it does, a validation times out.  The hub owes nothing.
LiveSpec ==
  /\ Spec
  /\ SF_vars(Reconnect \/ Minute) /\ SF_vars(\E t \in {"timer", "user"} : Connects(t))
  /\ SF_vars(Closing) /\ WF_vars(HbriEnds)
  /\ \A s \in Socks : SF_vars(Runs(s))

-----------------------------------------------------------------------------
\* Type correctness, with BufferedSocket::threadConnect and fail: a socket that
\* waits for its connection is RUNNING, one that tells of its failure FAILED.
TypeOK ==
  /\ state \in {"DISCONNECTED", "CONNECTING", "PROTOCOL", "IDENTIFY", "VERIFY", "NORMAL"}
  /\ sock \in Socks \cup {Null} /\ auto \in BOOLEAN /\ users \in BOOLEAN
  /\ counted \in BOOLEAN /\ asked \in BOOLEAN
  /\ info \in 1..MaxInfo /\ lastInfo \in 0..MaxInfo
  /\ \A s \in Socks : /\ sk[s].state \in {"none", "STARTING", "RUNNING", "FAILED"}
                      /\ sk[s].listener => sk[s].state # "none"
                      /\ sk[s].pc = "connecting" => sk[s].state = "RUNNING"
                      /\ sk[s].pc \in {"fire", "failed"} => sk[s].state = "FAILED"

\* Client::connect and shutdown leave no old socket with the client as its
\* listener: lines and failures come from the one socket the client has.
OneSocket == \A s \in Socks : sk[s].listener => s = sock

\* Users are online and the hub is counted only by a connection that was made
\* and has not failed, or that the closing client has yet to clear: neither
\* survives Client::on(Failed), a reconnect or Client::shutdown.
NoGhosts ==
  users \/ counted =>
    /\ sock # Null /\ sk[sock].up
    /\ \/ sk[sock].listener /\ (sk[sock].state = "RUNNING" \/ sk[sock].pc = "fire")
       \/ \E n \in DOMAIN sk[sock].tasks : sk[sock].tasks[n] = "CLOSE"

\* What changes in our information reaches a hub we are logged in to, over
\* whichever connection (AdcHub::infoImpl, on(Connected)), unless the hub
\* forbade it, even when a call of myInfoUpdated came at a bad moment.
InfoReaches ==
  LET Stale == /\ state = "NORMAL" /\ sock # Null
               /\ sk[sock].told # info /\ ~sk[sock].forbidden
  IN Stale ~> (~Stale \/ ~Open)

\* Client::reconnect gets the user a new socket, unless the hub told us not to
\* come back or the hub is closed.  A DISCONNECT before the CONNECT is dropped
\* by checkEvents; the client then keeps the connection it was making.
Reconnects == asked ~> (~asked \/ ~auto \/ ~Open \/ "early" \in marks)

\* A hub that is closed or left by a redirect lets go of everything: its
\* sockets end, its users go offline, it is not counted, no timer connects it
\* again, its validation is joined (AdcHub::shutdown, Client::shutdown).  Not
\* so after a socket whose thread could not be started, and when resetHBRI ran
\* in two threads or a validation began after it.
CloseEnds ==
  ~Open ~> \/ {"thread", "hbri"} \cap marks # {}
           \/ /\ closer.pc = "closed" /\ sock = Null /\ ~users /\ ~counted
              /\ hbri = "none" /\ \A s \in Socks : sk[s].state = "none"
=============================================================================
