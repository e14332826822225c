------------------------- MODULE ShareTasksProofs -------------------------
(***************************************************************************)
(* The queue of share refreshes has one consumer, and no root is left      *)
(* without somebody who will make it NORMAL, for any number of threads,    *)
(* paths and tasks.                                                        *)
(***************************************************************************)
EXTENDS ShareTasks, TLAPS

\* The first task and the rest of a queue, as functions.
LEMMA QueueFacts ==
    ASSUME TypeOK
    PROVE  /\ DOMAIN tasks = 1..Len(tasks) /\ Len(tasks) \in Nat
           /\ \A i \in DOMAIN tasks : tasks[i] \in Task
           /\ tasks # <<>> => /\ 1 \in DOMAIN tasks
                              /\ Head(tasks) = tasks[1]
                              /\ Tail(tasks) \in Seq(Task)
                              /\ DOMAIN Tail(tasks) = 1..(Len(tasks) - 1)
                              /\ \A i \in 1..(Len(tasks) - 1) : Tail(tasks)[i] = tasks[i + 1]
  BY DEF TypeOK

\* setRefreshState keeps the type of the states and changes one of them.
LEMMA StateSet ==
    ASSUME TypeOK, NEW p \in Paths, NEW s \in RefreshStates, setRefreshState(p, s)
    PROVE  /\ refreshState' \in [Roots -> RefreshStates]
           /\ \A q \in Roots : q # p => refreshState'[q] = refreshState[q]
           /\ p \in Roots => refreshState'[p] = s
  BY DEF TypeOK, setRefreshState

\* The records the steps store.
LEMMA Records ==
    /\ \A k \in {"get", "completed", "clear", "release"}, t \in Tokens \cup {NoToken} :
         /\ [Ended EXCEPT !.pc = k] \in RunnerType
         /\ [Ended EXCEPT !.pc = k, !.token = t] \in RunnerType
         /\ [Ended EXCEPT !.pc = k].pc = k
         /\ [Ended EXCEPT !.pc = k, !.token = t].pc = k
         /\ [Ended EXCEPT !.pc = k, !.token = t].token = t
    /\ Ended \in RunnerType /\ Ended.pc = "ended"
    /\ \A k \in {"added", "running", "start"} :
         /\ [Idle EXCEPT !.pc = k] \in CallerType
         /\ [Idle EXCEPT !.pc = k].pc = k
         /\ [Idle EXCEPT !.pc = k].token = NoToken
    /\ Idle \in CallerType /\ Idle.pc = "idle" /\ Idle.token = NoToken
    /\ Quiet \in AborterType /\ Quiet.pc = "idle" /\ Quiet.todo = {}
  BY DEF Ended, Idle, Quiet, RunnerType, CallerType, AborterType, Phases

\* The phase of one path of a runner changes.
LEMMA PhaseSet ==
    ASSUME NEW x \in RunnerType, NEW p \in Paths, NEW ph \in Phases
    PROVE  LET y == [x EXCEPT !.phase[p] = ph]
           IN  /\ y \in RunnerType /\ y.pc = x.pc /\ y.token = x.token
               /\ y.phase[p] = ph
               /\ \A q \in Paths : q # p => y.phase[q] = x.phase[q]
  BY DEF RunnerType

\* The types of Init.
LEMMA InitTypes == Init => TypeOK
<1> SUFFICES ASSUME Init PROVE TypeOK
  OBVIOUS
<1>1. caller \in [Callers -> CallerType] /\ runner \in [Runners -> RunnerType]
      /\ aborter \in [Aborters -> AborterType]
  BY Records DEF Init
<1>2. refreshState \in [Roots -> RefreshStates]
  BY DEF Init, RefreshStates
<1>3. tasks \in Seq(Task)
  BY DEF Init
<1>4. used \in SUBSET Tokens /\ tasksRunning \in BOOLEAN
  BY Zenon DEF Init
<1> QED BY <1>1, <1>2, <1>3, <1>4 DEF TypeOK

\* A step of addRefreshTask keeps the types.
LEMMA CallerTypes ==
    ASSUME TypeOK, TokenOwners, NEW c \in Callers, addRefreshTask(c)
    PROVE  TypeOK'
<1> USE DEF TypeOK
<1>1. ASSUME NEW dirs \in SUBSET Paths, validateRefreshTask(c, dirs) PROVE TypeOK'
  <2>1. PICK t \in Tokens \ used :
          /\ used' = used \cup {t}
          /\ caller' = [caller EXCEPT ![c] =
               [pc |-> "queue", dirs |-> unqueued(dirs), todo |-> unqueued(dirs), token |-> t]]
    BY <1>1 DEF validateRefreshTask
  <2>2. [pc |-> "queue", dirs |-> unqueued(dirs), todo |-> unqueued(dirs), token |-> t] \in CallerType
    BY DEF CallerType, unqueued
  <2> QED BY <1>1, <2>1, <2>2 DEF validateRefreshTask
<1>2. ASSUME onRefreshQueued(c) PROVE TypeOK'
  <2>1. PICK p \in caller[c].todo :
          /\ setRefreshState(p, "PENDING")
          /\ caller' = [caller EXCEPT ![c].todo = @ \ {p}]
    BY <1>2 DEF onRefreshQueued
  <2>2. p \in Paths
    BY DEF CallerType
  <2>3. refreshState' \in [Roots -> RefreshStates]
    BY <2>1, <2>2, StateSet DEF RefreshStates
  <2>4. caller' \in [Callers -> CallerType]
    BY <2>1 DEF CallerType
  <2> QED BY <1>2, <2>3, <2>4 DEF onRefreshQueued
<1>3. ASSUME addTask(c) PROVE TypeOK'
  <2>1. [token |-> caller[c].token, dirs |-> caller[c].dirs, canceled |-> FALSE] \in Task
    BY <1>3 DEF addTask, CallerType, Task, TokenOwners
  <2>2. tasks' \in Seq(Task)
    BY <1>3, <2>1 DEF addTask
  <2> QED BY <1>3, <2>2, Records DEF addTask
<1>4. ASSUME leaveQueued(c) PROVE TypeOK'
  BY <1>4, Records DEF leaveQueued
<1>5. ASSUME testAndSet(c) PROVE TypeOK'
  <2>1. caller' \in [Callers -> CallerType]
    BY <1>5, Records DEF testAndSet
  <2>2. runner' \in [Runners -> RunnerType]
    BY <1>5, Records DEF testAndSet
  <2> QED BY <1>5, <2>1, <2>2 DEF testAndSet
<1>6. ASSUME start(c) PROVE TypeOK'
  BY <1>6, Records DEF start
<1>7. ASSUME startFails(c) PROVE TypeOK'
  BY <1>7, Records DEF startFails
<1> QED BY <1>1, <1>2, <1>3, <1>4, <1>5, <1>6, <1>7 DEF addRefreshTask

\* A step of runTasks keeps the types.
LEMMA RunnerTypes ==
    ASSUME TypeOK, NEW r \in Runners, runTasks(r)
    PROVE  TypeOK'
<1> USE DEF TypeOK
<1>1. ASSUME getFront(r) PROVE TypeOK'
  <2>1. Head(tasks) \in Task
    BY <1>1, QueueFacts DEF getFront
  <2>2. [pc |-> "refresh", token |-> Head(tasks).token,
         phase |-> [p \in Paths |-> IF p \in Head(tasks).dirs THEN "todo" ELSE "none"]] \in RunnerType
    BY <2>1 DEF Task, RunnerType, Phases
  <2> QED BY <1>1, <2>2 DEF getFront
<1>2. ASSUME getNothing(r) PROVE TypeOK'
  BY <1>2, Records DEF getNothing
<1>3. ASSUME NEW p \in Paths, doRefresh(r, p) PROVE TypeOK'
  <2>1. runner' \in [Runners -> RunnerType]
    BY <1>3, PhaseSet DEF doRefresh, Phases
  <2> QED BY <1>3, <2>1 DEF doRefresh
<1>4. ASSUME NEW p \in Paths, startBuild(r, p) PROVE TypeOK'
  <2>1. refreshState' \in [Roots -> RefreshStates]
    BY <1>4, StateSet DEF startBuild, RefreshStates
  <2>2. runner' \in [Runners -> RunnerType]
    BY <1>4, PhaseSet DEF startBuild, Phases
  <2> QED BY <1>4, <2>1, <2>2 DEF startBuild
<1>5. ASSUME NEW p \in Paths, finishBuild(r, p) PROVE TypeOK'
  <2>1. refreshState' \in [Roots -> RefreshStates]
    BY <1>5, StateSet DEF finishBuild, RefreshStates
  <2>2. runner' \in [Runners -> RunnerType]
    BY <1>5, PhaseSet DEF finishBuild, Phases
  <2> QED BY <1>5, <2>1, <2>2 DEF finishBuild
<1>6. ASSUME popFront(r) PROVE TypeOK'
  <2>1. tasks' \in Seq(Task)
    BY <1>6, QueueFacts DEF popFront
  <2>2. runner[r].token \in Tokens \cup {NoToken}
    BY DEF RunnerType
  <2> QED BY <1>6, <2>1, <2>2, Records DEF popFront
<1>7. ASSUME refreshCompleted(r) PROVE TypeOK'
  BY <1>7, Records DEF refreshCompleted
<1>8. ASSUME clearRunning(r) PROVE TypeOK'
  BY <1>8, Records DEF clearRunning
<1>9. ASSUME endRun(r) PROVE TypeOK'
  BY <1>9, Records DEF endRun
<1> QED BY <1>1, <1>2, <1>3, <1>4, <1>5, <1>6, <1>7, <1>8, <1>9 DEF runTasks

\* Canceling keeps the length, the tokens and the paths of the tasks.
LEMMA Canceled ==
    ASSUME TypeOK, NEW a \in Aborters, NEW S \in SUBSET Tokens, cancelTasks(a, S)
    PROVE  /\ tasks' \in Seq(Task) /\ DOMAIN tasks' = DOMAIN tasks
           /\ tasks # <<>> /\ tasks' # <<>> /\ Head(tasks') = tasks'[1]
           /\ \A i \in DOMAIN tasks :
                /\ tasks'[i].token = tasks[i].token /\ tasks'[i].dirs = tasks[i].dirs
                /\ tasks[i].token \notin S => tasks'[i] = tasks[i]
           /\ \E d \in SUBSET Paths :
                /\ aborter' = [aborter EXCEPT ![a] = [pc |-> "reset", todo |-> d]]
                /\ \A i \in DOMAIN tasks : tasks[i].token \in S => tasks[i].dirs \subseteq d
<1>1. tasks' \in [1..Len(tasks) -> Task]
  BY QueueFacts DEF cancelTasks, Task
<1>2. tasks' \in Seq(Task) /\ DOMAIN tasks' = DOMAIN tasks /\ Len(tasks') = Len(tasks)
  BY <1>1, QueueFacts
<1>3. tasks # <<>>
  BY DEF cancelTasks, QueuedTasks
<1>4. tasks' # <<>> /\ Head(tasks') = tasks'[1]
  BY <1>2, <1>3, QueueFacts
<1>5. \A i \in DOMAIN tasks :
        /\ tasks'[i].token = tasks[i].token /\ tasks'[i].dirs = tasks[i].dirs
        /\ tasks[i].token \notin S => tasks'[i] = tasks[i]
  BY QueueFacts DEF cancelTasks, Task
<1> DEFINE d == UNION {t.dirs : t \in {q \in QueuedTasks : q.token \in S}}
<1>6. d \in SUBSET Paths
  BY QueueFacts DEF QueuedTasks, Task
<1>7. \A i \in DOMAIN tasks : tasks[i].token \in S => tasks[i].dirs \subseteq d
  BY DEF QueuedTasks
<1>8. aborter' = [aborter EXCEPT ![a] = [pc |-> "reset", todo |-> d]]
  BY DEF cancelTasks
<1> QED BY <1>2, <1>3, <1>4, <1>5, <1>6, <1>7, <1>8

\* A step of abortRefresh keeps the types.
LEMMA AborterTypes ==
    ASSUME TypeOK, NEW a \in Aborters, abortRefresh(a)
    PROVE  TypeOK'
<1> USE DEF TypeOK
<1>1. ASSUME NEW S \in SUBSET Tokens, cancelTasks(a, S) PROVE TypeOK'
  <2>1. PICK d \in SUBSET Paths : aborter' = [aborter EXCEPT ![a] = [pc |-> "reset", todo |-> d]]
    BY <1>1, Canceled
  <2>2. [pc |-> "reset", todo |-> d] \in AborterType
    BY DEF AborterType
  <2> QED BY <1>1, <2>1, <2>2, Canceled DEF cancelTasks
<1>2. ASSUME resetState(a) PROVE TypeOK'
  <2>1. PICK p \in aborter[a].todo :
          /\ setRefreshState(p, "NORMAL")
          /\ aborter' = [aborter EXCEPT ![a] =
               IF aborter[a].todo = {p} THEN Quiet
               ELSE [pc |-> "reset", todo |-> aborter[a].todo \ {p}]]
    BY <1>2 DEF resetState
  <2>2. p \in Paths
    BY DEF AborterType
  <2>3. refreshState' \in [Roots -> RefreshStates]
    BY <2>1, <2>2, StateSet DEF RefreshStates
  <2>4. [pc |-> "reset", todo |-> aborter[a].todo \ {p}] \in AborterType
    BY DEF AborterType
  <2>5. aborter' \in [Aborters -> AborterType]
    BY <2>1, <2>4, Records
  <2> QED BY <1>2, <2>3, <2>5 DEF resetState
<1>3. \A t \in Tokens : {t} \in SUBSET Tokens
  OBVIOUS
<1> QED BY <1>1, <1>2, <1>3 DEF abortRefresh

\* A step of addRefreshTask preserves the invariant.
LEMMA CallerStep ==
    ASSUME TypeOK, ShareInvariant, NEW c \in Callers, addRefreshTask(c)
    PROVE  ShareInvariant'
<1> USE DEF ShareInvariant
<1>1. ASSUME NEW dirs \in SUBSET Paths, validateRefreshTask(c, dirs) PROVE ShareInvariant'
  <2>1. /\ caller[c].pc = "idle"
        /\ UNCHANGED <<tasks, tasksRunning, refreshState, runner, aborter>>
    BY <1>1 DEF validateRefreshTask
  <2>2. PICK t \in Tokens \ used :
          /\ used' = used \cup {t}
          /\ caller' = [caller EXCEPT ![c] =
               [pc |-> "queue", dirs |-> unqueued(dirs), todo |-> unqueued(dirs), token |-> t]]
    BY <1>1 DEF validateRefreshTask
  <2>3. /\ \A d \in Callers : d # c => caller'[d] = caller[d]
        /\ caller'[c].pc = "queue" /\ caller'[c].token = t
        /\ caller'[c].todo = caller'[c].dirs
    BY <2>2 DEF TypeOK
  <2>4. /\ t \notin used /\ t # NoToken /\ used \subseteq used'
        /\ t \in used'
    BY <2>2, TokensAssumption
  <2>5. \A r \in Runners : runner[r].pc = "completed" => runner[r].token # t
    BY <2>4 DEF TokenOwners
  <2>6. \A i \in DOMAIN tasks : tasks[i].token # t
    BY <2>4 DEF TokenOwners
  <2>7. \A d \in Callers : caller[d].token # t
    BY <2>4 DEF TokenOwners
  <2>8. OneRunner'
    BY <2>1, <2>2, <2>3, <2>4, <2>5, <2>6, <2>7 DEF OneRunner, Holders, BlockingRuns
  <2>9. RunsFront'
    BY <2>1, <2>2, <2>3, <2>4, <2>5, <2>6, <2>7 DEF RunsFront
  <2>10. CompletedRemoved'
    BY <2>1, <2>2, <2>3, <2>4, <2>5, <2>6, <2>7 DEF CompletedRemoved, QueuedTasks, TokenOwners
  <2>11. NoStuckRoot'
    BY <2>1, <2>2, <2>3, <2>4, <2>5, <2>6, <2>7 DEF NoStuckRoot, Responsible
  <2>12. TokenOwners'
    BY <2>1, <2>2, <2>3, <2>4, <2>5, <2>6, <2>7 DEF TokenOwners
  <2>13. BlockingRuns'
    BY <2>1, <2>2, <2>3, <2>4, <2>5, <2>6, <2>7 DEF BlockingRuns
  <2> QED BY <2>8, <2>9, <2>10, <2>11, <2>12, <2>13 DEF ShareInvariant
<1>2. ASSUME onRefreshQueued(c) PROVE ShareInvariant'
  <2>1. PICK p \in caller[c].todo :
          /\ setRefreshState(p, "PENDING")
          /\ caller' = [caller EXCEPT ![c].todo = @ \ {p}]
    BY <1>2 DEF onRefreshQueued
  <2>2. /\ caller[c].pc = "queue"
        /\ UNCHANGED <<tasks, used, tasksRunning, runner, aborter>>
    BY <1>2 DEF onRefreshQueued
  <2>3. /\ \A d \in Callers : d # c => caller'[d] = caller[d]
        /\ caller'[c].pc = "queue" /\ caller'[c].token = caller[c].token
        /\ caller'[c].dirs = caller[c].dirs
        /\ caller'[c].todo \subseteq caller[c].todo
    BY <2>1, <2>2 DEF TypeOK, CallerType
  <2>4. p \in Paths /\ p \in caller[c].dirs
    BY <2>2 DEF TypeOK, CallerType, TokenOwners
  <2>5. \A q \in Roots : q # p => refreshState'[q] = refreshState[q]
    BY <2>1, <2>4, StateSet DEF RefreshStates
  <2>6. OneRunner'
    BY <2>1, <2>2, <2>3, <2>4, <2>5 DEF OneRunner, Holders, BlockingRuns
  <2>7. RunsFront'
    BY <2>1, <2>2, <2>3, <2>4, <2>5 DEF RunsFront
  <2>8. CompletedRemoved'
    BY <2>1, <2>2, <2>3, <2>4, <2>5 DEF CompletedRemoved, QueuedTasks, TokenOwners
  <2>9. NoStuckRoot'
    BY <2>1, <2>2, <2>3, <2>4, <2>5 DEF NoStuckRoot, Responsible
  <2>10. TokenOwners'
    BY <2>1, <2>2, <2>3, <2>4, <2>5 DEF TokenOwners
  <2>11. BlockingRuns'
    BY <2>1, <2>2, <2>3, <2>4, <2>5 DEF BlockingRuns
  <2> QED BY <2>6, <2>7, <2>8, <2>9, <2>10, <2>11 DEF ShareInvariant
<1>3. ASSUME addTask(c) PROVE ShareInvariant'
  <2>1. /\ caller[c].pc = "queue"
        /\ UNCHANGED <<used, tasksRunning, refreshState, runner, aborter>>
    BY <1>3 DEF addTask
  <2>2. /\ \A d \in Callers : d # c => caller'[d] = caller[d]
        /\ caller'[c].pc = "added" /\ caller'[c].token = NoToken
    BY <1>3, Records DEF addTask, TypeOK
  <2>3. /\ DOMAIN tasks' = 1..(Len(tasks) + 1) /\ Len(tasks) \in Nat
        /\ DOMAIN tasks = 1..Len(tasks)
        /\ \A i \in DOMAIN tasks : tasks'[i] = tasks[i]
        /\ tasks'[Len(tasks) + 1] =
             [token |-> caller[c].token, dirs |-> caller[c].dirs, canceled |-> FALSE]
    BY <1>3 DEF addTask, TypeOK
  <2>4. tasks' # <<>> /\ (tasks # <<>> => Head(tasks') = Head(tasks))
    BY <1>3 DEF addTask, TypeOK
  <2>5. /\ caller[c].token \in used
        /\ \A i \in DOMAIN tasks : tasks[i].token # caller[c].token
        /\ \A r \in Runners : runner[r].pc = "completed" => runner[r].token # caller[c].token
    BY <2>1 DEF TokenOwners, CompletedRemoved
  <2>6. \A i \in DOMAIN tasks' : (i \in DOMAIN tasks /\ tasks'[i] = tasks[i])
                                   \/ (i = Len(tasks) + 1 /\ i \notin DOMAIN tasks)
    <3>1. \A i \in 1..(Len(tasks) + 1) : i \in 1..Len(tasks) \/ (i = Len(tasks) + 1 /\ i \notin 1..Len(tasks))
      BY <2>3
    <3> QED BY <2>3, <3>1
  <2>7. LET n == Len(tasks) + 1
        IN  /\ n \in DOMAIN tasks' /\ tasks'[n].token = caller[c].token
            /\ tasks'[n].dirs = caller[c].dirs /\ ~tasks'[n].canceled
    BY <2>3
  <2>8. OneRunner'
    BY <2>1, <2>2, <2>3, <2>4, <2>5, <2>6, <2>7 DEF OneRunner, Holders, BlockingRuns
  <2>9. RunsFront'
    BY <2>1, <2>2, <2>3, <2>4, <2>5, <2>6, <2>7 DEF RunsFront
  <2>10. CompletedRemoved'
    <3>1. \A t \in QueuedTasks' : t \in QueuedTasks \/ t.token = caller[c].token
      BY <2>3, <2>6 DEF QueuedTasks
    <3> QED BY <2>1, <2>2, <2>5, <3>1, TokensAssumption DEF CompletedRemoved, TokenOwners, TypeOK
  <2>11. NoStuckRoot'
    <3> SUFFICES ASSUME NEW q \in Roots, refreshState'[q] # "NORMAL" PROVE Responsible(q)'
      BY DEF NoStuckRoot
    <3>1. Responsible(q)
      BY <2>1 DEF NoStuckRoot
    <3>2. CASE \E d \in Callers : caller[d].pc = "queue" /\ q \in caller[d].dirs
      <4>1. PICK d \in Callers : caller[d].pc = "queue" /\ q \in caller[d].dirs
        BY <3>2
      <4>2. CASE d # c
        BY <2>2, <4>1, <4>2 DEF Responsible
      <4>3. CASE d = c
        <5>1. \A r \in Runners : Len(tasks) + 1 = 1 => runner'[r].pc # "refresh"
          BY <2>1, <2>3, QueueFacts DEF RunsFront
        <5> QED BY <2>7, <4>1, <4>3, <5>1 DEF Responsible
      <4> QED BY <4>2, <4>3
    <3>3. CASE ~\E d \in Callers : caller[d].pc = "queue" /\ q \in caller[d].dirs
      BY <2>1, <2>3, <3>1, <3>3 DEF Responsible
    <3> QED BY <3>2, <3>3
  <2>12. TokenOwners'
    <3>1. \A i, j \in DOMAIN tasks' : tasks'[i].token = tasks'[j].token => i = j
      BY <2>5, <2>6, <2>7 DEF TokenOwners
    <3>2. \A i \in DOMAIN tasks' : tasks'[i].token \in used'
      BY <2>1, <2>5, <2>6, <2>7 DEF TokenOwners
    <3>3. ASSUME NEW d \in Callers, caller'[d].pc = "queue"
          PROVE  /\ caller'[d].token \in used'
                 /\ caller'[d].todo \subseteq caller'[d].dirs
                 /\ \A i \in DOMAIN tasks' : tasks'[i].token # caller'[d].token
      BY <2>1, <2>2, <2>6, <2>7, <3>3 DEF TokenOwners
    <3>4. \A d, e \in Callers :
            caller'[d].pc = "queue" /\ caller'[d].token = caller'[e].token => d = e
      BY <2>2, TokensAssumption DEF TokenOwners, TypeOK
    <3> QED BY <2>1, <2>2, <3>1, <3>2, <3>3, <3>4 DEF TokenOwners
  <2>13. BlockingRuns'
    BY <2>1, <2>2, <2>3, <2>4, <2>5, <2>6, <2>7, ThreadsAssumption DEF BlockingRuns
  <2> QED BY <2>8, <2>9, <2>10, <2>11, <2>12, <2>13 DEF ShareInvariant
<1>4. ASSUME leaveQueued(c) PROVE ShareInvariant'
  <2>1. /\ caller[c].pc = "added"
        /\ UNCHANGED <<tasks, used, tasksRunning, refreshState, runner, aborter>>
    BY <1>4 DEF leaveQueued
  <2>2. /\ \A d \in Callers : d # c => caller'[d] = caller[d]
        /\ caller'[c].pc = "idle" /\ caller'[c].token = NoToken
    BY <1>4, Records DEF leaveQueued, TypeOK
  <2>3. OneRunner'
    BY <2>1, <2>2 DEF OneRunner, Holders, BlockingRuns
  <2>4. RunsFront'
    BY <2>1, <2>2 DEF RunsFront
  <2>5. CompletedRemoved'
    BY <2>1, <2>2 DEF CompletedRemoved, QueuedTasks, TokenOwners
  <2>6. NoStuckRoot'
    BY <2>1, <2>2 DEF NoStuckRoot, Responsible
  <2>7. TokenOwners'
    BY <2>1, <2>2 DEF TokenOwners
  <2>8. BlockingRuns'
    BY <2>1, <2>2, ThreadsAssumption DEF BlockingRuns
  <2> QED BY <2>3, <2>4, <2>5, <2>6, <2>7, <2>8 DEF ShareInvariant
<1>5. ASSUME testAndSet(c) PROVE ShareInvariant'
  <2>1. /\ caller[c].pc = "added" /\ ~tasksRunning /\ tasksRunning' = TRUE
        /\ UNCHANGED <<tasks, used, refreshState, aborter>>
    BY <1>5 DEF testAndSet
  <2>2. /\ \A d \in Callers : d # c => caller'[d] = caller[d]
        /\ caller'[c].pc = IF c \in Blockers THEN "running" ELSE "start"
        /\ caller'[c].token = NoToken
    BY <1>5, Records DEF testAndSet, TypeOK
  <2>3. /\ \A r \in Runners : r # c => runner'[r] = runner[r]
        /\ c \in Blockers => runner'[c].pc = "get"
        /\ c \notin Blockers => runner' = runner
    BY <1>5, Records, ThreadsAssumption DEF testAndSet, TypeOK, Runners
  <2>4. c \in Runners => c \in Blockers
    BY ThreadsAssumption DEF Runners
  <2>5. Holders = {} /\ Holders' = {c}
    <3>1. Holders = {}
      BY <2>1 DEF OneRunner
    <3>2. \A x \in Callers \cup {Worker} : x \in Holders' <=> x = c
      <4>1. c \in Holders'
        BY <2>2, <2>3, <2>4, ThreadsAssumption DEF Holders, Runners
      <4>2. \A x \in Callers \cup {Worker} : x # c => (x \in Holders' <=> x \in Holders)
        BY <2>2, <2>3, <2>4 DEF Holders
      <4> QED BY <3>1, <4>1, <4>2
    <3> QED BY <3>1, <3>2 DEF Holders
  <2>6. OneRunner'
    BY <2>1, <2>2, <2>3, <2>4, <2>5 DEF OneRunner, Holders, BlockingRuns
  <2>7. RunsFront'
    BY <2>1, <2>2, <2>3, <2>4, <2>5 DEF RunsFront
  <2>8. CompletedRemoved'
    BY <2>1, <2>2, <2>3, <2>4, <2>5 DEF CompletedRemoved, QueuedTasks, TokenOwners
  <2>9. NoStuckRoot'
    BY <2>1, <2>2, <2>3, <2>4, <2>5 DEF NoStuckRoot, Responsible, BlockingRuns
  <2>10. TokenOwners'
    BY <2>1, <2>2, <2>3, <2>4, <2>5 DEF TokenOwners
  <2>11. BlockingRuns'
    BY <2>1, <2>2, <2>3, <2>4, <2>5, ThreadsAssumption DEF BlockingRuns, Runners
  <2> QED BY <2>6, <2>7, <2>8, <2>9, <2>10, <2>11 DEF ShareInvariant
<1>6. ASSUME start(c) PROVE ShareInvariant'
  <2>1. /\ caller[c].pc = "start" /\ runner[Worker].pc = "ended"
        /\ UNCHANGED <<tasks, used, tasksRunning, refreshState, aborter>>
    BY <1>6 DEF start
  <2>2. /\ \A d \in Callers : d # c => caller'[d] = caller[d]
        /\ caller'[c].pc = "idle" /\ caller'[c].token = NoToken
    BY <1>6, Records DEF start, TypeOK
  <2>3. /\ \A r \in Runners : r # Worker => runner'[r] = runner[r]
        /\ runner'[Worker].pc = "get" /\ Worker \in Runners
    BY <1>6, Records DEF start, TypeOK, Runners
  <2>4. Worker \notin Callers /\ c \notin Blockers
    BY <2>1, ThreadsAssumption DEF BlockingRuns
  <2>5. c \in Holders /\ Holders' = (Holders \ {c}) \cup {Worker}
    <3>1. \A x \in Callers \cup {Worker} :
            x \in Holders' <=> (x \in Holders /\ x # c) \/ x = Worker
      <4>1. Worker \in Holders' /\ c # Worker
        BY <2>3, <2>4 DEF Holders
      <4>2. c \notin Holders'
        BY <2>2, <2>4, <4>1 DEF Holders, Runners
      <4>3. \A x \in Callers : x # c => (x \in Holders' <=> x \in Holders)
        BY <2>2, <2>3, <2>4 DEF Holders
      <4> QED BY <4>1, <4>2, <4>3
    <3>2. c \in Holders
      BY <2>1 DEF Holders
    <3> QED BY <3>1, <3>2 DEF Holders
  <2>6. OneRunner'
    BY <2>1, <2>2, <2>3, <2>4, <2>5 DEF OneRunner, Holders, BlockingRuns
  <2>7. RunsFront'
    BY <2>1, <2>2, <2>3, <2>4, <2>5 DEF RunsFront
  <2>8. CompletedRemoved'
    BY <2>1, <2>2, <2>3, <2>4, <2>5 DEF CompletedRemoved, QueuedTasks, TokenOwners
  <2>9. NoStuckRoot'
    BY <2>1, <2>2, <2>3, <2>4, <2>5 DEF NoStuckRoot, Responsible
  <2>10. TokenOwners'
    BY <2>1, <2>2, <2>3, <2>4, <2>5 DEF TokenOwners
  <2>11. BlockingRuns'
    BY <2>1, <2>2, <2>3, <2>4, <2>5, ThreadsAssumption DEF BlockingRuns, Runners
  <2> QED BY <2>6, <2>7, <2>8, <2>9, <2>10, <2>11 DEF ShareInvariant
<1>7. ASSUME startFails(c) PROVE ShareInvariant'
  <2>1. /\ caller[c].pc = "start"
        /\ UNCHANGED <<tasks, used, refreshState, runner, aborter>>
        /\ tasksRunning' = FALSE
    BY <1>7 DEF startFails
  <2>2. /\ \A d \in Callers : d # c => caller'[d] = caller[d]
        /\ caller'[c].pc = "idle" /\ caller'[c].token = NoToken
    BY <1>7, Records DEF startFails, TypeOK
  <2>3. c \in Holders /\ Holders' = Holders \ {c}
    BY <2>1, <2>2, ThreadsAssumption DEF Holders, BlockingRuns, Runners
  <2>4. OneRunner'
    BY <2>1, <2>2, <2>3 DEF OneRunner, Holders, BlockingRuns
  <2>5. RunsFront'
    BY <2>1, <2>2, <2>3 DEF RunsFront
  <2>6. CompletedRemoved'
    BY <2>1, <2>2, <2>3 DEF CompletedRemoved, QueuedTasks, TokenOwners
  <2>7. NoStuckRoot'
    BY <2>1, <2>2, <2>3 DEF NoStuckRoot, Responsible
  <2>8. TokenOwners'
    BY <2>1, <2>2, <2>3 DEF TokenOwners
  <2>9. BlockingRuns'
    BY <2>1, <2>2, <2>3, ThreadsAssumption DEF BlockingRuns
  <2> QED BY <2>4, <2>5, <2>6, <2>7, <2>8, <2>9 DEF ShareInvariant
<1> QED BY <1>1, <1>2, <1>3, <1>4, <1>5, <1>6, <1>7 DEF addRefreshTask

\* A runner that owns the flag is the only one.
LEMMA OnlyRunner ==
    ASSUME OneRunner, NEW r \in Runners,
           runner[r].pc \in {"get", "refresh", "completed", "clear"}
    PROVE  /\ Holders = {r} /\ tasksRunning
           /\ \A s \in Runners : s # r => runner[s].pc \notin {"get", "refresh", "completed", "clear"}
           /\ \A c \in Callers : caller[c].pc # "start" \/ c = r
<1>1. r \in Holders
  BY ThreadsAssumption DEF Holders, Runners
<1>2. Holders = {r} /\ tasksRunning
  BY <1>1 DEF OneRunner
<1>3. \A s \in Runners : s # r => runner[s].pc \notin {"get", "refresh", "completed", "clear"}
  BY <1>2, ThreadsAssumption DEF Holders, Runners
<1>4. \A c \in Callers : caller[c].pc # "start" \/ c = r
  BY <1>2 DEF Holders
<1> QED BY <1>2, <1>3, <1>4

\* A step of a runner that keeps the flag keeps the owners of the flag.
LEMMA SameHolder ==
    ASSUME OneRunner, NEW r \in Runners,
           runner[r].pc \in {"get", "refresh", "completed", "clear"},
           runner'[r].pc \in {"get", "refresh", "completed", "clear"},
           \A s \in Runners : s # r => runner'[s] = runner[s],
           UNCHANGED <<caller, tasksRunning>>
    PROVE  OneRunner'
<1>1. Holders = {r} /\ tasksRunning
  BY OnlyRunner
<1>2. \A x \in Callers \cup {Worker} : x \in Holders' <=> x \in Holders
  BY <1>1 DEF Holders
<1>3. Holders' = Holders
  BY <1>2 DEF Holders
<1> QED BY <1>1, <1>3 DEF OneRunner

\* A step of runTasks preserves the invariant.
LEMMA RunnerStep ==
    ASSUME TypeOK, ShareInvariant, NEW r \in Runners, runTasks(r)
    PROVE  ShareInvariant'
<1> USE DEF ShareInvariant
<1>1. ASSUME getFront(r) PROVE ShareInvariant'
  <2>1. /\ runner[r].pc = "get" /\ tasks # <<>>
        /\ UNCHANGED <<tasks, used, tasksRunning, refreshState, caller, aborter>>
    BY <1>1 DEF getFront
  <2>2. /\ \A s \in Runners : s # r => runner'[s] = runner[s]
        /\ runner'[r].pc = "refresh" /\ runner'[r].token = Head(tasks).token
        /\ \A p \in Paths : runner'[r].phase[p] = IF p \in Head(tasks).dirs THEN "todo" ELSE "none"
    BY <1>1 DEF getFront, TypeOK
  <2>3. \A s \in Runners : s # r => runner[s].pc \notin {"get", "refresh", "completed", "clear"}
    BY <2>1, OnlyRunner
  <2>4. OneRunner'
    BY <2>1, <2>2, <2>3, SameHolder DEF OneRunner, Holders, BlockingRuns
  <2>5. RunsFront'
    BY <2>1, <2>2, <2>3 DEF RunsFront
  <2>6. CompletedRemoved'
    BY <2>1, <2>2, <2>3 DEF CompletedRemoved, QueuedTasks, TokenOwners
  <2>7. NoStuckRoot'
    BY <2>1, <2>2, <2>3, RootsAssumption DEF NoStuckRoot, Responsible
  <2>8. TokenOwners'
    BY <2>1, <2>2, <2>3 DEF TokenOwners
  <2>9. BlockingRuns'
    <3>1. \A d \in Blockers : d \in Runners
      BY DEF Runners
    <3> QED BY <2>1, <2>2, <2>3, <3>1 DEF BlockingRuns
  <2> QED BY <2>4, <2>5, <2>6, <2>7, <2>8, <2>9 DEF ShareInvariant
<1>2. ASSUME getNothing(r) PROVE ShareInvariant'
  <2>1. /\ runner[r].pc = "get"
        /\ UNCHANGED <<tasks, used, tasksRunning, refreshState, caller, aborter>>
    BY <1>2 DEF getNothing
  <2>2. /\ \A s \in Runners : s # r => runner'[s] = runner[s]
        /\ runner'[r].pc = "clear"
    BY <1>2, Records DEF getNothing, TypeOK
  <2>3. \A s \in Runners : s # r => runner[s].pc \notin {"get", "refresh", "completed", "clear"}
    BY <2>1, OnlyRunner
  <2>4. OneRunner'
    BY <2>1, <2>2, <2>3, SameHolder DEF OneRunner, Holders, BlockingRuns
  <2>5. RunsFront'
    BY <2>1, <2>2, <2>3 DEF RunsFront
  <2>6. CompletedRemoved'
    BY <2>1, <2>2, <2>3 DEF CompletedRemoved, QueuedTasks, TokenOwners
  <2>7. NoStuckRoot'
    BY <2>1, <2>2, <2>3 DEF NoStuckRoot, Responsible
  <2>8. TokenOwners'
    BY <2>1, <2>2, <2>3 DEF TokenOwners
  <2>9. BlockingRuns'
    <3>1. \A d \in Blockers : d \in Runners
      BY DEF Runners
    <3> QED BY <2>1, <2>2, <2>3, <3>1 DEF BlockingRuns
  <2> QED BY <2>4, <2>5, <2>6, <2>7, <2>8, <2>9 DEF ShareInvariant
<1>3. ASSUME NEW p \in Paths, doRefresh(r, p) PROVE ShareInvariant'
  <2>1. /\ runner[r].pc = "refresh" /\ runner[r].phase[p] = "todo" /\ tasks # <<>>
        /\ UNCHANGED <<tasks, used, tasksRunning, refreshState, caller, aborter>>
    BY <1>3 DEF doRefresh
  <2>2. /\ \A s \in Runners : s # r => runner'[s] = runner[s]
        /\ runner'[r].pc = "refresh" /\ runner'[r].token = runner[r].token
        /\ runner'[r].phase[p] = IF Head(tasks).canceled THEN "done" ELSE "start"
        /\ \A q \in Paths : q # p => runner'[r].phase[q] = runner[r].phase[q]
    <3> DEFINE ph == IF Head(tasks).canceled THEN "done" ELSE "start"
    <3>1. ph \in Phases
      BY DEF Phases
    <3>2. runner' = [runner EXCEPT ![r].phase[p] = ph]
      BY <1>3 DEF doRefresh
    <3> HIDE DEF ph
    <3>3. /\ \A s \in Runners : s # r => runner'[s] = runner[s]
          /\ runner'[r].pc = "refresh" /\ runner'[r].token = runner[r].token
          /\ runner'[r].phase[p] = ph
          /\ \A q \in Paths : q # p => runner'[r].phase[q] = runner[r].phase[q]
      BY <2>1, <3>1, <3>2, PhaseSet DEF TypeOK
    <3> QED BY <3>3 DEF ph
  <2>3. \A s \in Runners : s # r => runner[s].pc \notin {"get", "refresh", "completed", "clear"}
    BY <2>1, OnlyRunner
  <2>4. Head(tasks) = tasks[1] /\ 1 \in DOMAIN tasks
    BY <2>1, QueueFacts
  <2>5. OneRunner'
    BY <2>1, <2>2, <2>3, <2>4, SameHolder DEF OneRunner, Holders, BlockingRuns
  <2>6. RunsFront'
    BY <2>1, <2>2, <2>3, <2>4 DEF RunsFront
  <2>7. CompletedRemoved'
    BY <2>1, <2>2, <2>3, <2>4 DEF CompletedRemoved, QueuedTasks, TokenOwners
  <2>8. NoStuckRoot'
    <3> SUFFICES ASSUME NEW q \in Roots, refreshState'[q] # "NORMAL" PROVE Responsible(q)'
      BY DEF NoStuckRoot
    <3>1. Responsible(q) /\ q \in Paths
      BY <2>1, RootsAssumption DEF NoStuckRoot
    <3>2. CASE \E i \in DOMAIN tasks :
                 /\ q \in tasks[i].dirs /\ ~tasks[i].canceled
                 /\ \A s \in Runners :
                      i = 1 /\ runner[s].pc = "refresh" => runner[s].phase[q] # "done"
      BY <2>1, <2>2, <2>3, <2>4, <3>1, <3>2 DEF Responsible
    <3>3. CASE ~\E i \in DOMAIN tasks :
                 /\ q \in tasks[i].dirs /\ ~tasks[i].canceled
                 /\ \A s \in Runners :
                      i = 1 /\ runner[s].pc = "refresh" => runner[s].phase[q] # "done"
      BY <2>1, <2>2, <3>1, <3>3 DEF Responsible
    <3> QED BY <3>2, <3>3
  <2>9. TokenOwners'
    BY <2>1, <2>2, <2>3, <2>4 DEF TokenOwners
  <2>10. BlockingRuns'
    <3>1. \A d \in Blockers : d \in Runners
      BY DEF Runners
    <3> QED BY <2>1, <2>2, <2>3, <2>4, <3>1 DEF BlockingRuns
  <2> QED BY <2>5, <2>6, <2>7, <2>8, <2>9, <2>10 DEF ShareInvariant
<1>4. ASSUME NEW p \in Paths, startBuild(r, p) PROVE ShareInvariant'
  <2>1. /\ runner[r].pc = "refresh" /\ runner[r].phase[p] \in {"start", "build"}
        /\ setRefreshState(p, "RUNNING")
        /\ UNCHANGED <<tasks, used, tasksRunning, caller, aborter>>
    BY <1>4 DEF startBuild
  <2>2. /\ \A s \in Runners : s # r => runner'[s] = runner[s]
        /\ runner'[r].pc = "refresh" /\ runner'[r].token = runner[r].token
        /\ runner'[r].phase[p] = "build"
        /\ \A q \in Paths : q # p => runner'[r].phase[q] = runner[r].phase[q]
    BY <1>4, PhaseSet DEF startBuild, TypeOK, Phases
  <2>3. \A s \in Runners : s # r => runner[s].pc \notin {"get", "refresh", "completed", "clear"}
    BY <2>1, OnlyRunner
  <2>4. /\ \A q \in Roots : q # p => refreshState'[q] = refreshState[q]
        /\ p \in Roots => refreshState'[p] = "RUNNING"
    BY <2>1, StateSet DEF RefreshStates
  <2>5. OneRunner'
    BY <2>1, <2>2, <2>3, <2>4, SameHolder DEF OneRunner, Holders, BlockingRuns
  <2>6. RunsFront'
    BY <2>1, <2>2, <2>3, <2>4 DEF RunsFront
  <2>7. CompletedRemoved'
    BY <2>1, <2>2, <2>3, <2>4 DEF CompletedRemoved, QueuedTasks, TokenOwners
  <2>8. NoStuckRoot'
    <3> SUFFICES ASSUME NEW q \in Roots, refreshState'[q] # "NORMAL" PROVE Responsible(q)'
      BY DEF NoStuckRoot
    <3>1. q \in Paths
      BY RootsAssumption
    <3>2. CASE q = p
      BY <2>2, <2>4, <3>2 DEF Responsible
    <3>3. CASE q # p
      <4>1. Responsible(q)
        BY <2>4, <3>3 DEF NoStuckRoot
      <4> QED BY <2>1, <2>2, <2>3, <3>1, <3>3, <4>1 DEF Responsible
    <3> QED BY <3>2, <3>3
  <2>9. TokenOwners'
    BY <2>1, <2>2, <2>3, <2>4 DEF TokenOwners
  <2>10. BlockingRuns'
    <3>1. \A d \in Blockers : d \in Runners
      BY DEF Runners
    <3> QED BY <2>1, <2>2, <2>3, <2>4, <3>1 DEF BlockingRuns
  <2> QED BY <2>5, <2>6, <2>7, <2>8, <2>9, <2>10 DEF ShareInvariant
<1>5. ASSUME NEW p \in Paths, finishBuild(r, p) PROVE ShareInvariant'
  <2>1. /\ runner[r].pc = "refresh" /\ runner[r].phase[p] \in {"start", "build"}
        /\ setRefreshState(p, "NORMAL")
        /\ UNCHANGED <<tasks, used, tasksRunning, caller, aborter>>
    BY <1>5 DEF finishBuild
  <2>2. /\ \A s \in Runners : s # r => runner'[s] = runner[s]
        /\ runner'[r].pc = "refresh" /\ runner'[r].token = runner[r].token
        /\ runner'[r].phase[p] = "done"
        /\ \A q \in Paths : q # p => runner'[r].phase[q] = runner[r].phase[q]
    BY <1>5, PhaseSet DEF finishBuild, TypeOK, Phases
  <2>3. \A s \in Runners : s # r => runner[s].pc \notin {"get", "refresh", "completed", "clear"}
    BY <2>1, OnlyRunner
  <2>4. /\ \A q \in Roots : q # p => refreshState'[q] = refreshState[q]
        /\ p \in Roots => refreshState'[p] = "NORMAL"
    BY <2>1, StateSet DEF RefreshStates
  <2>5. OneRunner'
    BY <2>1, <2>2, <2>3, <2>4, SameHolder DEF OneRunner, Holders, BlockingRuns
  <2>6. RunsFront'
    BY <2>1, <2>2, <2>3, <2>4 DEF RunsFront
  <2>7. CompletedRemoved'
    BY <2>1, <2>2, <2>3, <2>4 DEF CompletedRemoved, QueuedTasks, TokenOwners
  <2>8. NoStuckRoot'
    <3> SUFFICES ASSUME NEW q \in Roots, refreshState'[q] # "NORMAL" PROVE Responsible(q)'
      BY DEF NoStuckRoot
    <3>1. q \in Paths
      BY RootsAssumption
    <3>2. CASE q = p
      BY <2>2, <2>4, <3>2 DEF Responsible
    <3>3. CASE q # p
      <4>1. Responsible(q)
        BY <2>4, <3>3 DEF NoStuckRoot
      <4> QED BY <2>1, <2>2, <2>3, <3>1, <3>3, <4>1 DEF Responsible
    <3> QED BY <3>2, <3>3
  <2>9. TokenOwners'
    BY <2>1, <2>2, <2>3, <2>4 DEF TokenOwners
  <2>10. BlockingRuns'
    <3>1. \A d \in Blockers : d \in Runners
      BY DEF Runners
    <3> QED BY <2>1, <2>2, <2>3, <2>4, <3>1 DEF BlockingRuns
  <2> QED BY <2>5, <2>6, <2>7, <2>8, <2>9, <2>10 DEF ShareInvariant
<1>6. ASSUME popFront(r) PROVE ShareInvariant'
  <2>1. /\ runner[r].pc = "refresh" /\ tasks # <<>>
        /\ \A p \in Paths : runner[r].phase[p] \in {"none", "done"}
        /\ UNCHANGED <<used, tasksRunning, refreshState, caller, aborter>>
    BY <1>6 DEF popFront, Refreshed
  <2>2. /\ \A s \in Runners : s # r => runner'[s] = runner[s]
        /\ runner'[r].pc = "completed" /\ runner'[r].token = runner[r].token
    <3>1. runner[r].token \in Tokens \cup {NoToken}
      BY DEF TypeOK, RunnerType
    <3> QED BY <1>6, <3>1, Records DEF popFront, TypeOK
  <2>3. \A s \in Runners : s # r => runner[s].pc \notin {"get", "refresh", "completed", "clear"}
    BY <2>1, OnlyRunner
  <2>4. /\ DOMAIN tasks = 1..Len(tasks) /\ Len(tasks) \in Nat
        /\ 1 \in DOMAIN tasks /\ Head(tasks) = tasks[1]
        /\ DOMAIN tasks' = 1..(Len(tasks) - 1)
        /\ \A i \in DOMAIN tasks' : tasks'[i] = tasks[i + 1]
    BY <1>6, <2>1, QueueFacts DEF popFront
  <2>5. /\ \A i \in DOMAIN tasks' : i + 1 \in DOMAIN tasks /\ i + 1 # 1 /\ i \in Nat
        /\ \A i \in DOMAIN tasks : i # 1 => i - 1 \in DOMAIN tasks' /\ tasks'[i - 1] = tasks[i]
        /\ \A i, j \in DOMAIN tasks' : i + 1 = j + 1 => i = j
    BY <2>4
  <2>6. /\ runner[r].token = tasks[1].token /\ tasks[1].token \in used
        /\ \A i \in DOMAIN tasks' : tasks'[i].token # tasks[1].token
    BY <2>1, <2>4, <2>5 DEF RunsFront, TokenOwners
  <2>7. OneRunner'
    BY <2>1, <2>2, <2>3, <2>4, <2>5, <2>6, SameHolder DEF OneRunner, Holders, BlockingRuns
  <2>8. RunsFront'
    BY <2>1, <2>2, <2>3, <2>4, <2>5, <2>6 DEF RunsFront
  <2>9. CompletedRemoved'
    <3>1. \A t \in QueuedTasks' : t.token # runner[r].token
      BY <2>6 DEF QueuedTasks
    <3>2. \A c \in Callers : caller[c].token # runner[r].token
      BY <2>4, <2>6, TokensAssumption DEF TokenOwners, TypeOK
    <3> QED BY <2>1, <2>2, <2>3, <3>1, <3>2 DEF CompletedRemoved
  <2>10. NoStuckRoot'
    <3> SUFFICES ASSUME NEW q \in Roots, refreshState'[q] # "NORMAL" PROVE Responsible(q)'
      BY DEF NoStuckRoot
    <3>1. Responsible(q) /\ q \in Paths
      BY <2>1, RootsAssumption DEF NoStuckRoot
    <3>2. \A s \in Runners : runner'[s].pc # "refresh"
      BY <2>2, <2>3
    <3>3. CASE \E i \in DOMAIN tasks :
                 /\ q \in tasks[i].dirs /\ ~tasks[i].canceled
                 /\ \A s \in Runners :
                      i = 1 /\ runner[s].pc = "refresh" => runner[s].phase[q] # "done"
      <4>1. PICK i \in DOMAIN tasks :
              /\ q \in tasks[i].dirs /\ ~tasks[i].canceled
              /\ i = 1 => runner[r].phase[q] # "done"
        BY <2>1, <3>3
      <4>2. i # 1
        BY <2>1, <2>4, <3>1, <4>1 DEF RunsFront
      <4>3. /\ i - 1 \in DOMAIN tasks' /\ q \in tasks'[i - 1].dirs
            /\ ~tasks'[i - 1].canceled
        BY <2>5, <4>1, <4>2
      <4> QED BY <3>2, <4>3 DEF Responsible
    <3>4. CASE ~\E i \in DOMAIN tasks :
                 /\ q \in tasks[i].dirs /\ ~tasks[i].canceled
                 /\ \A s \in Runners :
                      i = 1 /\ runner[s].pc = "refresh" => runner[s].phase[q] # "done"
      BY <2>1, <2>3, <3>1, <3>4 DEF Responsible
    <3> QED BY <3>3, <3>4
  <2>11. TokenOwners'
    <3>1. \A i, j \in DOMAIN tasks' : tasks'[i].token = tasks'[j].token => i = j
      BY <2>4, <2>5 DEF TokenOwners
    <3>2. \A i \in DOMAIN tasks' :
            tasks'[i].token \in used /\ \A c \in Callers :
              caller[c].pc = "queue" => tasks'[i].token # caller[c].token
      BY <2>4, <2>5 DEF TokenOwners
    <3> QED BY <2>1, <2>2, <2>6, <3>1, <3>2 DEF TokenOwners
  <2>12. BlockingRuns'
    <3>1. \A d \in Blockers : d \in Runners
      BY DEF Runners
    <3> QED BY <2>1, <2>2, <2>3, <2>4, <2>5, <2>6, <3>1 DEF BlockingRuns
  <2> QED BY <2>7, <2>8, <2>9, <2>10, <2>11, <2>12 DEF ShareInvariant
<1>7. ASSUME refreshCompleted(r) PROVE ShareInvariant'
  <2>1. /\ runner[r].pc = "completed"
        /\ UNCHANGED <<tasks, used, tasksRunning, refreshState, caller, aborter>>
    BY <1>7 DEF refreshCompleted
  <2>2. /\ \A s \in Runners : s # r => runner'[s] = runner[s]
        /\ runner'[r].pc = "get"
    BY <1>7, Records DEF refreshCompleted, TypeOK
  <2>3. \A s \in Runners : s # r => runner[s].pc \notin {"get", "refresh", "completed", "clear"}
    BY <2>1, OnlyRunner
  <2>4. OneRunner'
    BY <2>1, <2>2, <2>3, SameHolder DEF OneRunner, Holders, BlockingRuns
  <2>5. RunsFront'
    BY <2>1, <2>2, <2>3 DEF RunsFront
  <2>6. CompletedRemoved'
    BY <2>1, <2>2, <2>3 DEF CompletedRemoved, QueuedTasks, TokenOwners
  <2>7. NoStuckRoot'
    BY <2>1, <2>2, <2>3 DEF NoStuckRoot, Responsible
  <2>8. TokenOwners'
    BY <2>1, <2>2, <2>3 DEF TokenOwners
  <2>9. BlockingRuns'
    <3>1. \A d \in Blockers : d \in Runners
      BY DEF Runners
    <3> QED BY <2>1, <2>2, <2>3, <3>1 DEF BlockingRuns
  <2> QED BY <2>4, <2>5, <2>6, <2>7, <2>8, <2>9 DEF ShareInvariant
<1>8. ASSUME clearRunning(r) PROVE ShareInvariant'
  <2>1. /\ runner[r].pc = "clear" /\ tasksRunning' = FALSE
        /\ UNCHANGED <<tasks, used, refreshState, caller, aborter>>
    BY <1>8 DEF clearRunning
  <2>2. /\ \A s \in Runners : s # r => runner'[s] = runner[s]
        /\ runner'[r].pc = "release"
    BY <1>8, Records DEF clearRunning, TypeOK
  <2>3. r \in Holders /\ Holders' = {}
    <3>1. Holders = {r} /\ \A c \in Callers : caller[c].pc # "start" \/ c = r
      BY <2>1, OnlyRunner
    <3>2. r \in Callers => r \in Blockers
      BY ThreadsAssumption DEF Runners
    <3>3. \A x \in Callers \cup {Worker} : x \notin Holders'
      BY <2>1, <2>2, <3>1, <3>2, ThreadsAssumption DEF Holders, BlockingRuns
    <3> QED BY <3>1, <3>3 DEF Holders
  <2>4. OneRunner'
    BY <2>1, <2>2, <2>3 DEF OneRunner, Holders, BlockingRuns
  <2>5. RunsFront'
    BY <2>1, <2>2, <2>3 DEF RunsFront
  <2>6. CompletedRemoved'
    BY <2>1, <2>2, <2>3 DEF CompletedRemoved, QueuedTasks, TokenOwners
  <2>7. NoStuckRoot'
    BY <2>1, <2>2, <2>3 DEF NoStuckRoot, Responsible
  <2>8. TokenOwners'
    BY <2>1, <2>2, <2>3 DEF TokenOwners
  <2>9. BlockingRuns'
    <3>1. \A d \in Blockers : d \in Runners
      BY DEF Runners
    <3> QED BY <2>1, <2>2, <2>3, <3>1 DEF BlockingRuns
  <2> QED BY <2>4, <2>5, <2>6, <2>7, <2>8, <2>9 DEF ShareInvariant
<1>9. ASSUME endRun(r) PROVE ShareInvariant'
  <2>1. /\ runner[r].pc = "release"
        /\ UNCHANGED <<tasks, used, tasksRunning, refreshState, aborter>>
    BY <1>9 DEF endRun
  <2>2. /\ \A s \in Runners : s # r => runner'[s] = runner[s]
        /\ runner'[r].pc = "ended"
    BY <1>9, Records DEF endRun, TypeOK
  <2>3. /\ \A d \in Callers : d # r => caller'[d] = caller[d]
        /\ r \in Callers => caller'[r].pc = "idle" /\ caller'[r].token = NoToken
    BY <1>9, Records DEF endRun, TypeOK
  <2>4. r \in Callers => caller[r].pc = "running"
    BY <2>1, ThreadsAssumption DEF BlockingRuns, Runners
  <2>5. Holders' = Holders
    <3>1. \A x \in Callers \cup {Worker} : x \in Holders' <=> x \in Holders
      BY <2>1, <2>2, <2>3, <2>4 DEF Holders
    <3> QED BY <3>1 DEF Holders
  <2>6. OneRunner'
    BY <2>1, <2>2, <2>3, <2>4, <2>5 DEF OneRunner, Holders, BlockingRuns
  <2>7. RunsFront'
    BY <2>1, <2>2, <2>3, <2>4, <2>5 DEF RunsFront
  <2>8. CompletedRemoved'
    BY <2>1, <2>2, <2>3, <2>4, <2>5 DEF CompletedRemoved, QueuedTasks, TokenOwners
  <2>9. NoStuckRoot'
    BY <2>1, <2>2, <2>3, <2>4, <2>5 DEF NoStuckRoot, Responsible
  <2>10. TokenOwners'
    BY <2>1, <2>2, <2>3, <2>4, <2>5 DEF TokenOwners
  <2>11. BlockingRuns'
    <3>1. (\A d \in Blockers : d \in Runners /\ d \in Callers) /\ (r \in Callers => r \in Blockers)
      BY ThreadsAssumption DEF Runners
    <3> QED BY <2>1, <2>2, <2>3, <2>4, <2>5, <3>1 DEF BlockingRuns
  <2> QED BY <2>6, <2>7, <2>8, <2>9, <2>10, <2>11 DEF ShareInvariant
<1> QED BY <1>1, <1>2, <1>3, <1>4, <1>5, <1>6, <1>7, <1>8, <1>9 DEF runTasks

\* A step of abortRefresh preserves the invariant.
LEMMA AborterStep ==
    ASSUME TypeOK, ShareInvariant, NEW a \in Aborters, abortRefresh(a)
    PROVE  ShareInvariant'
<1> USE DEF ShareInvariant
<1>1. ASSUME NEW S \in SUBSET Tokens, cancelTasks(a, S) PROVE ShareInvariant'
  <2>1. /\ aborter[a].pc = "idle"
        /\ UNCHANGED <<used, tasksRunning, refreshState, caller, runner>>
    BY <1>1 DEF cancelTasks
  <2>2. /\ DOMAIN tasks' = DOMAIN tasks /\ tasks # <<>> /\ tasks' # <<>>
        /\ Head(tasks) = tasks[1] /\ Head(tasks') = tasks'[1] /\ 1 \in DOMAIN tasks
        /\ \A i \in DOMAIN tasks :
             /\ tasks'[i].token = tasks[i].token /\ tasks'[i].dirs = tasks[i].dirs
             /\ tasks[i].token \notin S => tasks'[i] = tasks[i]
    BY <1>1, Canceled, QueueFacts
  <2>3. PICK d \in SUBSET Paths :
          /\ aborter' = [aborter EXCEPT ![a] = [pc |-> "reset", todo |-> d]]
          /\ \A i \in DOMAIN tasks : tasks[i].token \in S => tasks[i].dirs \subseteq d
    BY <1>1, Canceled
  <2>4. /\ \A b \in Aborters : b # a => aborter'[b] = aborter[b]
        /\ aborter'[a].pc = "reset" /\ aborter'[a].todo = d
    BY <2>3 DEF TypeOK
  <2>5. OneRunner'
    BY <2>1, <2>2, <2>3, <2>4 DEF OneRunner, Holders, BlockingRuns
  <2>6. RunsFront'
    BY <2>1, <2>2, <2>3, <2>4 DEF RunsFront
  <2>7. CompletedRemoved'
    <3>1. \A t \in QueuedTasks' : \E u \in QueuedTasks : t.token = u.token
      BY <2>2 DEF QueuedTasks
    <3> QED BY <2>1, <3>1 DEF CompletedRemoved
  <2>8. NoStuckRoot'
    <3> SUFFICES ASSUME NEW q \in Roots, refreshState'[q] # "NORMAL" PROVE Responsible(q)'
      BY DEF NoStuckRoot
    <3>1. Responsible(q)
      BY <2>1 DEF NoStuckRoot
    <3>2. CASE \E i \in DOMAIN tasks :
                 /\ q \in tasks[i].dirs /\ ~tasks[i].canceled
                 /\ \A s \in Runners :
                      i = 1 /\ runner[s].pc = "refresh" => runner[s].phase[q] # "done"
      <4>1. PICK i \in DOMAIN tasks :
              /\ q \in tasks[i].dirs /\ ~tasks[i].canceled
              /\ \A s \in Runners :
                   i = 1 /\ runner[s].pc = "refresh" => runner[s].phase[q] # "done"
        BY <3>2
      <4>2. CASE tasks[i].token \in S
        BY <2>3, <2>4, <4>1, <4>2 DEF Responsible
      <4>3. CASE tasks[i].token \notin S
        BY <2>1, <2>2, <4>1, <4>3 DEF Responsible
      <4> QED BY <4>2, <4>3
    <3>3. CASE \E b \in Aborters : q \in aborter[b].todo
      BY <2>1, <2>4, <3>3 DEF Responsible, BlockingRuns
    <3> QED BY <2>1, <3>1, <3>2, <3>3 DEF Responsible
  <2>9. TokenOwners'
    BY <2>1, <2>2, <2>3, <2>4 DEF TokenOwners
  <2>10. BlockingRuns'
    BY <2>1, <2>2, <2>3, <2>4 DEF BlockingRuns
  <2> QED BY <2>5, <2>6, <2>7, <2>8, <2>9, <2>10 DEF ShareInvariant
<1>2. ASSUME resetState(a) PROVE ShareInvariant'
  <2>1. PICK p \in aborter[a].todo :
          /\ setRefreshState(p, "NORMAL")
          /\ aborter' = [aborter EXCEPT ![a] =
               IF aborter[a].todo = {p} THEN Quiet
               ELSE [pc |-> "reset", todo |-> aborter[a].todo \ {p}]]
    BY <1>2 DEF resetState
  <2>2. UNCHANGED <<tasks, used, tasksRunning, caller, runner>>
    BY <1>2 DEF resetState
  <2>3. /\ \A b \in Aborters : b # a => aborter'[b] = aborter[b]
        /\ aborter'[a].todo = aborter[a].todo \ {p}
        /\ aborter'[a].pc = "idle" => aborter'[a].todo = {}
    BY <2>1, Records DEF TypeOK
  <2>4. p \in Paths
    BY DEF TypeOK, AborterType
  <2>5. /\ \A q \in Roots : q # p => refreshState'[q] = refreshState[q]
        /\ p \in Roots => refreshState'[p] = "NORMAL"
    BY <2>1, <2>4, StateSet DEF RefreshStates
  <2>6. OneRunner'
    BY <2>1, <2>2, <2>3, <2>4, <2>5 DEF OneRunner, Holders, BlockingRuns
  <2>7. RunsFront'
    BY <2>1, <2>2, <2>3, <2>4, <2>5 DEF RunsFront
  <2>8. CompletedRemoved'
    BY <2>1, <2>2, <2>3, <2>4, <2>5 DEF CompletedRemoved, QueuedTasks, TokenOwners
  <2>9. NoStuckRoot'
    <3> SUFFICES ASSUME NEW q \in Roots, refreshState'[q] # "NORMAL" PROVE Responsible(q)'
      BY DEF NoStuckRoot
    <3>1. q # p /\ Responsible(q)
      BY <2>5 DEF NoStuckRoot
    <3> QED BY <2>2, <2>3, <3>1 DEF Responsible
  <2>10. TokenOwners'
    BY <2>1, <2>2, <2>3, <2>4, <2>5 DEF TokenOwners
  <2>11. BlockingRuns'
    BY <2>1, <2>2, <2>3, <2>4, <2>5 DEF BlockingRuns
  <2> QED BY <2>6, <2>7, <2>8, <2>9, <2>10, <2>11 DEF ShareInvariant
<1>3. \A t \in Tokens : {t} \in SUBSET Tokens
  OBVIOUS
<1> QED BY <1>1, <1>2, <1>3 DEF abortRefresh

\* Nothing is queued, running or marked initially.
LEMMA InitInvariant == Init => ShareInvariant
<1> SUFFICES ASSUME Init PROVE ShareInvariant
  OBVIOUS
<1>1. /\ tasks = <<>> /\ DOMAIN tasks = {} /\ ~tasksRunning
      /\ \A p \in Roots : refreshState[p] = "NORMAL"
  BY DEF Init
<1>2. /\ \A c \in Callers : caller[c].pc = "idle" /\ caller[c].token = NoToken
      /\ \A r \in Runners : runner[r].pc = "ended"
      /\ \A a \in Aborters : aborter[a].todo = {}
  BY Records DEF Init
<1>3. Holders = {}
  BY <1>2 DEF Holders
<1>4. OneRunner /\ RunsFront /\ CompletedRemoved
  BY <1>1, <1>2, <1>3 DEF OneRunner, RunsFront, CompletedRemoved
<1>5. NoStuckRoot
  BY <1>1 DEF NoStuckRoot
<1>6. TokenOwners
  BY <1>1, <1>2 DEF TokenOwners
<1>7. BlockingRuns
  BY <1>2, ThreadsAssumption DEF BlockingRuns, Runners
<1> QED BY <1>4, <1>5, <1>6, <1>7 DEF ShareInvariant

\* The types and the invariant are preserved together by every step.
LEMMA ShareNext ==
  ASSUME TypeOK, ShareInvariant, [Next]_vars
  PROVE  TypeOK' /\ ShareInvariant'
<1>1. ASSUME NEW c \in Callers, addRefreshTask(c) PROVE TypeOK' /\ ShareInvariant'
  BY <1>1, CallerTypes, CallerStep DEF ShareInvariant
<1>2. ASSUME NEW r \in Runners, runTasks(r) PROVE TypeOK' /\ ShareInvariant'
  BY <1>2, RunnerTypes, RunnerStep
<1>3. ASSUME NEW a \in Aborters, abortRefresh(a) PROVE TypeOK' /\ ShareInvariant'
  BY <1>3, AborterTypes, AborterStep
<1>4. CASE UNCHANGED vars
  BY <1>4 DEF vars, TypeOK, ShareInvariant, OneRunner, Holders, RunsFront, CompletedRemoved,
              QueuedTasks, NoStuckRoot, Responsible, TokenOwners, BlockingRuns
<1> QED BY <1>1, <1>2, <1>3, <1>4 DEF Next

\* The queue, the flag, the roots and the threads keep their types, and only
\* roots that exist are ever queued: for all callers, paths and tasks.
THEOREM TypeCorrect == Spec => []TypeOK
<1>1. Init => TypeOK /\ ShareInvariant
  BY InitTypes, InitInvariant
<1>2. TypeOK /\ ShareInvariant /\ [Next]_vars => TypeOK' /\ ShareInvariant'
  BY ShareNext
<1> QED BY <1>1, <1>2, PTL DEF Spec

\* The queue of refreshes has one consumer at a time, which works on the
\* first task until it removes it; the completion of a task is reported after
\* its removal; and no root stays PENDING or RUNNING with nobody left to make
\* it NORMAL, for all callers, paths and tasks.
THEOREM RefreshesOwned == Spec => []ShareInvariant
<1>1. Init => TypeOK /\ ShareInvariant
  BY InitTypes, InitInvariant
<1>2. TypeOK /\ ShareInvariant /\ [Next]_vars => TypeOK' /\ ShareInvariant'
  BY ShareNext
<1> QED BY <1>1, <1>2, PTL DEF Spec
=============================================================================
