----------------------------- MODULE ShareTasks -----------------------------
(***************************************************************************)
(* The queue of share refreshes: ShareTasks (share/ShareTasks.cpp), the    *)
(* TaskQueue it keeps its tasks in, and the refresh state of the shared    *)
(* roots that ShareManager updates for it.                                 *)
(*                                                                         *)
(* Any thread may add a refresh.  The first one that finds the atomic flag *)
(* tasksRunning clear becomes responsible for running the queue: a         *)
(* BLOCKING refresh runs it in the calling thread, any other one starts    *)
(* the worker thread.  The queue, the flag and the state of a root have    *)
(* separate locks, so each of them is read and written in a step of its    *)
(* own.  What a refresh builds is left out; the paths of one task are      *)
(* refreshed in parallel (the MULTITHREAD settings), of which refreshing   *)
(* them one after another is a special case.                               *)
(***************************************************************************)
EXTENDS Naturals, Sequences, FiniteSets

CONSTANTS Callers,    \* threads that call addRefreshTask
          Blockers,   \* the callers whose refreshes have priority BLOCKING
          Aborters,   \* threads that call abortRefresh
          Worker,     \* the thread ShareTasks itself is
          Paths,      \* paths that can be refreshed
          Roots,      \* the paths that are share roots
          Tokens,     \* task tokens; their number bounds the tasks added
          NoToken,    \* no task
          ThreadFails \* whether creating a thread can fail

ASSUME ThreadsAssumption == Blockers \subseteq Callers /\ Worker \notin Callers

ASSUME RootsAssumption == Roots \subseteq Paths

ASSUME FailureAssumption == ThreadFails \in BOOLEAN

ASSUME TokensAssumption == NoToken \notin Tokens

VARIABLES tasks,         \* TaskQueue::tasks
          used,          \* tokens that have been given out
          tasksRunning,  \* the atomic flag
          refreshState,  \* ShareRoot::refreshState of every root
          caller,        \* progress of every addRefreshTask
          runner,        \* progress of every runTasks
          aborter        \* progress of every abortRefresh

vars == <<tasks, used, tasksRunning, refreshState, caller, runner, aborter>>

Runners == Blockers \cup {Worker}

RefreshStates == {"NORMAL", "PENDING", "RUNNING"}

\* How far the refresh of one path of the running task is.
Phases == {"none", "todo", "start", "build", "done"}

Task == [token : Tokens, dirs : SUBSET Paths, canceled : BOOLEAN]

Idle == [pc |-> "idle", dirs |-> {}, todo |-> {}, token |-> NoToken]

Ended == [pc |-> "ended", token |-> NoToken, phase |-> [p \in Paths |-> "none"]]

Quiet == [pc |-> "idle", todo |-> {}]

QueuedTasks == {tasks[i] : i \in DOMAIN tasks}

\* Only the exact path of a root changes the state of that root.
setRefreshState(p, s) ==
  refreshState' = IF p \in Roots THEN [refreshState EXCEPT ![p] = s]
                                 ELSE refreshState

-----------------------------------------------------------------------------
Init ==
  /\ tasks = <<>>
  /\ used = {}
  /\ tasksRunning = FALSE
  /\ refreshState = [p \in Roots |-> "NORMAL"]
  /\ caller = [c \in Callers |-> Idle]
  /\ runner = [r \in Runners |-> Ended]
  /\ aborter = [a \in Aborters |-> Quiet]

-----------------------------------------------------------------------------
(* addRefreshTask *)

\* The directories that no queued task will refresh.
unqueued(dirs) ==
  dirs \ UNION {t.dirs : t \in {q \in QueuedTasks : ~q.canceled}}

\* validateRefreshTask, under the lock of the queue.  With no directory left
\* the call ends (EXISTS) and nothing has changed.
validateRefreshTask(c, dirs) ==
  /\ caller[c].pc = "idle"
  /\ unqueued(dirs) # {}
  /\ \E t \in Tokens \ used :
       /\ used' = used \cup {t}
       /\ caller' = [caller EXCEPT ![c] =
            [pc |-> "queue", dirs |-> unqueued(dirs),
             todo |-> unqueued(dirs), token |-> t]]
  /\ UNCHANGED <<tasks, tasksRunning, refreshState, runner, aborter>>

\* onRefreshQueued marks the roots one after another, before the task is
\* in the queue.
onRefreshQueued(c) ==
  /\ caller[c].pc = "queue"
  /\ \E p \in caller[c].todo :
       /\ setRefreshState(p, "PENDING")
       /\ caller' = [caller EXCEPT ![c].todo = @ \ {p}]
  /\ UNCHANGED <<tasks, used, tasksRunning, runner, aborter>>

\* A form of addTask that reads the token of a task it has moved from.
AddsMoved(c) ==
  /\ caller[c].pc = "queue" /\ caller[c].todo = {}
  /\ tasks' = Append(tasks, [token |-> NoToken,
                             dirs |-> caller[c].dirs, canceled |-> FALSE])
  /\ caller' = [caller EXCEPT ![c] = [Idle EXCEPT !.pc = "added"]]
  /\ UNCHANGED <<used, tasksRunning, refreshState, runner, aborter>>

addTask(c) ==
  /\ caller[c].pc = "queue" /\ caller[c].todo = {}
  /\ tasks' = Append(tasks, [token |-> caller[c].token,
                             dirs |-> caller[c].dirs, canceled |-> FALSE])
  /\ caller' = [caller EXCEPT ![c] = [Idle EXCEPT !.pc = "added"]]
  /\ UNCHANGED <<used, tasksRunning, refreshState, runner, aborter>>

\* The flag is set already: the result is QUEUED.
leaveQueued(c) ==
  /\ caller[c].pc = "added" /\ tasksRunning
  /\ caller' = [caller EXCEPT ![c] = Idle]
  /\ UNCHANGED <<tasks, used, tasksRunning, refreshState, runner, aborter>>

\* A form of testAndSet that does not look at the old value of the flag.
AlwaysStarts(c) ==
  /\ caller[c].pc = "added"
  /\ tasksRunning' = TRUE
  /\ caller' = [caller EXCEPT ![c] =
       [Idle EXCEPT !.pc = IF c \in Blockers THEN "running" ELSE "start"]]
  /\ runner' = IF c \in Blockers THEN [runner EXCEPT ![c] = [Ended EXCEPT !.pc = "get"]] ELSE runner
  /\ UNCHANGED <<tasks, used, refreshState, aborter>>

\* The caller sets the flag: it runs the tasks itself or starts the worker.
testAndSet(c) ==
  /\ caller[c].pc = "added" /\ ~tasksRunning
  /\ tasksRunning' = TRUE
  /\ caller' = [caller EXCEPT ![c] =
       [Idle EXCEPT !.pc = IF c \in Blockers THEN "running" ELSE "start"]]
  /\ runner' = IF c \in Blockers THEN [runner EXCEPT ![c] = [Ended EXCEPT !.pc = "get"]] ELSE runner
  /\ UNCHANGED <<tasks, used, refreshState, aborter>>

\* Thread::start joins the previous run of the thread first.
start(c) ==
  /\ caller[c].pc = "start" /\ runner[Worker].pc = "ended"
  /\ runner' = [runner EXCEPT ![Worker] = [Ended EXCEPT !.pc = "get"]]
  /\ caller' = [caller EXCEPT ![c] = Idle]
  /\ UNCHANGED <<tasks, used, tasksRunning, refreshState, aborter>>

\* The thread cannot be created: the flag is cleared, the task stays.
startFails(c) ==
  /\ ThreadFails
  /\ caller[c].pc = "start" /\ runner[Worker].pc = "ended"
  /\ tasksRunning' = FALSE
  /\ caller' = [caller EXCEPT ![c] = Idle]
  /\ UNCHANGED <<tasks, used, refreshState, runner, aborter>>

-----------------------------------------------------------------------------
(* runTasks, in the worker or in the thread of a blocking caller *)

\* A pointer to the first task is taken; the task stays in the queue.
getFront(r) ==
  /\ runner[r].pc = "get" /\ tasks # <<>>
  /\ runner' = [runner EXCEPT ![r] =
       [pc |-> "refresh", token |-> Head(tasks).token,
        phase |-> [p \in Paths |-> IF p \in Head(tasks).dirs THEN "todo" ELSE "none"]]]
  /\ UNCHANGED <<tasks, used, tasksRunning, refreshState, caller, aborter>>

getNothing(r) ==
  /\ runner[r].pc = "get" /\ tasks = <<>>
  /\ runner' = [runner EXCEPT ![r] = [Ended EXCEPT !.pc = "clear"]]
  /\ UNCHANGED <<tasks, used, tasksRunning, refreshState, caller, aborter>>

\* doRefresh reads the canceled flag through the pointer, without the lock.
doRefresh(r, p) ==
  /\ runner[r].pc = "refresh" /\ runner[r].phase[p] = "todo"
  /\ tasks # <<>>
  /\ runner' = [runner EXCEPT ![r].phase[p] =
                  IF Head(tasks).canceled THEN "done" ELSE "start"]
  /\ UNCHANGED <<tasks, used, tasksRunning, refreshState, caller, aborter>>

\* handleRefreshPath up to the building of the tree.
startBuild(r, p) ==
  /\ runner[r].pc = "refresh" /\ runner[r].phase[p] = "start"
  /\ setRefreshState(p, "RUNNING")
  /\ runner' = [runner EXCEPT ![r].phase[p] = "build"]
  /\ UNCHANGED <<tasks, used, tasksRunning, caller, aborter>>

\* A form of finishBuild that returns early when the tree was not completed.
SkipsFinish(r, p) ==
  /\ runner[r].pc = "refresh" /\ runner[r].phase[p] = "build"
  /\ \/ setRefreshState(p, "NORMAL")
     \/ refreshState' = refreshState
  /\ runner' = [runner EXCEPT ![r].phase[p] = "done"]
  /\ UNCHANGED <<tasks, used, tasksRunning, caller, aborter>>

\* The rest of it: completed or not, the root is NORMAL again.
finishBuild(r, p) ==
  /\ runner[r].pc = "refresh" /\ runner[r].phase[p] = "build"
  /\ setRefreshState(p, "NORMAL")
  /\ runner' = [runner EXCEPT ![r].phase[p] = "done"]
  /\ UNCHANGED <<tasks, used, tasksRunning, caller, aborter>>

Refreshed(r) ==
  runner[r].pc = "refresh" /\ \A p \in Paths : runner[r].phase[p] \in {"none", "done"}

\* A form of popFront that ends the run with the first task.
PopsAndEnds(r) ==
  /\ Refreshed(r) /\ tasks # <<>>
  /\ tasks' = Tail(tasks)
  /\ runner' = [runner EXCEPT ![r] = [Ended EXCEPT !.pc = "clear"]]
  /\ UNCHANGED <<used, tasksRunning, refreshState, caller, aborter>>

\* The scope of the task ends: it leaves the queue and is destroyed.
popFront(r) ==
  /\ Refreshed(r) /\ tasks # <<>>
  /\ tasks' = Tail(tasks)
  /\ runner' = [runner EXCEPT ![r] =
                  [Ended EXCEPT !.pc = "completed", !.token = runner[r].token]]
  /\ UNCHANGED <<used, tasksRunning, refreshState, caller, aborter>>

\* completionF: the listeners hear of the refresh.
refreshCompleted(r) ==
  /\ runner[r].pc = "completed"
  /\ runner' = [runner EXCEPT ![r] = [Ended EXCEPT !.pc = "get"]]
  /\ UNCHANGED <<tasks, used, tasksRunning, refreshState, caller, aborter>>

\* runTasks returns: the flag is cleared before the HashPauser is destroyed.
clearRunning(r) ==
  /\ runner[r].pc = "clear"
  /\ tasksRunning' = FALSE
  /\ runner' = [runner EXCEPT ![r] = [Ended EXCEPT !.pc = "release"]]
  /\ UNCHANGED <<tasks, used, refreshState, caller, aborter>>

endRun(r) ==
  /\ runner[r].pc = "release"
  /\ runner' = [runner EXCEPT ![r] = Ended]
  /\ caller' = IF r \in Callers THEN [caller EXCEPT ![r] = Idle] ELSE caller
  /\ UNCHANGED <<tasks, used, tasksRunning, refreshState, aborter>>

-----------------------------------------------------------------------------
(* abortRefresh *)

\* The tasks with one of the tokens are marked, under the lock of the queue.
cancelTasks(a, tokens) ==
  /\ aborter[a].pc = "idle"
  /\ \E t \in QueuedTasks : t.token \in tokens
  /\ tasks' = [i \in DOMAIN tasks |->
       IF tasks[i].token \in tokens THEN [tasks[i] EXCEPT !.canceled = TRUE]
                                    ELSE tasks[i]]
  /\ aborter' = [aborter EXCEPT ![a] =
       [pc |-> "reset",
        todo |-> UNION {t.dirs : t \in {q \in QueuedTasks : q.token \in tokens}}]]
  /\ UNCHANGED <<used, tasksRunning, refreshState, caller, runner>>

\* ShareManager then resets the roots, one after another.
resetState(a) ==
  /\ aborter[a].pc = "reset"
  /\ \E p \in aborter[a].todo :
       /\ setRefreshState(p, "NORMAL")
       /\ aborter' = [aborter EXCEPT ![a] =
            IF aborter[a].todo = {p} THEN Quiet
            ELSE [pc |-> "reset", todo |-> aborter[a].todo \ {p}]]
  /\ UNCHANGED <<tasks, used, tasksRunning, caller, runner>>

-----------------------------------------------------------------------------
addRefreshTask(c) ==
  \/ \E dirs \in SUBSET Paths : validateRefreshTask(c, dirs)
  \/ onRefreshQueued(c)
  \/ addTask(c)
  \/ leaveQueued(c)
  \/ testAndSet(c)
  \/ start(c)
  \/ startFails(c)

runTasks(r) ==
  \/ getFront(r)
  \/ getNothing(r)
  \/ \E p \in Paths : doRefresh(r, p) \/ startBuild(r, p) \/ finishBuild(r, p)
  \/ popFront(r)
  \/ refreshCompleted(r)
  \/ clearRunning(r)
  \/ endRun(r)

abortRefresh(a) ==
  \/ \E t \in Tokens : cancelTasks(a, {t})
  \/ cancelTasks(a, Tokens)
  \/ resetState(a)

Next ==
  \/ \E c \in Callers : addRefreshTask(c)
  \/ \E r \in Runners : runTasks(r)
  \/ \E a \in Aborters : abortRefresh(a)

Spec == Init /\ [][Next]_vars

\* A call that has begun goes on, and a thread that can run runs.  New calls
\* are under no fairness: nobody need ask for a refresh, or abort one.
CallEnds(c) ==
  onRefreshQueued(c) \/ addTask(c) \/ leaveQueued(c) \/ testAndSet(c)
    \/ start(c) \/ startFails(c)

LiveSpec ==
  /\ Spec
  /\ \A c \in Callers : WF_vars(CallEnds(c))
  /\ \A r \in Runners : WF_vars(runTasks(r))
  /\ \A a \in Aborters : WF_vars(resetState(a))

-----------------------------------------------------------------------------
(* Type correctness *)

CallerType == [pc : {"idle", "queue", "added", "start", "running"},
               dirs : SUBSET Paths, todo : SUBSET Paths,
               token : Tokens \cup {NoToken}]

RunnerType == [pc : {"ended", "get", "refresh", "completed", "clear", "release"},
               token : Tokens \cup {NoToken}, phase : [Paths -> Phases]]

AborterType == [pc : {"idle", "reset"}, todo : SUBSET Paths]

TypeOK ==
  /\ tasks \in Seq(Task)
  /\ used \in SUBSET Tokens
  /\ tasksRunning \in BOOLEAN
  /\ refreshState \in [Roots -> RefreshStates]
  /\ caller \in [Callers -> CallerType]
  /\ runner \in [Runners -> RunnerType]
  /\ aborter \in [Aborters -> AborterType]

-----------------------------------------------------------------------------
(* The flag and the queue *)

\* The threads that own the flag: a runner until it clears it, and a caller
\* between setting it and starting the worker.
Holders ==
  {x \in Callers \cup {Worker} :
     \/ x \in Runners /\ runner[x].pc \in {"get", "refresh", "completed", "clear"}
     \/ x \in Callers /\ caller[x].pc = "start"}

\* The flag is set exactly while one thread owns it, and no two do, so that
\* the queue has one consumer.
OneRunner ==
  /\ \A x, y \in Holders : x = y
  /\ tasksRunning <=> Holders # {}

\* The task a runner works on is the first of the queue until the runner
\* itself removes it: the pointer of getFront stays valid, and pop_front
\* finds a task (its assertion) and removes the one that was run.
RunsFront ==
  \A r \in Runners :
    runner[r].pc = "refresh" =>
      /\ tasks # <<>>
      /\ Head(tasks).token = runner[r].token
      /\ \A p \in Paths : (p \in Head(tasks).dirs) <=> (runner[r].phase[p] # "none")

\* "Fire completion only after the task has been removed from the list":
\* the task whose completion is reported is neither in the queue nor about
\* to be added to it again.
CompletedRemoved ==
  \A r \in Runners :
    runner[r].pc = "completed" =>
      /\ \A t \in QueuedTasks : t.token # runner[r].token
      /\ \A c \in Callers : caller[c].token # runner[r].token

\* Those who will still make the root NORMAL: a caller that marks it PENDING
\* and adds its task, a queued task that is not canceled and has not done
\* with it, a refresh of it under way, or an abort that has still to reset it.
Responsible(p) ==
  \/ \E c \in Callers : caller[c].pc = "queue" /\ p \in caller[c].dirs
  \/ \E i \in DOMAIN tasks :
       /\ p \in tasks[i].dirs /\ ~tasks[i].canceled
       /\ \A r \in Runners :
            i = 1 /\ runner[r].pc = "refresh" => runner[r].phase[p] # "done"
  \/ \E r \in Runners : runner[r].pc = "refresh" /\ runner[r].phase[p] \in {"start", "build"}
  \/ \E a \in Aborters : p \in aborter[a].todo

\* No root is left PENDING or RUNNING with nobody to finish it, however
\* adding, running and aborting refreshes of one root overlap.
NoStuckRoot == \A p \in Roots : refreshState[p] # "NORMAL" => Responsible(p)

\* What these rest on: a token belongs to one task, in the hands of its
\* caller or in the queue; a blocking caller waits for its own run.
TokenOwners ==
  /\ \A i, j \in DOMAIN tasks : tasks[i].token = tasks[j].token => i = j
  /\ \A i \in DOMAIN tasks : tasks[i].token \in used
  /\ \A c \in Callers : caller[c].pc = "queue" =>
       /\ caller[c].token \in used
       /\ caller[c].todo \subseteq caller[c].dirs
       /\ \A i \in DOMAIN tasks : tasks[i].token # caller[c].token
  /\ \A c, d \in Callers :
       caller[c].pc = "queue" /\ caller[c].token = caller[d].token => c = d
  /\ \A c \in Callers : caller[c].pc # "queue" => caller[c].token = NoToken
  /\ \A r \in Runners : runner[r].pc = "completed" => runner[r].token \in used

BlockingRuns ==
  /\ \A c \in Blockers : caller[c].pc = "running" <=> runner[c].pc # "ended"
  /\ \A c \in Blockers : caller[c].pc # "start"
  /\ \A c \in Callers \ Blockers : caller[c].pc # "running"
  /\ \A a \in Aborters : aborter[a].pc = "idle" => aborter[a].todo = {}

ShareInvariant ==
  /\ OneRunner
  /\ RunsFront
  /\ CompletedRemoved
  /\ NoStuckRoot
  /\ TokenOwners
  /\ BlockingRuns

-----------------------------------------------------------------------------
(* What the comments promise and the code does not keep *)

\* "Remove the exact directories that have already been queued for
\* refreshing": no path is in two tasks that will both refresh it.
QueuedOnce ==
  \A i, j \in DOMAIN tasks :
    i # j /\ ~tasks[i].canceled /\ ~tasks[j].canceled =>
      tasks[i].dirs \cap tasks[j].dirs = {}

\* "... if the refresh can't be started immediately": a task that was queued
\* is started, and so removed, later.
QueuedStarts ==
  \A t \in Tokens :
    (\E q \in QueuedTasks : q.token = t) ~> ~(\E q \in QueuedTasks : q.token = t)

-----------------------------------------------------------------------------
(* Progress *)

\* A task that is in the queue while a runner has still to look at the queue
\* again is run and removed: the only tasks that can be left behind are those
\* added after a runner found the queue empty, or without a thread.
RunnerDrains ==
  \A t \in Tokens :
    (/\ \E q \in QueuedTasks : q.token = t
     /\ \E r \in Runners : runner[r].pc \in {"get", "refresh", "completed"})
      ~> ~(\E q \in QueuedTasks : q.token = t)
=============================================================================
