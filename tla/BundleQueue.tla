---------------------------- MODULE BundleQueue -----------------------------
(***************************************************************************)
(* A directory bundle of the download queue: its files, what the bundle    *)
(* and the queue count for them, who they can be downloaded from, and how  *)
(* the bundle goes from QUEUED over DOWNLOADED and the completion hooks to *)
(* COMPLETED and SHARED.                                                   *)
(*                                                                         *)
(* The queue's lock is held for parts of an operation only.  A connection  *)
(* that returns a segment looks the file up, updates it, moves it to the   *)
(* finished files and sets the bundle's status in separate steps; removing *)
(* a file, changing its priority, the queue's own task thread and the end  *)
(* of a share refresh go on in between.  How a file is downloaded in       *)
(* segments is in QueueItem; here a file is Size units.                    *)
(***************************************************************************)
EXTENDS Integers, Sequences, FiniteSets, FiniteSetsExt, SequencesExt

CONSTANTS
  Files,       \* target paths
  Initial,     \* the files the bundle was created with
  Users,       \* possible sources
  FirstUsers,  \* the sources it was created with
  Size,        \* size of every file, in segments
  Gens,        \* bound: how many items may be made for a path
  Rejected,    \* files that the file completion hook may reject
  BadBundle,   \* may the bundle completion hook reject the bundle?
  Events,      \* what users and other programs do in this instance
  MaxEvents    \* bound: how often

ASSUME BundleAssumption ==
  /\ Initial \subseteq Files /\ Initial # {} /\ IsFiniteSet(Files)
  /\ FirstUsers \subseteq Users /\ FirstUsers # {} /\ IsFiniteSet(Users)
  /\ Size \in Nat \ {0} /\ Gens \in Nat \ {0} /\ MaxEvents \in Nat
  /\ Rejected \subseteq Files /\ BadBundle \in BOOLEAN

VARIABLES
  fileQueue,   \* FileQueue::pathQueue: which item a path has, 0 for none
  made,        \* items made for a path so far
  item,        \* the QueueItems
  bundle,      \* the Bundle's lists and what Bundle and BundleQueue count
  users,       \* Bundle::userQueue, as pairs of priority and item, and the
               \* number of files in Bundle::sources, by user
  status,      \* Bundle::status
  listed,      \* is the bundle in BundleQueue::bundles?
  paused,      \* is its priority paused?
  searched,    \* how often it is in the search queue
  onDisk,      \* items whose target file exists
  dl,          \* the connection that returns a download of a path
  tasks, task, \* QueueManager::tasks, and the task being run
  delayed,     \* the delayed check after a removal
  refresh,     \* the share refresh of the bundle's directory
  remover,     \* progress of removeQI
  setter,      \* progress of setQIPriority
  failing,     \* progress of onDownloadError
  events,
  overtaken    \* windows in which one operation has overtaken another

lists == <<fileQueue, made, item, bundle, users, onDisk>>
state == <<status, listed, paused, searched>>
threads == <<dl, tasks, task, delayed, refresh, remover, setter, failing>>
vars == <<lists, state, threads, events, overtaken>>

Items == Files \X (1..Gens)
Current == {<<f, fileQueue[f]>> : f \in {g \in Files : fileQueue[g] # 0}}
NoItem == << >>

isDownloaded(s) ==
  s \in {"DOWNLOADED", "VALIDATION_RUNNING", "VALIDATION_ERROR", "COMPLETED", "SHARED"}
isCompleted(s) == s \in {"COMPLETED", "SHARED"}

New == [status |-> "NEW", bytes |-> 0, sources |-> {}, prio |-> "normal"]
Queued(U) == [New EXCEPT !.status = "QUEUED", !.sources = U]
NoReturn == [pc |-> "idle", item |-> NoItem]
NoTask == [phase |-> "none", item |-> NoItem]
Task(type, i) == [type |-> type, item |-> i]

Init ==
  LET first == {<<f, 1>> : f \in Initial}
      n == Cardinality(Initial)
  IN
  /\ fileQueue = [f \in Files |-> IF f \in Initial THEN 1 ELSE 0]
  /\ made = fileQueue
  /\ item = [i \in Items |-> IF i \in first THEN Queued(FirstUsers) ELSE New]
  /\ bundle = [queueItems |-> first, finishedFiles |-> {}, size |-> n * Size, finished |-> 0,
               queueSize |-> n * Size, pathQueued |-> n, pathFinished |-> 0,
               pathSize |-> n * Size]
  /\ users = [u \in Users |-> IF u \in FirstUsers
                              THEN [queue |-> {<<"normal", i>> : i \in first}, files |-> n]
                              ELSE [queue |-> {}, files |-> 0]]
  /\ status = "QUEUED" /\ listed = TRUE /\ paused = FALSE /\ searched = 1
  /\ onDisk = {}
  /\ dl = [f \in Files |-> NoReturn]
  /\ tasks = << >> /\ task = NoTask /\ delayed = FALSE /\ refresh = "none"
  /\ remover = NoReturn /\ setter = NoItem /\ failing = "none"
  /\ events = 0 /\ overtaken = {}

Event(e) == e \in Events /\ events < MaxEvents /\ events' = events + 1

-----------------------------------------------------------------------------
(* The lists and their counts.                                             *)

\* (mutant) a file that is done stays in the list of queued files
MutRemoveQueue(b, it, i, completed) ==
  IF completed THEN [b EXCEPT !.finishedFiles = @ \cup {i}]
  ELSE [b EXCEPT !.queueItems = @ \ {i}, !.finishedFiles = @ \ {i}, !.size = @ - Size,
                 !.finished = @ - it[i].bytes]

\* (mutant) what was downloaded of a finished file is not given back
MutFinishedBytes(b, it, i, completed) ==
  IF completed THEN [b EXCEPT !.queueItems = @ \ {i}, !.finishedFiles = @ \cup {i}]
  ELSE IF isDownloaded(it[i].status)
       THEN [b EXCEPT !.finishedFiles = @ \ {i}, !.size = @ - Size]
       ELSE [b EXCEPT !.queueItems = @ \ {i}, !.size = @ - Size,
                      !.finished = @ - it[i].bytes]

\* Bundle::removeQueue, and removeFinishedItem for a file that is finished.
removeQueue(b, it, i, completed) ==
  IF ~completed /\ isDownloaded(it[i].status)
  THEN IF i \in b.finishedFiles
       THEN [b EXCEPT !.finishedFiles = @ \ {i}, !.size = @ - Size,
                      !.finished = @ - it[i].bytes]
       ELSE b
  ELSE IF completed
       THEN [b EXCEPT !.queueItems = @ \ {i}, !.finishedFiles = @ \cup {i}]
       ELSE [b EXCEPT !.queueItems = @ \ {i}, !.size = @ - Size,
                      !.finished = @ - it[i].bytes]

\* BundleQueue::removeBundleItem: the bundle's lists, the counts of its
\* directory (a file that has been downloaded leaves the finished ones) and
\* the queue's total size.
BundleRemove(b, it, i, completed) ==
  LET r == removeQueue(b, it, i, completed)
      downloaded == isDownloaded(it[i].status)
  IN [r EXCEPT !.pathFinished = IF downloaded THEN @ - 1 ELSE @,
               !.pathQueued = IF downloaded THEN @ ELSE @ - 1,
               !.pathSize = IF completed THEN @ ELSE @ - Size,
               !.queueSize = IF completed \/ ~downloaded THEN @ - Size ELSE @]

\* removeBundleItem(qi, true): the file is finished.
BundleFinish(b, it, i) == BundleRemove(b, it, i, TRUE)

\* removeBundleItem(qi, false): the file is removed.
BundleDrop(b, it, i) == BundleRemove(b, it, i, FALSE)

\* BundleQueue::addBundleItem of a queued file.
BundleAdd(b, it, i) ==
  [b EXCEPT !.queueItems = @ \cup {i}, !.size = @ + Size, !.finished = @ + it[i].bytes,
            !.pathQueued = @ + 1, !.pathSize = @ + Size, !.queueSize = @ + Size]

\* UserQueue::removeQI for the users U: nothing happens for a user who is no
\* source of the bundle, or has no file of the item's priority.
RemoveQI(us, it, i, U) ==
  [u \in Users |->
     IF u \in U /\ us[u].files > 0 /\ \E e \in us[u].queue : e[1] = it[i].prio
     THEN [queue |-> us[u].queue \ {<<it[i].prio, i>>}, files |-> us[u].files - 1]
     ELSE us[u]]

\* UserQueue::addQI
AddQI(us, it, i, U) ==
  [u \in Users |-> IF u \in U THEN [queue |-> us[u].queue \cup {<<it[i].prio, i>>},
                                    files |-> us[u].files + 1]
                              ELSE us[u]]

\* (mutant) the new priority is set before the file leaves the old list
MutReprioritized(us, it, i, p) ==
  LET new == [it EXCEPT ![i].prio = p]
  IN AddQI(RemoveQI(us, new, i, it[i].sources), new, i, it[i].sources)

\* UserQueue::setQIPriority
Reprioritized(us, it, i, p) ==
  AddQI(RemoveQI(us, it, i, it[i].sources), [it EXCEPT ![i].prio = p], i, it[i].sources)

\* A range of files leaves the bundle, one after the other.
RemoveItems(b, it, S) == FoldSet(LAMBDA i, acc : BundleDrop(acc, it, i), b, S)

\* ... and the lists of all their sources.
RemoveQIs(us, it, S) == FoldSet(LAMBDA i, acc : RemoveQI(acc, it, i, it[i].sources), us, S)

\* PrioritySearchQueue::addSearchPrio and removeSearchPrio
addSearchPrio == searched' = IF paused THEN searched ELSE searched + 1
removeSearchPrio == searched' = IF paused THEN searched ELSE 0

\* readdBundle: the bundle is QUEUED again; finished files that are gone from
\* the disk are removed.
readdBundle(b, it) ==
  LET gone == b.finishedFiles \ onDisk
  IN /\ status' = "QUEUED"
     /\ bundle' = RemoveItems(b, it, gone)
     /\ addSearchPrio

\* QueueManager::setBundlePriority, to and from a paused priority.
SetPriority(p) ==
  /\ paused # p
  /\ IF isDownloaded(status) THEN UNCHANGED <<paused, searched, overtaken>>
     ELSE /\ paused' = p
          /\ searched' = IF p THEN 0 ELSE searched + 1
          /\ overtaken' = overtaken \cup (IF bundle.queueItems = {} THEN {"search"} ELSE {})

\* An operation on the items I overtakes connections and hooks that are still
\* at work on them.
Overtakes(I) ==
  IF \/ \E f \in Files : dl[f].item \in I
     \/ remover.item \in I
     \/ task.item \in I
     \/ \E n \in DOMAIN tasks : tasks[n].item \in I
  THEN {"item"} ELSE {}

\* Somebody is about to set the status from what he found before.
StatusPending ==
  \/ \E f \in Files : dl[f].pc = "emptied"
  \/ task.phase \in {"failed", "revalidate", "bundleHook", "sharing"}
  \/ \E n \in DOMAIN tasks : tasks[n].type \in {"share", "shareAnyway"}
  \/ refresh = "found" \/ failing = "error"

-----------------------------------------------------------------------------
(* A connection returns a segment: putDownloadHooked looks the path up,    *)
(* onFileDownloadCompleted updates the file, removeBundleItem moves it,    *)
(* the status is set, the file is renamed and its hooks are queued.        *)

putDownload(f) ==
  LET i == <<f, fileQueue[f]>> IN
  /\ dl[f].pc = "idle" /\ fileQueue[f] # 0
  /\ item[i].status = "QUEUED" /\ item[i].sources # {} /\ item[i].prio # "paused" /\ ~paused
  /\ dl' = [dl EXCEPT ![f] = [pc |-> "found", item |-> i]]
  /\ UNCHANGED <<lists, state, tasks, task, delayed, refresh, remover, setter, failing,
                 events, overtaken>>

onFileDownloadCompleted(f) ==
  LET i == dl[f].item
      whole == item[i].bytes + 1 = Size
      U == item[i].sources
  IN
  /\ dl[f].pc = "found" /\ item[i].bytes < Size
  /\ item' = [item EXCEPT ![i].bytes = @ + 1,
                          ![i].status = IF whole THEN "DOWNLOADED" ELSE @]
  /\ bundle' = [bundle EXCEPT !.finished = @ + 1]
  /\ users' = IF whole THEN RemoveQI(users, item, i, U) ELSE users
  /\ dl' = [dl EXCEPT ![f] = IF whole THEN [@ EXCEPT !.pc = "whole"] ELSE NoReturn]
  /\ UNCHANGED <<fileQueue, made, onDisk, state, tasks, task, delayed, refresh, remover,
                 setter, failing, events, overtaken>>

\* removeBundleItem(qi, true)
MovesItem(f) ==
  LET i == dl[f].item
      b == BundleFinish(bundle, item, i)
  IN
  /\ dl[f].pc = "whole"
  /\ bundle' = b
  /\ IF b.queueItems = {} THEN removeSearchPrio ELSE UNCHANGED searched
  /\ dl' = [dl EXCEPT ![f].pc = IF b.queueItems = {} THEN "emptied" ELSE "moved"]
  /\ UNCHANGED <<fileQueue, made, item, users, onDisk, status, listed, paused, tasks, task,
                 delayed, refresh, remover, setter, failing, events, overtaken>>

Finishes(f, new) ==
  /\ dl[f].pc = "emptied"
  /\ status' = new
  /\ dl' = [dl EXCEPT ![f].pc = "moved"]
  /\ UNCHANGED <<lists, listed, paused, searched, tasks, task, delayed, refresh, remover,
                 setter, failing, events, overtaken>>

\* (mutant) a bundle whose download failed before is not finished
MutFinishesBundle(f) == Finishes(f, IF status = "QUEUED" THEN "DOWNLOADED" ELSE status)

\* The rest of removeBundleItem, for the last queued file of the bundle.
FinishesBundle(f) == Finishes(f, "DOWNLOADED")

renameDownloadedFile(f) ==
  /\ dl[f].pc = "moved"
  /\ onDisk' = onDisk \cup {dl[f].item}
  /\ tasks' = Append(tasks, Task("hooks", dl[f].item))
  /\ dl' = [dl EXCEPT ![f] = NoReturn]
  /\ UNCHANGED <<fileQueue, made, item, bundle, users, state, task, delayed, refresh,
                 remover, setter, failing, events, overtaken>>

\* A download fails with a disk error: the bundle is to be paused, its status
\* is set after it was looked at.
onDownloadError ==
  /\ failing = "none" /\ bundle.queueItems # {} /\ ~paused
  /\ failing' = "error"
  /\ tasks' = IF status \in {"QUEUED", "DOWNLOAD_ERROR"}
              THEN Append(tasks, Task("pause", NoItem)) ELSE tasks
  /\ Event("error")
  /\ UNCHANGED <<lists, state, dl, task, delayed, refresh, remover, setter, overtaken>>

SetsError ==
  /\ failing = "error"
  /\ failing' = "none"
  /\ status' = "DOWNLOAD_ERROR"
  /\ overtaken' = overtaken \cup (IF bundle.queueItems = {} THEN {"error"} ELSE {})
  /\ UNCHANGED <<lists, listed, paused, searched, dl, tasks, task, delayed, refresh,
                 remover, setter, events>>

\* There is room on the disk again, says the next download; the bundle may not
\* be paused yet.
checkDiskSpace ==
  /\ status = "DOWNLOAD_ERROR" /\ ~paused /\ bundle.queueItems # {}
  /\ status' = "QUEUED"
  /\ UNCHANGED <<lists, listed, paused, searched, threads, events, overtaken>>

\* ... or the timer, which also ends the pause.
checkResumeBundles ==
  /\ listed /\ status = "DOWNLOAD_ERROR"
  /\ status' = "QUEUED"
  /\ IF paused THEN SetPriority(FALSE) ELSE UNCHANGED <<paused, searched, overtaken>>
  /\ UNCHANGED <<lists, listed, threads, events>>

-----------------------------------------------------------------------------
(* The queue's task thread.                                                *)

Starts(type) ==
  /\ task = NoTask /\ tasks # << >> /\ Head(tasks).type = type
  /\ tasks' = Tail(tasks)
Runs(phase) == task.phase = phase /\ UNCHANGED tasks
ends == task' = NoTask
goes(phase) == task' = [task EXCEPT !.phase = phase]

\* runFileCompletionHooks; the hook is another program's and takes its time.
FileHook ==
  LET i == Head(tasks).item IN
  /\ Starts("hooks")
  /\ item' = [item EXCEPT ![i].status = "VALIDATION_RUNNING"]
  /\ task' = [phase |-> "fileHook", item |-> i]
  /\ UNCHANGED <<fileQueue, made, bundle, users, onDisk, state, dl, delayed, refresh,
                 remover, setter, failing, events, overtaken>>

Verdicts(i) == {"COMPLETED"} \cup (IF i[1] \in Rejected THEN {"VALIDATION_ERROR"} ELSE {})

FileHookDone ==
  /\ Runs("fileHook")
  /\ \E v \in Verdicts(task.item) : item' = [item EXCEPT ![task.item].status = v]
  /\ IF bundle.queueItems = {} /\ bundle.finishedFiles = {} THEN ends ELSE goes("check")
  /\ UNCHANGED <<fileQueue, made, bundle, users, onDisk, state, dl, delayed, refresh,
                 remover, setter, failing, events, overtaken>>

Failed(b, it) == {i \in b.finishedFiles : it[i].status = "VALIDATION_ERROR"}
filesCompleted(b, it) ==
  b.queueItems = {} /\ \A i \in b.finishedFiles : it[i].status = "COMPLETED"

\* checkBundleFinishedHooked
CheckFinished ==
  /\ Runs("check") \/ Starts("check")
  /\ IF status = "SHARED" \/ ~isDownloaded(status) THEN ends
     ELSE IF Failed(bundle, item) # {} THEN goes("failed") ELSE goes("completed")
  /\ UNCHANGED <<lists, state, dl, delayed, refresh, remover, setter, failing, events,
                 overtaken>>

SetsFailed ==
  /\ Runs("failed")
  /\ status' = "VALIDATION_ERROR"
  /\ ends
  /\ UNCHANGED <<lists, listed, paused, searched, dl, delayed, refresh, remover, setter,
                 failing, events, overtaken>>

Completes(yes) ==
  /\ task.phase = "completed"
  /\ tasks' = IF yes /\ status # "SHARED" THEN Append(tasks, Task("share", NoItem))
                                          ELSE tasks
  /\ ends
  /\ UNCHANGED <<lists, state, dl, delayed, refresh, remover, setter, failing, events,
                 overtaken>>

\* (mutant) the files that still wait for their hooks are not looked at
MutCheckCompleted == Completes(bundle.queueItems = {})

CheckCompleted == Completes(filesCompleted(bundle, item))

\* shareBundle's task: files that failed are validated again, then the bundle.
StartShare ==
  /\ Starts("share")
  /\ status' = "VALIDATION_RUNNING"
  /\ goes(IF Failed(bundle, item) # {} THEN "revalidate" ELSE "bundleHook")
  /\ UNCHANGED <<lists, listed, paused, searched, dl, delayed, refresh, remover, setter,
                 failing, events, overtaken>>

Revalidate ==
  LET failed == Failed(bundle, item) IN
  /\ Runs("revalidate")
  /\ \E still \in SUBSET {i \in failed : i[1] \in Rejected} :
       /\ item' = [i \in Items |-> IF i \in failed \ still
                                   THEN [item[i] EXCEPT !.status = "COMPLETED"] ELSE item[i]]
       /\ IF still = {} THEN goes("bundleHook") /\ UNCHANGED status
          ELSE ends /\ status' = "VALIDATION_ERROR"
  /\ UNCHANGED <<fileQueue, made, bundle, users, onDisk, listed, paused, searched, dl,
                 delayed, refresh, remover, setter, failing, events, overtaken>>

BundleHook ==
  /\ Runs("bundleHook")
  /\ \/ BadBundle /\ ends /\ status' = "VALIDATION_ERROR"
     \/ goes("sharing") /\ status' = "COMPLETED"
  /\ UNCHANGED <<lists, listed, paused, searched, dl, delayed, refresh, remover, setter,
                 failing, events, overtaken>>

\* The bundle is COMPLETED; if its directory may be shared, a refresh starts.
ShareBundle ==
  /\ Runs("sharing") \/ Starts("shareAnyway")
  /\ status' = "COMPLETED"
  /\ refresh' \in {refresh, IF refresh = "none" THEN "running" ELSE refresh}
  /\ ends
  /\ UNCHANGED <<lists, listed, paused, searched, dl, delayed, remover, setter, failing,
                 events, overtaken>>

\* The end of the refresh: checkCompletedBundles.
RefreshCompleted ==
  /\ refresh = "running"
  /\ refresh' = IF listed /\ isCompleted(status) THEN "found" ELSE "none"
  /\ UNCHANGED <<lists, state, dl, tasks, task, delayed, remover, setter, failing, events,
                 overtaken>>

SetsShared ==
  /\ refresh = "found"
  /\ refresh' = "none"
  /\ status' = "SHARED"
  /\ UNCHANGED <<lists, listed, paused, searched, dl, tasks, task, delayed, remover, setter,
                 failing, events, overtaken>>

\* The delayed check after files were removed.
DelayedCheck ==
  /\ delayed
  /\ delayed' = FALSE
  /\ tasks' = Append(tasks, Task("check", NoItem))
  /\ UNCHANGED <<lists, state, dl, task, refresh, remover, setter, failing, events,
                 overtaken>>

-----------------------------------------------------------------------------
(* What users and other programs do.                                       *)

\* The task of onDownloadError pauses the bundle.
PauseTask ==
  /\ Starts("pause")
  /\ IF paused THEN UNCHANGED <<paused, searched, overtaken>> ELSE SetPriority(TRUE)
  /\ UNCHANGED <<lists, status, listed, dl, task, delayed, refresh, remover, setter,
                 failing, events>>

setBundlePriority(p) ==
  /\ listed /\ SetPriority(p)
  /\ Event("priority")
  /\ UNCHANGED <<lists, status, listed, threads>>

\* Somebody has a finished bundle shared, or shared whatever the hooks say.
\* The share task does not look for files that still wait for their hooks.
shareBundle(skip) ==
  /\ listed /\ status \in {"VALIDATION_ERROR", "COMPLETED"}
  /\ tasks' = Append(tasks, Task(IF skip THEN "shareAnyway" ELSE "share", NoItem))
  /\ overtaken' = overtaken \cup
       (IF skip \/ \E i \in bundle.finishedFiles :
                     item[i].status \in {"DOWNLOADED", "VALIDATION_RUNNING"}
        THEN {"share"} ELSE {})
  /\ Event("share")
  /\ UNCHANGED <<lists, state, dl, task, delayed, refresh, remover, setter, failing>>

\* The file is looked at before the lock is taken.
setQIPriority(i) ==
  /\ setter = NoItem /\ i \in Current /\ item[i].status = "QUEUED"
  /\ setter' = i
  /\ Event("item")
  /\ UNCHANGED <<lists, state, dl, tasks, task, delayed, refresh, remover, failing,
                 overtaken>>

SetsQIPriority ==
  LET i == setter
      p == IF item[i].prio = "normal" THEN "paused" ELSE "normal"
      late == i \notin Current \/ item[i].status # "QUEUED"
  IN
  /\ i # NoItem
  /\ item' = [item EXCEPT ![i].prio = p]
  /\ users' = Reprioritized(users, item, i, p)
  /\ setter' = NoItem
  /\ overtaken' = overtaken \cup (IF late THEN {"prio"} ELSE {})
  /\ UNCHANGED <<fileQueue, made, bundle, onDisk, state, dl, tasks, task, delayed, refresh,
                 remover, failing, events>>

removeFileSource(i, u) ==
  /\ i \in Current /\ item[i].status = "QUEUED" /\ u \in item[i].sources
  /\ item' = [item EXCEPT ![i].sources = @ \ {u}]
  /\ users' = RemoveQI(users, item, i, {u})
  /\ Event("source")
  /\ UNCHANGED <<fileQueue, made, bundle, onDisk, state, threads, overtaken>>

\* A source is found for a queued file: addValidatedSource.
addValidatedSource(i, u) ==
  /\ i \in Current /\ item[i].status = "QUEUED" /\ u \notin item[i].sources
  /\ item' = [item EXCEPT ![i].sources = @ \cup {u}]
  /\ users' = AddQI(users, item, i, {u})
  /\ Event("source")
  /\ UNCHANGED <<fileQueue, made, bundle, onDisk, state, threads, overtaken>>

Exists(f) == \E i \in onDisk : i[1] = f

\* A file is queued in the bundle's directory: addBundleFile and addBundle.
\* The path may have a finished item whose file is gone.
addBundleFile(f, u) ==
  LET old == <<f, fileQueue[f]>>
      i == <<f, made[f] + 1>>
      it == [item EXCEPT ![i] = Queued({u})]
      kept == IF fileQueue[f] = 0 THEN bundle ELSE BundleDrop(bundle, item, old)
      b == BundleAdd(kept, it, i)
      readd == Cardinality(b.queueItems) = 1
      gone == b.finishedFiles \ onDisk
  IN
  /\ listed /\ made[f] < Gens /\ ~Exists(f)
  /\ fileQueue[f] # 0 => item[old].status = "COMPLETED"
  /\ made' = [made EXCEPT ![f] = @ + 1]
  /\ item' = it
  /\ fileQueue' = [g \in Files |-> IF g = f THEN i[2]
                     ELSE IF readd /\ <<g, fileQueue[g]>> \in gone THEN 0 ELSE fileQueue[g]]
  /\ users' = AddQI(users, it, i, {u})
  /\ IF readd THEN readdBundle(b, it) ELSE bundle' = b /\ UNCHANGED <<status, searched>>
  /\ overtaken' = overtaken \cup Overtakes((IF readd THEN gone ELSE {}) \cup {old})
                            \cup (IF StatusPending THEN {"status"} ELSE {})
  /\ Event("add")
  /\ UNCHANGED <<onDisk, listed, paused, threads>>

\* A recheck found that a finished file is damaged: handleFailedRecheckItems.
handleFailedRecheckItems(i) ==
  LET less == [item EXCEPT ![i].bytes = 0]
      it == [less EXCEPT ![i].status = "QUEUED"]
      reset == [bundle EXCEPT !.finished = @ - item[i].bytes]
      b == BundleAdd(BundleDrop(reset, less, i), it, i)
      gone == b.finishedFiles \ onDisk
  IN
  /\ listed /\ i \in Current \cap bundle.finishedFiles \cap onDisk
  /\ item' = it
  /\ onDisk' = onDisk \ {i}
  /\ fileQueue' = [g \in Files |-> IF <<g, fileQueue[g]>> \in gone THEN 0 ELSE fileQueue[g]]
  /\ users' = AddQI(users, it, i, item[i].sources)
  /\ readdBundle(b, it)
  /\ overtaken' = overtaken \cup Overtakes(gone \cup {i})
                            \cup (IF StatusPending THEN {"status"} ELSE {})
  /\ Event("recheck")
  /\ UNCHANGED <<made, listed, paused, threads>>

\* Somebody deletes a finished file.
LoseFile(i) ==
  /\ i \in onDisk
  /\ onDisk' = onDisk \ {i}
  /\ Event("lose")
  /\ UNCHANGED <<fileQueue, made, item, bundle, users, state, threads, overtaken>>

\* removeQI: the file leaves the queue, and in a second step its bundle.
removeQI(i) ==
  LET U == IF isDownloaded(item[i].status) THEN {} ELSE item[i].sources IN
  /\ remover.pc = "idle" /\ i \in Current
  /\ fileQueue' = [fileQueue EXCEPT ![i[1]] = 0]
  /\ users' = RemoveQI(users, item, i, U)
  /\ onDisk' \in {onDisk, onDisk \ {i}}
  /\ remover' = [pc |-> "removed", item |-> i]
  /\ overtaken' = overtaken \cup Overtakes({i})
  /\ Event("remove")
  /\ UNCHANGED <<made, item, bundle, state, dl, tasks, task, delayed, refresh, setter,
                 failing>>

\* removeBundleItem(qi, false)
RemovesItem ==
  LET i == remover.item
      b == BundleDrop(bundle, item, i)
  IN
  /\ remover.pc = "removed"
  /\ bundle' = b
  /\ IF b.queueItems = {} /\ b.finishedFiles = {}
     THEN remover' = [remover EXCEPT !.pc = "empty"] /\ UNCHANGED delayed
     ELSE remover' = NoReturn /\ delayed' = TRUE
  /\ overtaken' = overtaken \cup
       (IF i \in bundle.queueItems /\ b.queueItems = {} /\ ~isDownloaded(status)
        THEN {"last"} ELSE {})
  /\ UNCHANGED <<fileQueue, made, item, users, onDisk, state, dl, tasks, task, refresh,
                 setter, failing, events>>

\* removeBundle, by the user or because the bundle is empty.
removeBundle ==
  LET I == bundle.queueItems \cup bundle.finishedFiles
      Q == {i \in bundle.queueItems : ~isDownloaded(item[i].status)}
  IN
  /\ \/ remover.pc = "empty" /\ remover' = NoReturn /\ UNCHANGED events
     \/ listed /\ Event("bundle") /\ UNCHANGED remover
  /\ bundle' = RemoveItems(bundle, item, I)
  /\ fileQueue' = [f \in Files |-> IF \E i \in I : i[1] = f THEN 0 ELSE fileQueue[f]]
  /\ users' = RemoveQIs(users, item, Q)
  /\ onDisk' \in {onDisk, onDisk \ bundle.finishedFiles}
  /\ listed' = FALSE
  /\ removeSearchPrio
  /\ overtaken' = overtaken \cup Overtakes(I)
  /\ UNCHANGED <<made, item, status, paused, dl, tasks, task, delayed, refresh, setter,
                 failing>>

-----------------------------------------------------------------------------
Returning(f) ==
  onFileDownloadCompleted(f) \/ MovesItem(f) \/ FinishesBundle(f) \/ renameDownloadedFile(f)

TaskThread ==
  \/ FileHook \/ FileHookDone \/ CheckFinished \/ SetsFailed \/ CheckCompleted
  \/ StartShare \/ Revalidate \/ BundleHook \/ ShareBundle \/ PauseTask

Refreshing == RefreshCompleted \/ SetsShared
Removing == RemovesItem \/ (remover.pc = "empty" /\ removeBundle)

Next ==
  \/ \E f \in Files : putDownload(f) \/ Returning(f)
  \/ onDownloadError \/ SetsError \/ checkDiskSpace \/ checkResumeBundles
  \/ TaskThread \/ Refreshing \/ DelayedCheck
  \/ \E p \in BOOLEAN : setBundlePriority(p) \/ shareBundle(p)
  \/ \E i \in Items : \/ setQIPriority(i) \/ handleFailedRecheckItems(i)
                       \/ LoseFile(i) \/ removeQI(i)
  \/ \E i \in Items, u \in Users : removeFileSource(i, u) \/ addValidatedSource(i, u)
  \/ \E f \in Files, u \in Users : addBundleFile(f, u)
  \/ SetsQIPriority \/ RemovesItem \/ removeBundle

Spec == Init /\ [][Next]_vars

\* A connection that returns a download, the task thread, the timer of the
\* delayed check and a removal that has begun go on.
LiveSpec ==
  /\ Spec
  /\ \A f \in Files : WF_vars(Returning(f))
  /\ WF_vars(TaskThread) /\ WF_vars(DelayedCheck) /\ WF_vars(Removing)

-----------------------------------------------------------------------------
Statuses == {"QUEUED", "DOWNLOAD_ERROR", "DOWNLOADED", "VALIDATION_RUNNING",
             "VALIDATION_ERROR", "COMPLETED", "SHARED"}

\* The lists hold items of the bundle's files, no file is both queued and
\* finished (Bundle::removeQueue moves it), and no file has more than its bytes.
TypeOK ==
  /\ fileQueue \in [Files -> 0..Gens] /\ made \in [Files -> 0..Gens]
  /\ bundle.queueItems \subseteq Items /\ bundle.finishedFiles \subseteq Items
  /\ bundle.queueItems \cap bundle.finishedFiles = {}
  /\ \A i \in Items : item[i].bytes \in 0..Size /\ item[i].sources \subseteq Users
  /\ status \in Statuses /\ searched \in Nat

\* What was downloaded of the files S.
Bytes(it, S) == MapThenSumSet(LAMBDA i : it[i].bytes, S)

\* What Bundle (size, finishedSegments) and BundleQueue (queueSize, the size of
\* the directory) add up step by step is the sum over the files that are in the
\* bundle, whatever was downloaded, removed, found damaged and added again: the
\* dcasserts of Bundle::addFinishedSegment and BundleQueue::removeBundleItem.
\* "item": removeQI, removeBundle or readdBundle dropped a file between the
\* lookup of putDownloadHooked and the end of its completion; the completion
\* then counts a file that has left.
Counted ==
  LET both == bundle.queueItems \cup bundle.finishedFiles IN
  "item" \notin overtaken =>
    /\ bundle.size = Size * Cardinality(both)
    /\ bundle.finished = Bytes(item, both)
    /\ bundle.pathSize = bundle.size
    /\ bundle.queueSize = Size * Cardinality(bundle.queueItems)

\* A user is asked for exactly the queued files he is a source of, each in the
\* list of its priority, and Bundle::sources counts them: getNextQI finds a
\* user's files there and nowhere else, and a user whose count reaches zero
\* early loses the bundle.  UserQueue::removeQI and addQI keep it through
\* completions, removals, priorities and rechecks.  "prio": setQIPriority looked
\* at the file before another thread finished or removed it, and puts it back
\* into the lists.
Sourced ==
  {"item", "prio"} \cap overtaken = {} =>
    \A u \in Users :
      /\ users[u].queue = {<<item[i].prio, i>> :
           i \in {j \in Current : item[j].status = "QUEUED" /\ u \in item[j].sources}}
      /\ users[u].files = Cardinality(users[u].queue)

\* A bundle that is DOWNLOADED has no queued files and is not searched for, and
\* one that is COMPLETED or SHARED has only files whose hooks accepted them: the
\* comments of Bundle::Status.  "status": a file was queued again while a
\* thread was about to set the status it had decided on before; "last":
\* removing the last queued file leaves a finished bundle QUEUED; "search": the
\* priority was set between the end of the last file and DOWNLOADED; "share":
\* somebody had it shared without the hooks, or before they were through.
StatusRight ==
  {"item", "status", "last"} \cap overtaken = {} =>
    /\ isDownloaded(status) => bundle.queueItems = {}
    /\ isCompleted(status) /\ "share" \notin overtaken =>
         \A i \in bundle.finishedFiles : item[i].status = "COMPLETED"
    /\ isDownloaded(status) /\ "search" \notin overtaken => searched = 0

Finished == bundle.queueItems = {} /\ bundle.finishedFiles # {}

\* When the last queued file is done, the bundle is validated and completed (or
\* reported as failed), unless it is removed or gets files again: the checks
\* after every hook in renameDownloadedFile and after every removal in
\* removeBundleItem leave no bundle behind, whichever of them comes last.
\* "last": see StatusRight; "error": onDownloadError of another connection
\* overwrites the status after the last file was done.
BundleCompletes ==
  [](Finished => <>(\/ ~Finished \/ ~listed \/ {"last", "error"} \cap overtaken # {}
                    \/ status \in {"VALIDATION_ERROR", "COMPLETED", "SHARED"}))
=============================================================================
