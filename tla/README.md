# A TLA+ development of the AirDC++ core

`src/airdcpp` is the core of a peer-to-peer file sharing client: it keeps
connections to hubs, shares and hashes files, searches, and moves files between
peers over direct connections. This directory models the parts of it whose
correctness depends on the order in which threads run, checks them with TLC on
small instances, and proves the most important invariants with TLAPS for every
value of the constants.

Contents: 1 Inventory, 2 Modules and the code, 3 Runs, 4 Bounds, 5 Fairness,
6 Proofs, 7 Findings, 8 Deviations, 9 What is not modelled, 10 Plan.

To repeat a check: `tlc -config X.cfg M` for the module M of the table of
section 3, `tlapm M.tla` for a module of section 6.

## 1. Inventory

### Threads and how parts interact

Managers are singletons. They call each other directly, and report to each
other through `Speaker`/`Listener` pairs, whose handlers run in the thread that
fires. The threads are: one `BufferedSocket` thread per socket (all events of a
hub or of a user connection come from it), the timer thread of `TimerManager`
(`on(Second)`, `on(Minute)`), the hashing threads, the thread of `ShareTasks`,
dispatcher threads, and those of the user interface or the web API. Managers
protect their lists with their own lock, `CriticalSection` or `SharedMutex`;
they mostly release it before they call out, so an operation is often several
critical sections.  That is where this development looks.

| Component | State | Operations | Talks to | What is hard, what makes it correct |
|---|---|---|---|---|
| `ConnectionManager` | queue items (CQI) by token, user connections, removed tokens, tokens in use | `getDownloadConnection`, `on(Second)`, handshake handlers, `addDownloadConnection`, `failed`, `putCQI`, `force` | `QueueManager` (is there something to download), `ClientManager` (send CTM/RCM), `DownloadManager`, `UploadManager` | items are read under a shared lock and changed later, by socket threads, the timer and callers; answers come late or never. An item that is in use has a connection; a failed one is tried again; none is tried that must not be |
| `UserConnection` | state, flags, token, listeners | `setState`, commands, `callAsync` | all transfer managers | state changes are reported asynchronously, later than they happen |
| `DownloadManager` | running downloads, idle connections | `checkDownloads`, `startData`, `endData`, `revive`, `removeConnection` | `QueueManager`, `ConnectionManager` | a connection is idle before it is known to be; a download ends while it is looked for |
| `UploadManager`, `UploadQueueManager` | slot of a connection, counters, running and delayed uploads; waiting and notified users | `prepareFile`, `removeConnection`, `removeUpload`, `on(Second)`, `notifyQueuedUsers`, `on(Minute)` | `UserConnection`, hooks, timer | three locks and unlocked `uint8_t` counters. An upload belongs to one connection; slots are counted exactly and not exceeded; waiting users are served |
| `SearchQueue` | searches of a hub, sorted; the last tick | `add`, `cancelSearch`, `maybePop` | `Client` | `add` and `maybePop` take the lock twice. The queue stays sorted and fair |
| `ShareTasks`, `TaskQueue`, refresh state of roots | queue of refreshes, the flag `tasksRunning`, state of each root | `addRefreshTask`, `runTasks`, `abortRefresh` | `ShareManager`, `HashManager` | flag, queue and roots have separate locks. One consumer; no root stuck; what is queued is run |
| `HashManager`, `Hasher` | list of hashing threads; queue, volumes, flags and semaphore of each; number of pausers | `hashFile`, `stopHashing`, `stop`, `pauseHashing`, `resumeHashing`, `shutdown`, the loop of a hasher | `ShareTasks`, `QueueManager` | threads come and go; flags are read without a lock. Each file in one queue, no thread asleep on work, shutdown ends |
| `QueueManager`, `QueueItem`, `Bundle`, `UserQueue`, `FileQueue` | files, bundles, sources, segments | `addSource`, `startDownload`, `getDownload`, `putDownload`, bundle completion, recheck | `DownloadManager`, `ShareManager`, `HashManager` | one lock, but a decision spans several sections of it, a file is completed by the thread of a connection and a bundle by another. No part is given to two sources, what counts as done is right, the counters of a bundle agree with its files, a bundle is completed once its last file is |
| Partial sharing, upload bundles | notified peers, bundle tokens | PBD, UBD/UBN/UBA messages | `QueueManager`, `UploadManager` | UDP and hub messages are lost and reordered |
| `BufferedSocket` | state, mode, tasks | `write`, `disconnect`, task loop | all sockets | tasks race with `disconnect` and with the failure of the socket. One socket reports to its owner, and nothing comes after its failure |
| `ThrottleManager` | tokens per direction | `read`, `write`, `on(Second)` | sockets | threads wait for the next second |
| `Client`, `AdcHub`, `NmdcHub`, `HBRIValidation` | state of the login, socket, users, information sent, `HBRI` thread | `connect`, `reconnect`, `info`, `shutdown`, the handlers of the hub's lines | `ClientManager`, `BufferedSocket` | the timer, the user and the socket's thread replace and end the connection. No user of an old connection stays, what changes in our information reaches the hub, a closed hub lets go of everything |
| `PrivateChat` | CCPM state, queue of reconnects | `startCC`, `closeCC`, `onExit` | `ConnectionManager` | both sides start and stop at once |
| `ConnectivityManager`, `MappingManager` | mapping state | detect, map, renew | mappers, timer | a thread that maps while settings change |
| `AutoSearchManager` | items, their bundles | search, expire | `QueueManager`, `SearchManager` | an item may be removed while it searches |
| Others | stored lists, caches, parsers | | | see `PROJECT.json`, components |

### Hazards

`PROJECT.json` lists, at their lines, the places where the code could go wrong
in ways a test would hardly reach, with the properties that would show it.
They are of four families: a value read under one lock and used under a later
one (`ConnectionManager::on(Second)`, `SearchQueue::maybePop`,
`ShareTasks::validateRefreshTask`, `HashManager::hashFile`), a plain counter
changed by several threads (`runningUsers`, `pausers`), reports and posted
calls that arrive after the state they speak of has changed (State events,
posted deletions of uploads, aborts), and threads that wait for a signal or a
time-out that some path forgets (CONNECTING items, notified users, hashers,
the queue of refreshes).

Some were met on the way and are not listed there, because another one covers
them or because nothing but the duration of a race could go wrong:

- the limits of MCN are tested in one section and the item is added in another
  (`ConnectionManager.cpp:495`), they are read from the last item of the whole
  list (254), `failed()` asks the queue before it takes the lock (1310), and an
  item that is CONNECTING is released by the timer or its connection only (167);
- a connection is IDLE before it is in `idlers` (`DownloadManager.cpp:290`);
- `notifyQueuedUsers` subtracts in a `uint8_t` (`UploadQueueManager.cpp:151`,
  section 8), `disconnectExtraMultiConn` may pick a connection twice
  (`UploadManager.cpp:492`), `<= 8` lets a ninth small connection in (262), the
  slots are tested under another lock than the one they change under (130);
- a refresh is validated and added under two acquisitions of the lock
  (`ShareTasks.cpp:182`, section 8), `allBuildersSucceed` is written without one
  (343), a thread that cannot be created leaves its task in the queue (220), a
  root is PENDING before its task is queued (`ShareManager.cpp:902`).

## 2. Modules and the code

In all modules the critical sections of the code are the steps. A handler that
releases its lock is split there, and the place of its thread is kept in a
field `pc`. Where several threads hold a shared lock, or none, the step is
split further, down to the loads and stores of a plain counter. Names follow
the code; `PROJECT.json`, map, gives the lines of each definition.

### ConnectionManager

`ConnectionManager.tla`, downloads only, over the ADC handshake.

- State: `downloads` (the list, by token) and `cqi` (the items),
  `removedDownloadTokens`, `uc` (the user connections, each with the place of
  its socket thread and the number of State events not delivered yet),
  `mcnUser` (threads inside `createNewMCN`), `timer`, `caller`, and of the
  world around: `invited` (connect requests under way), `wants` (files queued
  from each user), `online`. `fatal` is a history variable.
- Timer: `TimerStart`, then for each item `TimerSkip`, `TimerTimeout` +
  `TimerSetWaiting` (listeners are called in between), `TimerAttempt` +
  `TimerConnect`, and after the scan `TimerScanned`, `TimerPurge` (collects
  what is not wanted) and `TimerRemove` (removes it, under another lock):
  `on(Second)`, `attemptDownloads`, `connectUnsafe`.
- Socket threads: `Handshake`, `INF`, `AddDownloadCheck` +
  `AddDownloadConnection`, `CheckDownloads`, `StartData`, `EndData`, `Revive`,
  `StateEvent` (`onIdle`, `onDownloadRunning`), `createNewMCN`, `Failed`,
  `FailedDownload`, `PutCQI`, `PutConnection`, `TreeSaveFailed`.
- Others: `AddFile`, `CheckIdle`, `getDownloadConnection`, `force`,
  `FilesFinished`, users that leave and return, lost requests, elapsing time.
- Time is the class of `lastAttempt` that the comparisons of the code tell
  apart (never, fresh, past the 50 s time-out, past the retry delay).
- `QueueManager::startDownload` is `hasDownload`, a question about `wants`.

### UploadManager

`UploadManager.tla`: slots, uploads and the queue of waiting users. Each
connection runs `Get`, `Gate` (takes `slotCS`), `Parse` (`parseSlotHookedThrow`
with the answers of the hooks), `Refuse` or `Open`/`OpenFailed`, the changes of
the counters as `Load` and `Store` where no common lock covers them,
`changeMultiConnSlot`, `Finish`, `removeQueue`, `addConnection`; then `Send`,
`TransmitDone`, `Failed`, `Disconnect`. The timer is `Second`
(`checkExpiredDelayUploads` posts `deleteExpired` to the threads of the
connections), `notifyQueuedUsers` and `Minute`. Counters have the eight bits of
the code (`Wrap`).

### SearchQueue

`SearchQueue.tla`: `Add` (cancels the owner's earlier search) then `Insert`,
`Cancel`, `CheckTime` then `Pop` (`maybePop`), the connection of the hub, the
interval setting, time in units of five seconds.

### ShareTasks

`ShareTasks.tla`: `addRefreshTask` in the steps `validateRefreshTask`,
`onRefreshQueued` for each path, `addTask`, `testAndSet`, `start`; `runTasks`
in the steps `getFront`, `doRefresh`, `startBuild`, `finishBuild`, `popFront`,
`refreshCompleted`, `clearRunning`; `abortRefresh` in the steps `cancelTasks`
and `resetState`. The worker thread and each blocking caller are runners.

### HashManager

`HashManager.tla`: `hashFile` then `AlreadyQueued`, `QueueFile` or
`createHasher`; the loop of a hasher, `run`, in the steps `wait`,
`instantPause`, `checkStopping`, `NextFile`, `fileHashed`, `removeHasher`,
`resetStopping`, `deleteThis`; `stopHashing`, `stop`; `shutdown` in the steps
`beginShutdown`, `tellHashers`, `hashersEmpty`; a thread with a `HashPauser`,
which loads and stores `pausers` and then walks the list. Objects are the
hashers in memory, the ones that have left the list included.

### QueueItem

One file of the queue, its sources and their connections, from the choice of a
segment to its return.

- `Segments.tla`: the arithmetic of segments, without state. `Consolidate` is
  `addFinishedSegment` (with the growth it reports), `FreeSegments` the search
  of `getNextSegment` for what is neither done nor running, `NeededParts` its
  cut to the parts a partial source has, `isNeededPart` the test of a part list.
- `QueueItem.tla`: `done`, `finished` (what the bundle was told), `status`,
  priorities, `sources`, `partial`, `parts`, the raw pointers `downloads`, the
  state of each user's connection `conn` and its download `dl`, the leaves that
  are right on `disk`, whether the temporary file exists, and the place of a
  recheck. A connection runs `startDownload`, `getDownload` (another section),
  `Requesting`, `SND` with `open`, `Data` or `TreeData`, `FileNotAvailable`,
  `Failed`, `FailedIdle`, and returns its download in
  `onTreeDownloadCompleted`, `onFileDownloadCompleted` or `onDownloadFailed`
  (`putDownloadHooked`). Beside them: `addPartialSource`, `removeFileSource`,
  `removeQI`, `setBundlePriority`, `Resume`, and `recheckFiles` with
  `RecheckValidate`, `RecheckReset`, `RecheckRead`, `RecheckApply`,
  `RecheckEnd`. The world damages a leaf (`Damage`) or deletes the temporary
  file (`DeleteTemp`).
- `SegmentedDownload.tla`: the abstract specification. Units are given to users
  and come back as had or lost; no unit is given twice or while it is had; the
  download finishes once, when all are had. The mapping: `have` is what the done
  segments cover, `given[u]` the segment of u's download if it is in
  `downloads`, `state` the status.

A file is a few units long and a leaf of its tree is `BlockSize` units; the last
one may be shorter. Users in `BadUsers` send data with wrong hashes, those in
`TreelessUsers` have no tree.

### BundleQueue

`BundleQueue.tla`: a bundle of files, in the lists of `Bundle`, `BundleQueue`,
`FileQueue` and `UserQueue`. A finished download is looked up in `putDownload`
and completed in `Returning`, the connection's thread: `onFileDownloadCompleted`,
`MovesItem`, `renameDownloadedFile`, the last of which posts hooks to the task
thread. `TaskThread` runs the hooks of files and bundles, sets the statuses and
shares (`FileHook`, `CheckFinished`, `CheckCompleted`, `StartShare`,
`Revalidate`, `BundleHook`, `ShareBundle`), `RefreshCompleted` and `SetsShared`
come from the share. Against them: `removeQI` with `RemovesItem`,
`setQIPriority` with `SetsQIPriority`, `addBundleFile`,
`handleFailedRecheckItems`, `LoseFile`, sources that come and go, download
errors, `checkResumeBundles`, `setBundlePriority`, `shareBundle`,
`removeBundle`. An item is a file and the number of times it was queued.
`BundleFinish` and `BundleDrop` are `removeBundleItem` with and without
`aFinished`; the loops over a bundle's files in `readdBundle` and `removeBundle`
are the folds `RemoveItems` and `RemoveQIs`.

`overtaken` remembers that a thread acted on what another had changed since:
`"item"` (a file left between its lookup and the end of its completion),
`"prio"`, `"status"`, `"last"`, `"search"`, `"share"`, `"error"`. The properties
name the marks they except and section 8 what happens then.

### HubClient

`HubClient.tla`: `Client` and `AdcHub` with their `BufferedSocket`s and the HBRI
thread.

- `Client::connect` is in the steps `destroySocket`, `putSocket`,
  `SetConnecting`, `getSocket`, `Start`, run by the timer (`Reconnect`) or the
  user (`allowUntrustedConnect`); `reconnect`, `myInfoUpdated`, `Minute`.
- A socket has its thread, its queue of tasks (`SHUTDOWN`, `CLOSE`, `CONNECT`,
  `DISCONNECT`, `INFO`), and reports `Connected`, `NotConnected`, `GivesUp`,
  `Breaks`, then `FailedClears` and `FailedState`.
- Lines of the hub: `SID`, `INF`, `UserQuits`, `OwnINF`, `GPA`, `QUI`,
  `Redirect`, `Leave`, `Forbid`, `TCP`, with `resetHBRI` and `HbriEnds`.
- Closing: `putClient` (the user's) or `Closes` (a redirect), then `CloseJoin`,
  `CloseUnlisten`, `ClosePut`.
- Our information is a number that grows (`info`); `lastInfo` is the last one
  the client remembers sending, `told` what a socket has carried.
- The delay of a reconnect is not modelled as time: whenever it may have passed,
  it may. A call on a socket that was deleted is marked `"dangling"` and lost.
  `marks` also has `"early"`, `"thread"` and `"hbri"`, see the properties. Two
  calls of `connect` at once are possible only with `"overlap"` in `Events`. The
  erasure from the list of hubs is part of `ClosePut`.

### Lists

`Lists.tla` has `Filter`, what `std::erase_if` leaves of a list, for
`removeHasher`, the waiting users and the downloads of a file. It computes what
`SelectSeq` of the standard modules does, by the positions that remain instead
of by recursion, so that its lemmas need no induction. They are in the proof
modules of the three components, each with what its proofs use.

### Instances

`MCConnection`, `MCUpload`, `MCSearchQueue`, `MCShareTasks`, `MCHashManager`,
`MCQueueItem` only give values to constants (which user a connection belongs to,
the volume of a file, part lists, symmetry sets).

## 3. Runs

| Run | Module / cfg | Checks | Shows |
|---|---|---|---|
| `conn_protocol` | MCConnection / ConnProtocol | `TypeOK`, `OrphanInvariant`, `NoUnforcedReconnect`, `ConnectingEnds` | a peer with MCN that leaves and returns, protocol errors, one item: the inductive invariant of section 6; no request is sent to a peer with a protocol error unless it was forced; a request that is not answered is given up |
| `conn_mcn` | MCConnection / ConnMcn | `NoOrphanItem` | two items and one connection of one peer: the extra item of MCN is created and removed without leaving an item in use with no connection |
| `upload_files` | MCUpload / UploadFiles | `TypeOK`, `UploadInvariant` | an MCN and an NMDC connection, small files, hooks, delayed segments: the uploads on the lists are those of the connections although counters may be wrong |
| `upload_queue` | MCUpload / UploadQueue | `McnCounted`, `WithinSlots`, `QueueServed` | two MCN users on three connections, one user with an automatic slot: exact counters, slots exceeded by nobody else, waiting users served |
| `search_queue` | MCSearchQueue / SearchQueue | `SearchInvariant`, `NoOvertaking`, `HighestLeaves` | sorted, first come first served within a priority, the strongest not starved |
| `share_tasks` | MCShareTasks / ShareTasks | `TypeOK`, `ShareInvariant`, `RunnerDrains` | one consumer, no stuck root, the runner drains what it can see |
| `hash_queues` | MCHashManager / HashQueues | `TypeOK`, `HashInvariant`, `QueueMoves`, `ShutdownEnds` | list and threads agree, a file in one queue, volumes counted, no sleeping on work, shutdown ends |
| `hash_pause` | MCHashManager / HashPause | `PausedAgree` | hashers agree with the number of pausers whenever no call is under way |
| `queue_segments` | MCQueueItem / QueueSegments | `TypeOK`, `Accounted`, `Consolidated`, `DoneIsRight`, `NoDangling`, `Refines`, `AskedOfParts`, `FileCompletes` | two sources, one of which sends bad data and one has no tree, a file of a whole and a short leaf, failures, pauses, part lists, removal, a temporary file that disappears, a recheck of a finished file: the file is a segmented download, what counts as done is right and counted, and it is completed |
| `bundle_files` | BundleQueue / BundleQueue | `TypeOK`, `Counted`, `Sourced`, `StatusRight`, `BundleCompletes` | two files completed, rejected, lost, removed and queued again while hooks and the share run: sizes, source lists and status agree with the files, a finished bundle is completed |
| `hub_client` | HubClient / HubClient | `TypeOK`, `OneSocket`, `NoGhosts`, `InfoReaches`, `Reconnects`, `CloseEnds` | a hub's connection made, broken, replaced, redirected and closed by three threads |
| `queue_recheck` | MCQueueItem / QueueRecheck | `DoneIsRight`, violated | section 7 |

Deadlock is checked where the system never stops. It is switched off for
`ShareTasks` (a bounded number of tasks can be added) and for `HashManager` in
the runs with a shutdown (the system is then down, or the number of stops and
signals is used up), and for `QueueItem`, `BundleQueue` and `HubClient` (the
file is done or removed, the bundle is completed or removed, the hub is closed,
and the events of the run are used up).

Every property has a mutant in `PROJECT.json`: a change of one definition that
a plausible bug would make (an exclusive lock taken shared, a flag not reset, a
comparison turned round), with which TLC finds the property violated.

## 4. Bounds

| Bound | Where | Why it is enough |
|---|---|---|
| `Tokens`, `Conns` | ConnectionManager | an item and its connection make every race of one item with the timer, the socket thread and callers; two items bring the MCN rules. Tokens are reused once nothing remembers them, so behaviours are not cut short |
| `MaxErrors` = 0 | ConnectionManager | errors only lengthen the retry delay, which is a choice of `Elapse`; -1 is kept apart |
| `MaxInvites`, `MaxEvents` = 1 | ConnectionManager | a second request of the same token meets the same guards; a connection has a late State event to deliver at any time |
| `AttemptLimit` = 1 | ConnectionManager | the limit is reached by the second item |
| `Tokens` | UploadManager | transfer tokens of one connection: two suffice for a deletion posted for an upload that was replaced |
| `Wrap` | UploadManager | 256 where counters matter; 2 in `UploadFiles`, where lost updates let them drift through all values and only the lists are asked about |
| `SlotCount` = 1, three connections | UploadManager | two users compete, one of them with two connections |
| `MaxAge` = 3 | SearchQueue | beyond the longest interval of the searches of the run all ages behave alike |
| `Tokens` | ShareTasks | the number of tasks added; three paths of control (an adder, a blocking adder, an abort) overlap already with two tasks |
| `Objects` = 2, `Files` = 2, `MaxThreads` = 2 | HashManager | one hasher that stays and one that comes and goes; see section 8 for four |
| `MaxSignals`, `MaxStops`, `MaxPausers` | HashManager | signals not waited for, calls of stop, pausers. With one stop everything a stop leaves behind is met |
| `Size` = 3, `BlockSize` = 2 | QueueItem | a whole leaf and a short one: every case of the rounding. Also checked with `WantedSizes = {4}` and three events, with `Size = 5` (two events, safety) and with `BlockSize = 1` |
| two users, `MaxSegments` = 2, `MaxFails` = 1 | QueueItem | two downloads that meet in one file; one failure at any place |
| `MaxEvents` = 2 | QueueItem, BundleQueue | two changes from outside that overlap each other and everything else |
| two files of one unit, `Gens` = 2 | BundleQueue | one file ends, or comes back, while the other does something; also checked with `Size = 2` and one event |
| two sockets at once, `MaxInfo` = 2 | HubClient | the old socket ends while the new one connects; the information changes once. Sockets are reused |
| `MaxEvents` = 1 | HubClient | events of the user and the hub beyond connection, login, loss and reconnection, which are not bounded. Also checked with two: the invariants with all events, `InfoReaches` with reconnect and hbri, `Reconnects` with reconnect and leave or protect, `CloseEnds` with close, redirect and hbri (`MaxInfo` = 1, 148,875 states) |

Constants that are switches (`ProtocolErrors`, `PeerRepeatsInf`, `LowSpeed`,
`Delays`, `ThreadFails`, `LeavingUsers`, `Leavers`, `Ops`, `Events`) choose the part of
the environment a run is about. The proofs hold for all of their values but
the one named in section 6.

## 5. Fairness

- `ConnectionManager`, `Fairness`: the timer thread takes its steps (weak), a
  socket thread inside `addDownloadConnection` gets on (weak: it holds the
  shared lock the timer waits for), and the time since an attempt passes
  (strong: forcing an attempt interrupts it). No peer has to answer and no
  caller has to call.
- `SearchQueue`, `Fairness`: the hub's timer runs and time passes.
- `UploadManager`, `LiveSpec`: the timer's `on(Second)` and `on(Minute)` run
  and the 90 seconds of a notification pass. Connections owe nothing:
  a request may stay where it is, a notified user need not come.
- `ShareTasks`, `LiveSpec`: threads that were started run, calls that have
  begun return, the loop of an abort ends. Nobody has to add a refresh.
- `HashManager`, `LiveSpec`: hashing threads run (weak fairness of the whole
  loop: a thread that can neither get a signal nor the lock is not enabled),
  calls that have begun return, a `HashPauser` is destroyed (it is a local of
  the refresh), `shutdown` goes on. Nobody has to queue a file.

- `QueueItem`, `LiveSpec`: per connection, weak: its thread goes on, the peer
  answers or the connection ends (the timer of `ConnectionManager` closes what
  is silent for 180 s), and a source that has something is connected to again
  (`ConnectingEnds` and the retry of section 2). A peer is free to fail again
  and again up to `MaxFails`, and to send bad data for ever.
- `BundleQueue`, `LiveSpec`: weak, for the thread of a connection that returns
  a download, the task thread, the timer's delayed check and a removal that has
  begun. Nobody has to download.
- `HubClient`, `LiveSpec`: the timer calls every second and every minute, a
  call of `connect` or of closing that has begun goes on, each socket's thread
  gets back to its tasks between two lines of the hub (all strong: they wait for
  locks that others hold now and then), a validation times out (weak). The hub
  owes nothing, not even an answer to the login.

Operating system threads are scheduled, and the timer thread loops until the
program ends; nothing stronger is used.

## 6. Proofs

All theorems are for any number of users, tokens, connections, threads, paths
and so on, under the named assumptions on the constants of each module (types,
subsets, distinct markers), which TLC evaluates in the runs.

| Module | Theorem | States |
|---|---|---|
| `ConnectionManagerProofs` | `TypeCorrect`, `ReconnectsForced` | `Spec => []TypeOK`, `Spec => NoUnforcedReconnect` |
| | `OrphanInvariantHolds`, `NoOrphan` | `Spec => []OrphanInvariant`, `Spec => []NoOrphanItem`, if `~PeerRepeatsInf` |
| `SearchQueueProofs` | `QueueSorted`, `Overtaking` | `Spec => []SearchInvariant`, `Spec => NoOvertaking` |
| `UploadManagerProofs` | `TypeCorrect`, `UploadsOwned` | `Spec => []TypeOK`, `Spec => []UploadInvariant` |
| | `McnAlwaysCounted`, `SlotsRespected` | `Spec => []McnCounted`, `Spec => WithinSlots`, if `Mcn = Conns` and `Cardinality(Conns) < Wrap` |
| `ShareTasksProofs` | `TypeCorrect`, `RefreshesOwned` | `Spec => []TypeOK`, `Spec => []ShareInvariant` |
| `HashManagerProofs` | `TypeCorrect`, `QueuesRight` | `Spec => []TypeOK`, `Spec => [](QueuedOnce /\ DevicesCounted /\ SignalLeft)` |
| | `HashInvariantHolds` | `Spec => []HashInvariant`, if `MaxThreads <= 3` |
| | `PausedAgrees` | `Spec => []PausedAgree`, if there is one pausing thread |
| `HubClientProofs` | `TypeCorrect`, `OneSocketAlways`, `NoGhostsAlways` | `Spec => []TypeOK`, `Spec => []OneSocket`, `Spec => []NoGhosts`, if `"overlap" \notin Events` |
| `QueueItemProofs` | `TypeCorrect`, `GapsRemain` | `Spec => []TypeOK`, `Spec => []Consolidated` |
| | `NothingDangles` | `Spec => []NoDangling`, if `"recheck" \notin Events` |
| | `BytesAccounted`, `NothingDanglesAfterChecks` | `Spec => []Accounted`, `Spec => []NoDangling`, if `~OverlapSlow` and `~RecheckUnfinished` |
| | `DataStaysRight` | `Spec => []DoneIsRight`, if `~OverlapSlow` and `~RecheckUnfinished` |
| | `ImplementsSegmentedDownload` | `Spec => Refines`, if `~OverlapSlow` and `~RecheckUnfinished` |
| | `PartsAsked` | `Spec => AskedOfParts`, if `MultiChunk` and `BlockSize < Size` |
| `BundleQueueProofs` | `TypeCorrect`, `StatusRightHolds` | `Spec => []TypeOK`, `Spec => []StatusRight` |
| | `CountedHolds`, `SourcedHolds` | `Spec => []Counted`, `Spec => []Sourced` |

- `TypeOK` of `ConnectionManager` is more than types: the position the timer
  keeps while it calls out must stay inside the list. It is inductive because
  sections that remove items wait for the timer's lock (`WLock`).
- `NoOrphanItem` is not inductive. It needs where the socket thread stands
  (`ConnectionPhases`: only a connection that has sent INF, and is associated
  once, is past the handshake), that the token of a connection is one of its
  own user (`TokenOwners`), that only users with MCN have MCN items
  (`McnItems`), and that an item outside the list is out of use
  (`UnqueuedItems`, because a token may come back). Together these are
  `OrphanInvariant`, which `conn_protocol` checks. The proof has one lemma per
  kind of change (an item, a connection, a removal, a failure, a new item) and
  one for the steps of each thread. The hypothesis that a peer sends its INF
  once is needed: a second INF associates the connection with another item
  while the first one stays ACTIVE.
- `NoUnforcedReconnect` rests on `FatalInvariant`: an item with a mark of a
  protocol error is not one the timer is about to connect to (`AttemptClean`),
  its `errors` are -1 (`FatalSettled`), and the list has no token twice
  (`DistinctItems`). The last is needed because `removeExtraMCN` resets the item
  it removes and leaves the mark: the same token further down the list would
  then be tried.
- `SearchInvariant` is inductive with the bounds of `upper_bound`: what is
  before the insertion point is not weaker, what is behind it is weaker.
  `NoOvertaking` then follows from two facts on sequences: removing an element
  keeps the order of the others, and so does inserting one.
- `UploadInvariant` is `UploadOwned` with the phases of a connection and
  `posted \cap uploads = {}`: a deletion is posted for a delayed upload, and
  one that has been resumed since is not on the running list under the token
  of the posted call. It is proved connection by connection: a step moves one
  connection (`Moved`), and all others keep what they own. It holds whatever
  the counters are. `TypeOK` rests on it: a posted deletion is one of a token.
- `McnCounted` is inductive with the places of the threads (`Phases`), at most
  one of them inside a section of `slotCS` or `cs` (`OneInside`), and what such
  a thread carries: the loaded counter is still the counter (`LoadedFresh`) and
  a slot it found free still is (`StillFree`). The counters are those of the
  code, modulo `Wrap`, hence fewer connections than that; and MCN connections
  only, because `runningUsers` of the others is decremented without a common
  lock, which loses updates (`FreeSlotsExact`, section 8). `WithinSlots` is a
  consequence for the step that counts a slot.
- `ShareInvariant` joins the single owner of the flag (`OneRunner`), the
  front of the queue (`RunsFront`), completion (`CompletedRemoved`) and the
  roots (`NoStuckRoot`), with the owners of tokens and the waiting of blocking
  callers. `Responsible(p)` names who will make a root NORMAL; every step that
  takes one of them away either does so or leaves another.

- `QueueInvariant` of `HashManager` has one part per hasher (`Consistent`: a
  file is being hashed exactly at that place of the loop, the counts of the
  volumes are the files of the queue and that one, whoever goes to wait with
  files queued has a signal left, and no hasher is told of a shutdown before
  `shutdown` is there, so that a semaphore gets one signal beyond the files')
  and two of all (`QueuedOnce`, and the objects of the list are in use). A
  call of `stop` forgets the volumes while a file is being hashed and
  may leave a sleeper its `stopping`; equality of counts and `SignalLeft` are for
  behaviours without one, an upper bound of the counts for all.
- `ListedRun` adds that no two hashers of the list have one number. It holds up
  to three threads and not for four, where the code breaks it: the list can
  become 0, 2, 1 (hasher 1 ends and a new one is appended), and the search for
  the first number that is not at its place then returns a number in use.
  With at most three threads a hasher is created only behind one or two others,
  the first of them number 0, and the number it gets is then free.
- `PausedAgree` is inductive as `Agrees(p)`, which says at each place of the one
  pausing thread what the counter, its loaded value and the flags of the hashers
  already visited are. Hashers cannot be added or removed while it walks the
  list (`WLock`); one added before or after gets its flag from the counter.
- `HubInv` is `NoGhosts` with `SockInv` (where a socket's thread is goes with its
  state; only the client's socket has a listener or an active thread; CLOSE is
  asked for by the closing thread and SHUTDOWN by the one that connects) and
  `ThreadInv` (one thread connects, at `destroy` and `remove` only while the
  client's socket is quiet, and the closing one is behind both). The hypothesis
  that `connect` is not run by two threads at once is what the code leaves to
  chance: no lock stops the timer and the user (`"overlap"`, section 8).
- `Base`, the inductive invariant of `QueueItem` that holds for all settings,
  has the types, that the finished segments lie inside the file and never touch
  (`Separated`), that what is running has a segment of the file, and how far a
  recheck is. Below it are lemmas on `Segments`: what `Consolidate` returns
  covers what was covered and the new segment, nothing else, and stays
  separated, and the growth that it reports is right if the new segment
  overlaps nothing; what the scan of `FreeSegments` returns begins
  and ends at multiples of a block or the end of the file, is not empty and
  overlaps neither what is done nor what is running, nor, block by block, what
  is done in part.
- `PointersRight` says that a queued file's `downloads` hold users whose
  connection owns a download. It is inductive as long as a file that was
  finished or removed is not queued again, hence the hypothesis of
  `NothingDangles`, which allows overlapped segments.
- `Work` is what connections share of a file, until it is removed: what is done
  consists of whole leaves and is what the bundle counted (`DoneRight`); no two
  downloads in the list have a unit in common, nor with what is done
  (`ApartRight`); a queued file is not complete and each of its entries is owned
  by a connection (`QueuedRight`); a recheck works on a file that nobody
  downloads (`PhaseRight`); and where `startDownload` or `getDownload` stands in
  between, what it has decided still holds (`StartingRight`, `AssignedRight`).
  `Accounted`, `NoDangling` with rechecks and the refinement follow from it. Its
  two hypotheses exclude the two places where the code breaks it: overlapped
  segments, which return the same bytes twice, and rechecks of unfinished files,
  which forget the downloads (section 8). With them `Work` is false, not just
  unproved.
- `DoneIsRight` alone is far from inductive: what is done was written before it
  was done. `DataRight`, on top of `Base` and `Work`, speaks of the leaves that
  were *had* (`Had(b)`: done, or all of whose units one open download from a
  source that sends the file has received): they are right on the disk while the
  file is there and was not deleted under a download (`LeavesRight`). With it go
  that open downloads write apart from each other and from what is done
  (`OpenApart`, also after a removal, where `Work` says nothing), that whoever has
  the file open writes to the one in the directory (`Writing`), and that a
  downloaded file was moved with all its leaves right (`Complete`). `Standing`
  says where a transfer can be: a bad source never gets past its first block, so
  that nothing is kept of it and no segment of it finishes. A step that writes
  either ends the leaf that it completes, and puts it on the disk (`DataData`), or
  touches a leaf that nobody had; what a failure keeps is cut to whole leaves that
  the download got (`KeptGot`), and the last segment makes every leaf one that was
  had (`CompletedData`). The two hypotheses are those of `Work`; without the
  second one it is `queue_recheck` that shows the counterexample.
- `ImplementsSegmentedDownload` maps `have` to the units of `done`, `given[u]` to
  the segment of u's entry in `downloads`, and the status. One lemma per action
  of the program says which step of `SegmentedDownload` it takes or that it
  takes none; `NextMaps` joins them.
- `PartsAsked` follows from the lemmas on `Part` and the assumption that an
  announced part ends behind its start, as `getPartialInfo` writes them
  (`QueueItem.cpp:631`). A file of one block, or one that is not downloaded in
  segments, is requested without a look at parts (`QueueItem.cpp:390`), hence
  the hypothesis.

- `Types` of `BundleQueue` is inductive on its own, with and without overtaking:
  what is finished has been downloaded, no item comes before it is made
  (`Placed`), and a connection that is between its lookup and the end has an
  item that it will move only once (`Returned`). It is enough for `TypeOK`.
- The other three invariants of `BundleQueue` need to know that what a thread
  has found still holds when it goes on. `Calm` says so: the paths of the queue
  and the lists of the bundle have the same items, except the one that `removeQI`
  has just taken out (`Listed`); a queued file is QUEUED or is in the hands of the
  connection that will move it (`Returns`); a file whose hooks wait or run is
  finished, still listed, in the hands of nobody else, and waits once (`Hooks`,
  `HookRuns`). It holds until an operation takes an item away from one of these
  threads, which is what the mark `"item"` records: `Steady`.
- `StatusRight` looks at the status only when it has been set; `Settled` speaks
  also of those who are about to set it from what they found (`Waiting`: a
  connection that found the bundle empty, the check of the task thread, share
  tasks that are queued, a refresh that found the bundle completed). While one of
  them is there the bundle has no queued files, and those that will make it
  COMPLETED or SHARED have seen all hooks accept (`Validated`). A paused bundle
  is not searched for, and one without queued files is not either.
- `Counting` is `Counted` as it stands, under `Steady`. The counts are changed file
  by file and the loops are folds, so its lemmas say what a fold over any finite
  set leaves (`RemoveItemsAre`): the order in which files are taken does not
  matter. The sum `Bytes` is the cardinality of a set of units (`BytesAreUnits`),
  for which the library has the arithmetic.
- `Sourcing` is `Sourced` file by file: a pair of priority and item is in the list
  of a user exactly if the item is queued under that priority and he is a source
  of it (`Waits`). `RemoveQI` does nothing for a user whose list of that priority is
  empty, so it is right only because the priority it is called with is the one the
  file was added under; this is where `"prio"` comes in.

Recursion: what the scan of `FreeSegments` and the walk over the leaves of
`Compared` compute is proved without an induction rule, because those of the
library take an operator as a parameter: the set of counterexamples would have a
least element (`LeastNat`, from the well-foundedness of `<` on `Nat`), and there
the recursion's own equation gives the contradiction. The folds over sets are
treated in the same way, by the size of the set (`FirstInduction`). `Consolidate`,
a loop in the code, is written in closed form for the same reason.

Only model-checked: all liveness properties (`ConnectingEnds`,
`HighestLeaves`, `QueueServed`, `RunnerDrains`, `QueueMoves`, `ShutdownEnds`,
`FileCompletes`, `BundleCompletes`, `InfoReaches`, `Reconnects`, `CloseEnds`),
because they rest on fairness, which the prover does not handle. Every invariant
of a passing run has its theorem, and so have the action properties and the
refinement; their hypotheses are in the table.

## 7. Findings

A statement of the code that TLC refutes in a kept run; the run's trace is the
schedule. Section 8 has those that need no run of their own.

- `queue_recheck`: "The integrity of all finished segments will be verified"
  (`QueueManager.h:393`). For a leaf that differs and was not downloaded the
  lambda of the recheck returns (`QueueManager.cpp:363`) before
  `pos += tt.getBlockSize()` (369). Every later leaf is then compared at its own
  place and recorded at an earlier one: data that was never downloaded counts as
  done, data that is right is requested again, and a file whose first leaf is
  missing can count as finished up to its last leaf.

## 8. Deviations

More statements of the code that the models refute, or exceptions the kept
properties make. No run is kept for them; TLC reproduces each with the constants
given (as changes of a kept cfg), most of them with a property that is stated in
the module.

| Property | Statement | Schedule | To reproduce |
|---|---|---|---|
| `PutCQIFindsItem` (ConnectionManager) | `putCQI` asserts that it finds the item, `ConnectionManager.cpp:1300` | `on(Second)` removes items by tokens it collected under an earlier lock; a connection that was given the item in between fails later and finds none | ConnProtocol with `ProtocolErrors = FALSE` |
| `FreeSlotsExact` (UploadManager) | "@return Number of free slots.", `UploadManager.h:67` | `runningUsers` is incremented under `slotCS` by one thread while another decrements it without; one of the two is lost and the number stays wrong | UploadFiles with `Mcn = {}`, `Nmdc = {}`, `Tokens = {t1}`, `SlotCount = 2`, `SmallLimit = 8`, `Requests = {"normal"}`, `Grants <- MCNoGrants`, `Wrap = 256`, `Delays = {FALSE}` |
| `QueuedStarts` (ShareTasks) | the answer QUEUED, `ShareTasks.cpp:285` | a refresh is added after the runner's last look at the queue and before the flag is cleared; nobody runs it | ShareTasks with `LiveSpec`, `Aborters = {}`, `ThreadFails = FALSE`, one path, three tokens |
| `ShutdownReturns` (HashManager) | "we cant allow adding more hashers if we are shutting down, it will result in infinite loop", `HashManager.cpp:213` | the flag is tested before the lock is taken, a hasher is added, `shutdown` does not return | HashQueues with `Files = {1}`, `MaxStops = 0` |
| `OneWaitingItem` | "we should keep only one waiting connection", `ConnectionManager.h:194` | two threads find that a new MCN item is allowed and each adds one | ConnProtocol with `ProtocolErrors = FALSE`, `Tokens` of 4, `Conns` of 2, `FileKinds = {"small", "normal"}` |
| `OneSmallItem` | one small slot item per user, `ConnectionManager.cpp:241` | `attemptDownloads` turns an item into a small one (423-425) without asking `allowNewMCNUnsafe` | ConnProtocol with `ProtocolErrors = FALSE`, two tokens, both kinds of files |
| `NewRequestForces` | "Force in case we joined a new hub and there was a protocol error", `ConnectionManager.cpp:193` | `resetFatalError` (172) tests `lastAttempt == -1`, the mark of a protocol error is `errors == -1` | ConnProtocol with two tokens |
| `RequestLeavesItem` | `getDownloadConnection` leaves an item or an idle connection, `ConnectionManager.cpp:178` | the idle connection it counts on fails, or the item is one `on(Second)` has decided to remove | ConnProtocol with `ProtocolErrors = FALSE` |
| `ConnectingEnds` without its exception | an attempt times out, `ConnectionManager.cpp:388` | an item with a protocol error is skipped before the time-out: a forced attempt that is not answered stays CONNECTING | ConnProtocol |
| `OneSearchPerOwner` (SearchQueue) | "removes all possible existing items from the same owner", `SearchQueue.h:34` | two adds of one owner both cancel before either inserts | SearchQueue |
| `IntervalRespected` | "allowed by the search intervals", `SearchQueue.h:38` | the first search is cancelled between the test of the interval and the removal; a weaker one is sent too early | SearchQueue |
| `ReservedSlots` (UploadManager) | no more users are notified than slots are free, `UploadQueueManager.cpp:151` | a `uint8_t` subtraction wraps when more users are notified than are free | UploadQueue with `Spec`, `c1`, `c3`, `c4` of three users, no `MiniSlots`, `SlotCount = 2` |
| `QueuedOnce` (ShareTasks) | "Remove the exact directories that have already been queued for refreshing", `ShareTasks.cpp:141` | two callers validate (182) before either adds (199) | ShareTasks with `LiveSpec`, `Aborters = {}`, `ThreadFails = FALSE`, one path, three tokens |
| `PausedAgree` with two pausers (HashManager) | `pausers` counts them, `HashManager.cpp:405` | `pausers++` and `--pausers` of two threads lose an update | HashPause with two `Pausers`, `MaxPausers = 2` |
| `ListedRun` with four hashers | a new hasher gets a free number, `HashManager.cpp:166` | the search for a free number takes the list to be sorted; after a removal and an insertion it is not, two hashers get one number and `removeHasher` erases both | HashQueues with `MaxThreads = 4`, four files on four volumes, four objects |
| `SignalLeft` without `stops = 0` | `Hasher.cpp:163` | a stop leaves `stopping` set on a sleeping hasher; the next file's signal only ends the stopping and the file waits for another | HashQueues |
| a hasher suspended for good | `Hasher.cpp:222` | the thread reads `paused`, is resumed, and then suspends itself; it is not paused any more, so neither `resume` nor `shutdown` wakes it | HashPause |

Queue:

| Where | What happens |
|---|---|
| `OverlapSlow = TRUE` (QueueItem), `Bundle.cpp:160` | two sources return the same bytes: the growth of the first pair that `addFinishedSegment` joins is not the growth of the file, and a segment inside another can shrink what is covered; `Accounted` fails |
| `QueueManager.cpp:1717` | a failed download without finished segments deletes the temporary file while another download has it open; it goes on writing into the deleted file (`unlinked`). The destructor of `SharedFileStream` compares with `mode == File::READ` |
| `QueueManager.cpp:1177` | `getDownload` dereferences `getSource(user)`, which may have been removed since `startDownload` |
| `QueueItem::downloads`, `RecheckUnfinished = TRUE` | a source that was removed while it downloads keeps its entry when a recheck completes the file; when a later recheck queues it again, the entry dangles (29 steps, `Events` with parts, source, recheck, resume, damage) |
| `QueueManager.cpp:1170`, `OverlapSlow = TRUE` | `getDownload` does not look at the status of the file: a connection that chose it before another one completed it adds an entry afterwards, which stays when the file is no longer queued and dangles after a recheck (25 steps, `Events` with recheck, damage) |
| `fileNotAvailable` | the connection is left silent until the timer of 180 s |
| `QueueManager.cpp:304`, `318` | the recheck resets `done` under a shared lock; a file resumed between the validation and the reset breaks `Accounted`; an error of reading after the reset loses the progress (`RecheckUnfinished = TRUE`) |
| `addPartialSource` | a source that is added again keeps FLAG_NO_TREE; `PartialFileSource::Sort` is not a strict weak order |
| `"last"` (BundleQueue), `Bundle.h:54` | removing the last queued file leaves a finished bundle QUEUED ("no queued files" is DOWNLOADED) |
| `"error"` | `onDownloadError` of a connection writes its status after another has finished the last file |
| `"status"` | a file is queued again while a thread is about to set the status it decided on |
| `"prio"`, `QueueManager.cpp:2243` | `setQIPriority` puts a file back into the lists of users that was finished or removed since |
| `"search"` | a bundle gets back into the search queue between the end of its last file and DOWNLOADED |
| `"share"` | `shareBundle` shares without asking `filesCompleted` |
| `"item"` | a completion goes on after `removeQI` or `removeBundle` took the file away |
| `BundleQueue.cpp:408` | `removeQueue` lowers `finishedFiles` of the directory and never `queuedFiles` |
| `PrioritySearchQueue.h:46` | `readdBundle`, called for a bundle that is queued, adds it to the search queue twice |
| `QueueManager.cpp:2125` | a file bundle's list may be empty when its `front()` is taken |
| `recheckBundle` | `setStatus(oldStatus)` overwrites a DOWNLOADED set in between |

Hub (`HubClient.cfg` with `Events` as given):

| Where | What happens |
|---|---|
| `"overlap"`, `"untrusted"` | two calls of `connect` at once leave two sockets with the client as listener: `OneSocket` fails |
| `"reconnect"` | `sock` is stale between the deletion of a socket and `getSocket`: `"dangling" \notin marks` fails |
| `"close"` | a closed client may be left in NORMAL or PROTOCOL without a socket: `closer.pc = "closed" /\ sock = Null => state = "DISCONNECTED"` fails |
| `"reconnect"`, mark `"early"` | a DISCONNECT that overtakes the CONNECT is dropped by `checkEvents` |
| `"close"`, `"thread"` | a socket whose thread could not be started is never deleted |
| `"close"`, `"hbri"` (two events) | a validation that begins after `resetHBRI`, or two calls of it, leave a thread that nobody joins |
| `info()` in VERIFY | dropped until the next minute; a hook that rejects the message leaves `lastInfoMap` ahead of the hub |

Two slips of data, not of control, were met on the way: the comment of
`pauseHashing` ("@return whether hashing was already paused") does not describe
the value returned, and the comparison of `HashStats` in `HashManager.h`
compares `filesAdded` with the other side's `filesLeft`.

## 9. What is not modelled

- Data: what is in files, messages and lists; the names of users and hubs; the
  speed and size of transfers. Where a decision depends on it the model has a
  choice (which hasher is least loaded, whether a speed is low, whether a file
  opens).
- `ConnectionManager`: upload and PM items, the NMDC handshake, flood
  protection, shutdown. `DownloadManager` appears as what it does to the state
  of a connection.
- `QueueItem`: file lists and viewed files, zero-byte files, speed limits and
  the disconnection of slow sources, compressed transfers, the choice between
  files of a user, autodrop.
- `BundleQueue`: rechecks of a whole bundle (STATUS_RECHECK), bundles of one
  file, bad sources, loading and saving the queue, adds of several files at once
  and the merging of bundles. Hooks are taken to have subscribers. A
  revalidation is one step for all files, and so are lookup and removal in
  `removeFileSource`.
- `HubClient`: `NmdcHub`, chat, searches and their queue (in `SearchQueue`),
  transfer modes and filters of a socket, TLS, the user closing a hub during its
  redirect, and the new client a redirect makes.
- `UploadManager`: requests for file information, the matcher for free slots,
  statistics, shutdown.
- `Thread::suspend` is modelled as the code uses it. The POSIX `Semaphore`
  waits in an `if`, not in a loop; a spurious wake-up of `pthread_cond_wait`
  is not modelled.
- Most of the 84,000 lines of the repository are not control: parsers and
  encoders, file and socket wrappers, settings and their texts, hash functions,
  lists of the user interface, vendored data. A model of them would repeat them.
- The components of `PROJECT.json` with status `not_modelled`: pure I/O and
  parsing, storage libraries, views for the user interface, and the parts of
  the plan below.

## 10. Plan

In this order, each with its hazards, runs and, where it pays, theorems:

1. `DownloadManager`: running downloads and idlers, then its composition with
   `ConnectionManager` in place of `CheckDownloads`.
2. `ThrottleManager`; `PrivateChat` (CCPM); `MappingManager`;
   `AutoSearchManager`; upload bundles and partial sharing over lossy delivery;
   `NmdcHub` and the NMDC side of `ConnectionManager`.
   Of upload bundles, these places are the ones to look at:
   `handleAddBundleConnection` takes a moved connection out of its new bundle
   instead of the previous one (`UploadBundleInfoReceiver.cpp:329`), so that the
   previous one never becomes idle; two connections that start at once each
   create an info of one bundle (`UploadBundleInfoSender.cpp:107`); the progress
   of a tick is written to the string of the speed (`getTickParams(speedStr,
   speedStr)` in `onDownloadTick`).
3. Compositions: `ShareTasks` with `HashManager` through `HashPauser`; a
   downloader (`ConnectionManager`) with an uploader (`UploadManager`).
