----------------------------- MODULE HashManager -----------------------------
(***************************************************************************)
(* The hashing threads: HashManager (hash/HashManager.cpp) with its list   *)
(* of Hashers (hash/Hasher.cpp), each a thread with a queue of files.      *)
(*                                                                         *)
(* The list, the queues and the device counts are used under the lock hcs; *)
(* every exclusive section of it is one step.  Outside it are the flag     *)
(* isShutdown that hashFile looks at first, the counter pausers, and what  *)
(* a hasher's own thread reads without a lock (paused, stopping, its       *)
(* semaphore); pause and resume walk the list under the shared lock, one   *)
(* hasher at a time.  Sizes are left out, so that the least loaded hasher  *)
(* may be any of the candidates; so is what hashing a file produces.       *)
(***************************************************************************)
EXTENDS Integers, Sequences, FiniteSets, Lists

CONSTANTS Files,      \* paths, as numbers in the order of the queue
          Devices,    \* volumes
          DeviceOf,   \* the volume of every file
          Objects,    \* the Hasher objects that can be in memory at once
          Callers,    \* threads that find files to hash
          Pausers,    \* threads that hold a HashPauser from time to time
          MaxThreads, \* MAX_HASHING_THREADS
          PerVolume,  \* HASHERS_PER_VOLUME, 0 for no limit
          BaseDirs,   \* sets of files that stopHashing is called for
          MaxSignals, \* bound: signals a hasher has not waited for yet
          MaxPausers, \* bound: the counter of pausers
          MaxStops,   \* bound: calls of HashManager::stop
          NoFile

ASSUME FilesAssumption == Files \subseteq Nat /\ NoFile \notin Files

ASSUME DevicesAssumption == DeviceOf \in [Files -> Devices]

ASSUME LimitsAssumption == /\ MaxThreads \in Nat \ {0}
                           /\ PerVolume \in Nat
                           /\ BaseDirs \subseteq SUBSET Files

ASSUME BoundsAssumption ==
  MaxSignals \in Nat \ {0} /\ MaxPausers \in Nat /\ MaxStops \in Nat

VARIABLES hashers,    \* HashManager::hashers
          hasher,     \* the Hasher objects
          pausers,    \* HashManager::pausers
          isShutdown, \* HashManager::isShutdown
          caller,     \* the file a caller is about to queue
          pauser,     \* progress of the threads that pause
          closing,    \* progress of HashManager::shutdown
          stops       \* calls of stop so far

vars == <<hashers, hasher, pausers, isShutdown, caller, pauser, closing, stops>>

Listed == {hashers[i] : i \in DOMAIN hashers}

\* An object whose thread has not ended.
Alive == {o \in Objects : hasher[o].pc # "free"}

NoDevices == [d \in Devices |-> 0]

Free == [pc |-> "free", id |-> 0, w |-> {}, devices |-> NoDevices, s |-> 0,
         stopping |-> FALSE, isShutdown |-> FALSE, paused |-> FALSE,
         suspended |-> FALSE, cur |-> NoFile]

\* A Hasher that has been constructed: its thread waits for a signal.
Hasher(id, paused) == [Free EXCEPT !.pc = "wait", !.id = id, !.paused = paused]

NoPause == [pc |-> "idle", value |-> 0, todo |-> {}]

-----------------------------------------------------------------------------
(* The lock hcs: pauseHashing and resumeHashing hold it shared *)

WLock == \A p \in Pausers : pauser[p].pc \notin {"pausing", "resuming"}

-----------------------------------------------------------------------------
\* startup: hasher 0 is there, and a file may be hashed at any time.
Init ==
  /\ \E o \in Objects :
       /\ hashers = <<o>>
       /\ hasher = [p \in Objects |-> IF p = o THEN Hasher(0, FALSE) ELSE Free]
  /\ pausers = 0
  /\ isShutdown = FALSE
  /\ caller = [c \in Callers |-> NoFile]
  /\ pauser = [p \in Pausers |-> NoPause]
  /\ closing = "no"
  /\ stops = 0

-----------------------------------------------------------------------------
(* HashManager::hashFile *)

\* Without the lock.
hashFile(c, f) ==
  /\ caller[c] = NoFile
  /\ ~isShutdown
  /\ caller' = [caller EXCEPT ![c] = f]
  /\ UNCHANGED <<hashers, hasher, pausers, isShutdown, pauser, closing, stops>>

isPathQueued(f) == \E o \in Listed : f \in hasher[o].w

\* The first place of the list whose hasher does not have its number.
IsNewId(id) ==
  /\ \A i \in 1..id : hasher[hashers[i]].id = i - 1
  /\ id < Len(hashers) => hasher[hashers[id + 1]].id # id

hasDevice(d) == {o \in Listed : hasher[o].devices[d] > 0}

MainIdle ==
  Len(hashers) = 1 /\ hasher[hashers[1]].devices = NoDevices

TotalExceeded == Len(hashers) >= MaxThreads

\* The hashers getFileHasher can choose for a file of the volume.
getFileHasher(d) ==
  CASE MainIdle                            -> Listed
    [] ~MainIdle /\ hasDevice(d) = {}      -> IF TotalExceeded THEN Listed ELSE {}
    [] ~MainIdle /\ hasDevice(d) # {}      -> hasDevice(d)

\* Whether a new one can be created instead: with a hasher for the volume
\* that depends on the sizes.
MayCreate(d) ==
  /\ ~MainIdle
  /\ ~TotalExceeded
  /\ hasDevice(d) # {} =>
       (PerVolume = 0 \/ Cardinality(hasDevice(d)) < PerVolume)

\* Hasher::hashFile
Queue(h, f) ==
  [h EXCEPT !.w = @ \cup {f}, !.devices[DeviceOf[f]] = @ + 1, !.s = @ + 1]

AlreadyQueued(c) ==
  /\ WLock /\ caller[c] # NoFile
  /\ isPathQueued(caller[c])
  /\ caller' = [caller EXCEPT ![c] = NoFile]
  /\ UNCHANGED <<hashers, hasher, pausers, isShutdown, pauser, closing, stops>>

QueueFile(c) ==
  /\ WLock /\ caller[c] # NoFile
  /\ ~isPathQueued(caller[c])
  /\ \E o \in getFileHasher(DeviceOf[caller[c]]) :
       /\ hasher[o].s < MaxSignals
       /\ hasher' = [hasher EXCEPT ![o] = Queue(@, caller[c])]
  /\ caller' = [caller EXCEPT ![c] = NoFile]
  /\ UNCHANGED <<hashers, pausers, isShutdown, pauser, closing, stops>>

\* A form of createHasher that does not look at the pausers.
CreateRunning(c) ==
  /\ WLock /\ caller[c] # NoFile
  /\ ~isPathQueued(caller[c])
  /\ MayCreate(DeviceOf[caller[c]])
  /\ \E o \in Objects \ Alive, id \in 0..Len(hashers) :
       /\ IsNewId(id)
       /\ hashers' = Append(hashers, o)
       /\ hasher' = [hasher EXCEPT ![o] = Queue(Hasher(id, FALSE), caller[c])]
  /\ caller' = [caller EXCEPT ![c] = NoFile]
  /\ UNCHANGED <<pausers, isShutdown, pauser, closing, stops>>

createHasher(c) ==
  /\ WLock /\ caller[c] # NoFile
  /\ ~isPathQueued(caller[c])
  /\ MayCreate(DeviceOf[caller[c]])
  /\ \E o \in Objects \ Alive, id \in 0..Len(hashers) :
       /\ IsNewId(id)
       /\ hashers' = Append(hashers, o)
       /\ hasher' = [hasher EXCEPT ![o] = Queue(Hasher(id, pausers > 0), caller[c])]
  /\ caller' = [caller EXCEPT ![c] = NoFile]
  /\ UNCHANGED <<pausers, isShutdown, pauser, closing, stops>>

-----------------------------------------------------------------------------
(* A hasher's thread: Hasher::run, processQueue and instantPause *)

Others == <<hashers, pausers, isShutdown, caller, pauser, closing, stops>>

wait(o) ==
  /\ hasher[o].pc = "wait" /\ hasher[o].s > 0
  /\ hasher' = [hasher EXCEPT ![o].pc = "pause", ![o].s = @ - 1]
  /\ UNCHANGED Others

\* The flag is read in one step and the thread suspends itself in another.
instantPause(o) ==
  /\ hasher[o].pc = "pause"
  /\ hasher' = [hasher EXCEPT ![o].pc = IF hasher[o].paused THEN "suspend" ELSE "check"]
  /\ UNCHANGED Others

t_suspend(o) ==
  /\ hasher[o].pc = "suspend"
  /\ hasher' = [hasher EXCEPT ![o].pc = "suspended", ![o].suspended = TRUE]
  /\ UNCHANGED Others

resumed(o) ==
  /\ hasher[o].pc = "suspended" /\ ~hasher[o].suspended
  /\ hasher' = [hasher EXCEPT ![o].pc = "check"]
  /\ UNCHANGED Others

checkStopping(o) ==
  /\ hasher[o].pc = "check"
  /\ hasher' = [hasher EXCEPT ![o].pc = IF hasher[o].stopping THEN "end" ELSE "next"]
  /\ UNCHANGED Others

NextFile(o) ==
  /\ WLock
  /\ hasher[o].pc = "next" /\ hasher[o].w # {}
  /\ \E f \in hasher[o].w :
       /\ \A g \in hasher[o].w : f <= g
       /\ hasher' = [hasher EXCEPT ![o].pc = "hash", ![o].cur = f, ![o].w = @ \ {f}]
  /\ UNCHANGED Others

NoFileLeft(o) ==
  /\ WLock
  /\ hasher[o].pc = "next" /\ hasher[o].w = {}
  /\ hasher' = [hasher EXCEPT ![o].pc = "end"]
  /\ UNCHANGED Others

\* A form of removeDevice that does not look for the volume first.
DropsBelow(devices, d) == [devices EXCEPT ![d] = @ - 1]

removeDevice(devices, d) ==
  [devices EXCEPT ![d] = IF @ > 0 THEN @ - 1 ELSE 0]

\* A form of fileHashed that forgets the volume.
KeepsDevice(o) ==
  /\ WLock
  /\ hasher[o].pc = "hash"
  /\ hasher' = [hasher EXCEPT ![o].pc = "pause", ![o].cur = NoFile]
  /\ UNCHANGED Others

\* The file has been hashed, has failed or was given up (stopping).
fileHashed(o) ==
  /\ WLock
  /\ hasher[o].pc = "hash"
  /\ hasher' = [hasher EXCEPT
       ![o].pc = "pause", ![o].cur = NoFile,
       ![o].devices = removeDevice(@, DeviceOf[hasher[o].cur])]
  /\ UNCHANGED Others

EndsRun(o) == hasher[o].isShutdown \/ (hasher[o].w = {} /\ hasher[o].id # 0)

\* removeHasher erases by number.
removeHasher(o) ==
  /\ WLock
  /\ hasher[o].pc = "end" /\ EndsRun(o)
  /\ hashers' = Filter(hashers, {h \in Objects : hasher[h].id # hasher[o].id})
  /\ hasher' = [hasher EXCEPT ![o].pc = "delete"]
  /\ UNCHANGED <<pausers, isShutdown, caller, pauser, closing, stops>>

staysListed(o) ==
  /\ WLock
  /\ hasher[o].pc = "end" /\ ~EndsRun(o)
  /\ hasher' = [hasher EXCEPT ![o].pc = "reset"]
  /\ UNCHANGED Others

\* A form of resetStopping that drains the signals.
DrainsSignals(o) ==
  /\ hasher[o].pc = "reset"
  /\ hasher' = [hasher EXCEPT ![o].pc = "wait", ![o].stopping = FALSE, ![o].s = 0]
  /\ UNCHANGED Others

resetStopping(o) ==
  /\ hasher[o].pc = "reset"
  /\ hasher' = [hasher EXCEPT ![o].pc = "wait", ![o].stopping = FALSE]
  /\ UNCHANGED Others

deleteThis(o) ==
  /\ hasher[o].pc = "delete"
  /\ hasher' = [hasher EXCEPT ![o] = Free]
  /\ UNCHANGED Others

run(o) ==
  \/ wait(o)
  \/ instantPause(o)
  \/ t_suspend(o)
  \/ resumed(o)
  \/ checkStopping(o)
  \/ NextFile(o)
  \/ NoFileLeft(o)
  \/ fileHashed(o)
  \/ removeHasher(o)
  \/ staysListed(o)
  \/ resetStopping(o)
  \/ deleteThis(o)

-----------------------------------------------------------------------------
(* stopHashing, stop and shutdown *)

\* Files of one directory leave the queue of a hasher.
Without(h, dir) ==
  [h EXCEPT !.w = @ \ dir,
            !.devices = [d \in Devices |->
               LET n == Cardinality({f \in h.w \cap dir : DeviceOf[f] = d})
               IN  IF h.devices[d] > n THEN h.devices[d] - n ELSE 0]]

stopHashing(dir) ==
  /\ WLock
  /\ \E o \in Listed : hasher[o].w \cap dir # {}
  /\ hasher' = [o \in Objects |-> IF o \in Listed THEN Without(hasher[o], dir) ELSE hasher[o]]
  /\ UNCHANGED Others

\* Hasher::stop
Stopped(h) == [h EXCEPT !.w = {}, !.devices = NoDevices, !.stopping = TRUE]

stop ==
  /\ WLock
  /\ stops < MaxStops
  /\ stops' = stops + 1
  /\ hasher' = [o \in Objects |-> IF o \in Listed THEN Stopped(hasher[o]) ELSE hasher[o]]
  /\ UNCHANGED <<hashers, pausers, isShutdown, caller, pauser, closing>>

beginShutdown ==
  /\ closing = "no"
  /\ isShutdown' = TRUE
  /\ closing' = "tell"
  /\ UNCHANGED <<hashers, hasher, pausers, caller, pauser, stops>>

\* A form of Hasher::shutdown that signals only what it has to resume.
SignalsPaused(h) ==
  [Stopped(h) EXCEPT !.isShutdown = TRUE, !.paused = FALSE,
                     !.suspended = IF h.paused THEN FALSE ELSE @,
                     !.s = IF h.paused THEN @ + 1 ELSE @]

\* Hasher::shutdown: stop, resume what is paused, and wake the thread up.
Told(h) ==
  [Stopped(h) EXCEPT !.isShutdown = TRUE, !.paused = FALSE,
                     !.suspended = IF h.paused THEN FALSE ELSE @,
                     !.s = @ + 1]

tellHashers ==
  /\ WLock
  /\ closing = "tell"
  /\ hasher' = [o \in Objects |-> IF o \in Listed THEN Told(hasher[o]) ELSE hasher[o]]
  /\ closing' = "wait"
  /\ UNCHANGED <<hashers, pausers, isShutdown, caller, pauser, stops>>

\* "Wait for the hashers to shut down"
hashersEmpty ==
  /\ closing = "wait" /\ hashers = <<>>
  /\ closing' = "done"
  /\ UNCHANGED <<hashers, hasher, pausers, isShutdown, caller, pauser, stops>>

shutdown == beginShutdown \/ tellHashers \/ hashersEmpty

-----------------------------------------------------------------------------
(* pauseHashing and resumeHashing: the counter is a plain int *)

loadPause(p) ==
  /\ pauser[p].pc = "idle"
  /\ pausers < MaxPausers
  /\ pauser' = [pauser EXCEPT ![p] = [NoPause EXCEPT !.pc = "add", !.value = pausers]]
  /\ UNCHANGED <<hashers, hasher, pausers, isShutdown, caller, closing, stops>>

storePause(p) ==
  /\ pauser[p].pc = "add"
  /\ pausers' = pauser[p].value + 1
  /\ pauser' = [pauser EXCEPT ![p].pc = "added", ![p].value = @ + 1]
  /\ UNCHANGED <<hashers, hasher, isShutdown, caller, closing, stops>>

\* The value tested is the one stored or one read again.
testPause(p) ==
  /\ pauser[p].pc = "added"
  /\ \E value \in {pauser[p].value, pausers} :
       pauser' = [pauser EXCEPT ![p] =
         IF value = 1 /\ Listed # {}
         THEN [NoPause EXCEPT !.pc = "pausing", !.todo = Listed]
         ELSE [NoPause EXCEPT !.pc = "held"]]
  /\ UNCHANGED <<hashers, hasher, pausers, isShutdown, caller, closing, stops>>

pause(p) ==
  /\ pauser[p].pc = "pausing"
  /\ \E o \in pauser[p].todo :
       /\ hasher' = [hasher EXCEPT ![o].paused = TRUE]
       /\ pauser' = [pauser EXCEPT ![p] =
            IF pauser[p].todo = {o}
            THEN [NoPause EXCEPT !.pc = "held"]
            ELSE [pauser[p] EXCEPT !.todo = pauser[p].todo \ {o}]]
  /\ UNCHANGED <<hashers, pausers, isShutdown, caller, closing, stops>>

loadResume(p) ==
  /\ pauser[p].pc = "held"
  /\ pauser' = [pauser EXCEPT ![p] = [NoPause EXCEPT !.pc = "sub", !.value = pausers]]
  /\ UNCHANGED <<hashers, hasher, pausers, isShutdown, caller, closing, stops>>

storeResume(p) ==
  /\ pauser[p].pc = "sub"
  /\ pausers' = IF pauser[p].value > 0 THEN pauser[p].value - 1 ELSE pausers
  /\ pauser' = [pauser EXCEPT ![p].pc = "subtracted",
                              ![p].value = IF @ > 0 THEN @ - 1 ELSE 0]
  /\ UNCHANGED <<hashers, hasher, isShutdown, caller, closing, stops>>

\* resumeHashing(true): the user resumes hashing whoever has paused it.
forceResume(p) ==
  /\ pauser[p].pc = "idle"
  /\ pausers' = 0
  /\ pauser' = [pauser EXCEPT ![p] = [NoPause EXCEPT !.pc = "subtracted"]]
  /\ UNCHANGED <<hashers, hasher, isShutdown, caller, closing, stops>>

testResume(p) ==
  /\ pauser[p].pc = "subtracted"
  /\ \E value \in {pauser[p].value, pausers} :
       pauser' = [pauser EXCEPT ![p] =
         IF value = 0 /\ Listed # {}
         THEN [NoPause EXCEPT !.pc = "resuming", !.todo = Listed]
         ELSE NoPause]
  /\ UNCHANGED <<hashers, hasher, pausers, isShutdown, caller, closing, stops>>

\* Hasher::resume: the flag, then t_resume.
resume(p) ==
  /\ pauser[p].pc = "resuming"
  /\ \E o \in pauser[p].todo :
       /\ hasher' = [hasher EXCEPT ![o].paused = FALSE, ![o].suspended = FALSE]
       /\ pauser' = [pauser EXCEPT ![p] =
            IF pauser[p].todo = {o}
            THEN NoPause
            ELSE [pauser[p] EXCEPT !.todo = pauser[p].todo \ {o}]]
  /\ UNCHANGED <<hashers, pausers, isShutdown, caller, closing, stops>>

\* What a HashPauser that exists still does; every one is destroyed.
HashPauser(p) ==
  storePause(p) \/ testPause(p) \/ pause(p)
    \/ loadResume(p) \/ storeResume(p) \/ testResume(p) \/ resume(p)

-----------------------------------------------------------------------------
CallerStep(c) == AlreadyQueued(c) \/ QueueFile(c) \/ createHasher(c)

Next ==
  \/ \E c \in Callers : CallerStep(c) \/ \E f \in Files : hashFile(c, f)
  \/ \E o \in Objects : run(o)
  \/ \E dir \in BaseDirs : stopHashing(dir)
  \/ stop
  \/ shutdown
  \/ \E p \in Pausers : loadPause(p) \/ forceResume(p) \/ HashPauser(p)

Spec == Init /\ [][Next]_vars

\* Threads run; a call that has begun returns and a HashPauser is destroyed.
LiveSpec ==
  /\ Spec
  /\ \A o \in Objects : WF_vars(run(o))
  /\ \A c \in Callers : WF_vars(CallerStep(c))
  /\ \A p \in Pausers : WF_vars(HashPauser(p))
  /\ WF_vars(tellHashers \/ hashersEmpty)

-----------------------------------------------------------------------------
(* Type correctness *)

HasherType ==
  [pc : {"free", "wait", "pause", "suspend", "suspended", "check", "next", "hash",
         "end", "reset", "delete"},
   id : Nat, w : SUBSET Files, devices : [Devices -> Nat], s : 0..MaxSignals + 1,
   stopping : BOOLEAN, isShutdown : BOOLEAN, paused : BOOLEAN,
   suspended : BOOLEAN, cur : Files \cup {NoFile}]

PauserType ==
  [pc : {"idle", "add", "added", "pausing", "held", "sub", "subtracted", "resuming"},
   value : Nat, todo : SUBSET Objects]

TypeOK ==
  /\ hashers \in Seq(Objects)
  /\ hasher \in [Objects -> HasherType]
  /\ pausers \in Nat
  /\ isShutdown \in BOOLEAN
  /\ caller \in [Callers -> Files \cup {NoFile}]
  /\ pauser \in [Pausers -> PauserType]
  /\ closing \in {"no", "tell", "wait", "done"}
  /\ stops \in 0..MaxStops

-----------------------------------------------------------------------------
(* The list, the queues and the volumes *)

\* Until shutdown takes the lock the list holds exactly the hashers that have
\* not ended, hasher 0 first, and no two with one number: removeHasher then
\* erases the one that calls it and nothing else.  So it is with up to three
\* threads; with four the search for a free number can give one twice.
ListedRun ==
  closing \in {"no", "tell"} =>
    /\ Listed = {o \in Alive : hasher[o].pc # "delete"}
    /\ hashers # <<>> /\ hasher[hashers[1]].id = 0
    /\ \A i, j \in DOMAIN hashers :
         hasher[hashers[i]].id = hasher[hashers[j]].id => i = j

\* A path waits in one queue at most.
QueuedOnce ==
  \A o, p \in Listed : o # p => hasher[o].w \cap hasher[p].w = {}

\* The files of a volume that a hasher has queued or is hashing.
FilesOn(o, d) ==
  Cardinality({f \in hasher[o].w \cup {hasher[o].cur} : f # NoFile /\ DeviceOf[f] = d})

\* The counts that choose a hasher are those of its files.  A stop forgets the
\* file that is being hashed, after which they may be too low, never too high.
DevicesCounted ==
  \A o \in Objects, d \in Devices :
    /\ hasher[o].devices[d] <= FilesOn(o, d) + IF hasher[o].cur \in hasher[o].w THEN 1 ELSE 0
    /\ stops = 0 /\ ~hasher[o].isShutdown =>
         hasher[o].devices[d] >= FilesOn(o, d)

\* A hasher never sleeps on a queue that is not empty, unless it was stopped
\* before: the signal of the next file then only ends the stopping.
SignalLeft ==
  stops = 0 => \A o \in Alive : hasher[o].pc = "wait" /\ hasher[o].w # {} => hasher[o].s > 0

HashInvariant ==
  /\ ListedRun
  /\ QueuedOnce
  /\ DevicesCounted
  /\ SignalLeft

\* With one thread that pauses, every hasher agrees with the counter whenever
\* no call is under way, those created while it was paused included.
PausedAgree ==
  (\A p \in Pausers : pauser[p].pc \in {"idle", "held"}) =>
    \A o \in Listed : ~hasher[o].isShutdown => (hasher[o].paused <=> pausers > 0)

-----------------------------------------------------------------------------
(* Progress *)

\* While nobody calls stop, a hasher with files in its queue takes one, unless
\* it is suspended.
QueueMoves ==
  \/ <>(stops > 0)
  \/ \A o \in Objects :
       (hasher[o].w # {})
         ~> (hasher[o].w = {} \/ hasher[o].pc = "hash" \/ hasher[o].suspended)

\* shutdown ends once every hasher has been told or ends by itself, and no
\* caller that looked at isShutdown before is still to come, unless a hasher
\* is suspended.
ShutdownEnds ==
  (/\ closing = "wait"
   /\ \A c \in Callers : caller[c] = NoFile
   /\ \A o \in Listed : hasher[o].isShutdown \/ hasher[o].id # 0)
    ~> (closing = "done" \/ \E o \in Listed : hasher[o].suspended)

-----------------------------------------------------------------------------
(* What the comments promise and the code does not keep *)

\* "we cant allow adding more hashers if we are shutting down, it will result
\* in infinite loop", "Wait for the hashers to shut down": shutdown returns.
ShutdownReturns == (closing = "wait") ~> (closing = "done")
=============================================================================
