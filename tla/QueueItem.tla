----------------------------- MODULE QueueItem ------------------------------
(***************************************************************************)
(* The download of one queued file in segments, from several sources at    *)
(* once.  A connection that has nothing to do asks the queue for a         *)
(* segment, requests it from its source, writes what it receives into the  *)
(* temporary file and hands the download back, finished or failed.  The    *)
(* file is one of a directory bundle, of which the model keeps the part of *)
(* finishedSegments that the file has contributed.                         *)
(*                                                                         *)
(* The choice of a file (startDownload) and the choice of its segment      *)
(* (getDownload) are separate critical sections, and so are putDownload's  *)
(* look at the file and its update.  A recheck of the file reads the disk  *)
(* outside of any lock, after it has dropped the finished segments.        *)
(***************************************************************************)
EXTENDS Segments, Lists, SequencesExt

CONSTANTS
  Users,             \* sources, each with one download connection
  FullUsers,         \* those that share the file from the start
  BadUsers,          \* those that send something else than the file
  TreelessUsers,     \* those that cannot send the hash tree
  MultiChunk,        \* SETTING(MULTI_CHUNK)
  OverlapSlow,       \* SETTING(OVERLAP_SLOW_SOURCES)
  MaxSegments,       \* QueueItem::maxSegments
  WantedSizes,       \* UserConnection::chunkSize
  PartsInfos,        \* what a partial source may announce
  MaxFails,          \* connections that break by themselves
  Events,            \* what the user and other programs do in this instance
  MaxEvents,         \* how many times
  Damaged,           \* leaves that the disk may damage
  RecheckUnfinished  \* may the user recheck a file that is not finished?

ASSUME QueueItemAssumption ==
  /\ FullUsers \subseteq Users /\ BadUsers \subseteq Users /\ TreelessUsers \subseteq Users
  /\ MultiChunk \in BOOLEAN /\ OverlapSlow \in BOOLEAN
  /\ MaxSegments \in Nat \ {0} /\ WantedSizes \subseteq Nat
  /\ MaxFails \in Nat /\ MaxEvents \in Nat /\ RecheckUnfinished \in BOOLEAN
  /\ Damaged \subseteq Nat
  /\ \A info \in PartsInfos : \A p \in info : p \in Nat \X Nat /\ p[1] < p[2]

VARIABLES
  large,       \* MAX_SIZE_WO_TREE and PARTIAL_SHARE_MIN_SIZE: is the file 20 MB or more?
  done,        \* QueueItem::done
  finished,    \* the file's share of Bundle::finishedSegments
  status,      \* QueueItem::status, or that the item was removed
  paused,      \* which of bundle and file have a paused priority
  pausing,     \* onDownloadError's task to pause the bundle is queued
  blockSize,   \* QueueItem::blockSize, -1 when not asked for yet
  tree,        \* does the hash database have the file's tree?
  sources,     \* QueueItem::sources
  bad,         \* why users are in QueueItem::badSources
  noTree,      \* sources with FLAG_NO_TREE
  partial,     \* sources with FLAG_PARTIAL
  parts,       \* Source::partsInfo
  downloads,   \* QueueItem::downloads, by user
  running,     \* Bundle::downloads, by user
  conn,        \* what the connection to the user is doing
  dl,          \* its Download
  disc,        \* connections told to disconnect
  temp,        \* does the temporary file exist?
  disk,        \* leaves that are right in the file
  check,       \* the recheck task
  fails, events,
  unlinked     \* has the file been deleted under a running download?

queue == <<done, finished, status, paused, pausing, blockSize>>
srcs == <<sources, bad, noTree, partial, parts>>
transfers == <<downloads, running, conn, dl, disc>>
files == <<temp, disk, unlinked>>
vars == <<large, queue, tree, srcs, transfers, files, check, fails, events>>

NoParts == {<<0, 0>>}
NoDownload == [type |-> "none", seg |-> NoSegment, over |-> FALSE, pos |-> 0,
               blk |-> BlockSize, open |-> FALSE, live |-> FALSE, result |-> "none"]
NoCheck == [phase |-> "none", done |-> {}, leaves |-> {}, prio |-> FALSE]

Init ==
  /\ large \in BOOLEAN
  /\ done = {} /\ finished = 0 /\ status = "QUEUED" /\ paused = {} /\ pausing = FALSE
  /\ blockSize = -1
  /\ tree = FALSE
  /\ sources = FullUsers /\ bad = [u \in Users |-> "none"] /\ noTree = {}
  /\ partial = {} /\ parts = [u \in Users |-> NoParts]
  /\ downloads = << >> /\ running = << >>
  /\ conn = [u \in Users |-> "idle"]
  /\ dl = [u \in Users |-> NoDownload]
  /\ disc = {}
  /\ temp = FALSE /\ disk = {} /\ unlinked = FALSE
  /\ check = NoCheck
  /\ fails = 0 /\ events = 0

-----------------------------------------------------------------------------
Segs == {dl[u].seg : u \in ToSet(downloads)}
isRunning == downloads # << >>
isPausedPrio == paused # {}
getDownloadedBytes(S) ==
  getDownloadedSegments(S) +
    Cardinality(UNION {{u} \X (1..dl[u].pos) : u \in ToSet(downloads)})

getBlockSize == IF blockSize = -1 THEN (IF tree THEN BlockSize ELSE Size) ELSE blockSize

Plain(seg) == [seg |-> seg, over |-> FALSE]

\* A running download that is slow enough may be overlapped from its last
\* block boundary by a faster source; who is slow is not modelled.
checkOverlaps(blk, allow) ==
  LET From(u) == roundDown(dl[u].pos, blk)
      Slow == {u \in ToSet(downloads) : dl[u].open /\ ~dl[u].over}
  IN {Plain(NoSegment)} \cup
     {[seg |-> Segment(dl[u].seg.start + From(u), dl[u].seg.size - From(u)), over |-> TRUE] :
        u \in IF allow /\ OverlapSlow THEN Slow ELSE {}}

\* What getNextSegment may return for the source.
getNextSegment(u, S, blk, wanted, allow) ==
  LET target == targetSize(wanted, getDownloadedBytes(S), blk)
      free == FreeSegments(target, blk, S, Segs)
      full == parts[u] = NoParts
      needed == NeededParts(free, parts[u], blk, target)
  IN CASE ~MultiChunk \/ blk >= Size ->
            IF isRunning THEN checkOverlaps(blk, allow /\ full)
            ELSE {Plain(Unchunked(S, blk))}
       [] OTHER ->
            IF isPausedPrio \/ Len(downloads) >= MaxSegments THEN {Plain(NotNow)}
            ELSE IF full /\ free # {} THEN {Plain(First(free))}
            ELSE IF ~full /\ needed # {} THEN {Plain(s) : s \in needed}
            ELSE checkOverlaps(blk, allow /\ full)

hasSegment(u) ==
  /\ ~isPausedPrio
  /\ ~segmentsDone(done)
  /\ isRunning =>
        /\ dl[Head(downloads)].type # "TREE"
        /\ \E r \in getNextSegment(u, done, getBlockSize, 0, TRUE) : r.seg.size # 0

addFinishedSegment(seg) ==
  LET c == Consolidate(done, seg)
  IN /\ done' = c.done
     /\ finished' = finished + c.bytes

resetDownloaded ==
  /\ finished' = finished - getDownloadedSegments(done)
  /\ done' = {}

Blame(U, why) ==
  /\ sources' = sources \ U
  /\ bad' = [u \in Users |-> IF u \in U \cap sources THEN why ELSE bad[u]]

-----------------------------------------------------------------------------
(* Assigning a segment.  slotAssignCS is held from startDownload to the    *)
(* end of getDownload.                                                     *)

startDownload(u) ==
  /\ conn[u] = "idle" /\ u \in sources /\ status = "QUEUED"
  /\ \A v \in Users : conn[v] # "starting"
  /\ hasSegment(u)
  /\ conn' = [conn EXCEPT ![u] = "starting"]
  /\ blockSize' = IF isRunning THEN getBlockSize ELSE blockSize
  /\ UNCHANGED <<large, done, finished, status, paused, pausing, tree, srcs, downloads,
                 running, dl, disc, files, check, fails, events>>

\* A partial source has nothing that the file needs.
NoNeededPart(u) ==
  /\ conn[u] = "starting" /\ u \in partial
  /\ \E wanted \in WantedSizes :
       \E r \in getNextSegment(u, done, getBlockSize, wanted, FALSE) : r.seg = NoSegment
  /\ Blame({u}, "NO_NEED_PARTS")
  /\ blockSize' = getBlockSize
  /\ conn' = [conn EXCEPT ![u] = "idle"]
  /\ UNCHANGED <<large, done, finished, status, paused, pausing, tree, noTree, partial,
                 parts, downloads, running, dl, disc, files, check, fails, events>>

\* The download that Download::initSegment makes: the tree, a segment of the
\* tree's blocks, or the whole file when no tree can be had.
NewDownloads(u, S, wanted) ==
  LET File(blk, w, allow) ==
        {[NoDownload EXCEPT !.type = "FILE", !.seg = r.seg, !.over = r.over, !.blk = blk] :
           r \in getNextSegment(u, S, blk, w, allow)}
  IN IF tree THEN File(BlockSize, wanted, TRUE)
     ELSE IF u \notin noTree
          THEN {[NoDownload EXCEPT !.type = "TREE", !.seg = Segment(0, -1)]}
          ELSE File(Size, 0, FALSE)

\* The first download of the file whose segment contains the new one is
\* marked as overlapped.
initOverlapped(d) ==
  LET hit == SelectInSeq(downloads, LAMBDA v : contains(dl[v].seg, d.seg))
  IN IF d.over /\ hit # 0 THEN [dl EXCEPT ![downloads[hit]].over = TRUE] ELSE dl

\* (mutant) progress is kept although the file is gone
MutTempGone == FALSE
TempGone == getDownloadedBytes(done) > 0 /\ ~temp

getDownload(u) ==
  LET reset == TempGone IN
  /\ conn[u] = "starting"
  /\ \E wanted \in WantedSizes :
       /\ u \in partial =>
            \E r \in getNextSegment(u, done, getBlockSize, wanted, FALSE) : r.seg # NoSegment
       /\ \E d \in NewDownloads(u, IF reset THEN {} ELSE done, wanted) :
            /\ dl' = [initOverlapped(d) EXCEPT ![u] = d]
            /\ blockSize' = IF tree THEN BlockSize
                            ELSE IF u \in partial THEN getBlockSize ELSE blockSize
  /\ IF reset THEN resetDownloaded ELSE UNCHANGED <<done, finished>>
  /\ downloads' = Append(downloads, u)
  /\ conn' = [conn EXCEPT ![u] = "assigned"]
  /\ UNCHANGED <<large, status, paused, pausing, tree, srcs, running, disc, files, check,
                 fails, events>>

\* The end of checkDownloads: DownloadManager and the bundle learn of the
\* download, the request is sent.
Requesting(u) ==
  /\ conn[u] = "assigned"
  /\ running' = Append(running, u)
  /\ conn' = [conn EXCEPT ![u] = "SND"]
  /\ UNCHANGED <<large, queue, tree, srcs, downloads, dl, disc, files, check, fails,
                 events>>

-----------------------------------------------------------------------------
(* The transfer.  A download leaves DownloadManager when it ends or fails; *)
(* putDownloadHooked then looks the file up and, if it is still wanted,    *)
(* updates it under the lock in a second step.                             *)

Without(seq, U) == Filter(seq, Users \ U)

\* Where the connection is after its download was put back: ready for the
\* next one (as it is, or because a new one is made), or waiting for nothing
\* in STATE_SND.
After(result) == IF result = "unavailable" THEN "silent" ELSE "idle"

\* removeDownload and the first half of putDownloadHooked.
Return(u, d, result) ==
  /\ running' = Without(running, {u})
  /\ IF status = "QUEUED"
     THEN /\ conn' = [conn EXCEPT ![u] = "putting"]
          /\ dl' = [dl EXCEPT ![u] = [d EXCEPT !.result = result]]
     ELSE /\ conn' = [conn EXCEPT ![u] = After(result)]
          /\ dl' = [dl EXCEPT ![u] = NoDownload]
  /\ temp' = (temp /\ ~(status = "REMOVED" /\ d.type = "FILE"))

\* The download that the new one overlaps, if it is still there.
disconnectOverlapped(u) ==
  SelectInSeq(running, LAMBDA v : v # u /\ contains(dl[v].seg, dl[u].seg))

\* SharedFileStream gives out the handle that other downloads of the file have
\* open, although the file may have been deleted.
SharedHandleGone == \E v \in Users : dl[v].open /\ ~dl[v].live

\* Download::open of a file's segment; a download that is to overlap another
\* one disconnects it, unless it is about to end or gone.
open(u) ==
  LET slow == disconnectOverlapped(u) IN
  /\ status # "REMOVED"
  /\ getDownloadedBytes(done) > 0 => temp
  /\ IF dl[u].over THEN slow # 0 /\ disc' = disc \cup {running[slow]} ELSE UNCHANGED disc
  /\ dl' = [dl EXCEPT ![u] = [@ EXCEPT !.over = FALSE, !.open = TRUE,
                                       !.live = ~SharedHandleGone]]
  /\ temp' = (temp \/ ~SharedHandleGone)

\* The source starts to send: startData.
SND(u) ==
  LET d == dl[u]
      missing == getDownloadedBytes(done) > 0 /\ ~temp
  IN
  /\ conn[u] = "SND"
  /\ d.type = "TREE" => u \notin TreelessUsers
  /\ d.type = "FILE" => d.seg.start >= 0 /\ d.seg.size > 0
  /\ \/ /\ d.type = "TREE" /\ status # "REMOVED"
        /\ conn' = [conn EXCEPT ![u] = "RUNNING"]
        /\ UNCHANGED <<running, dl, disc, temp>>
     \/ /\ d.type = "FILE" /\ open(u)
        /\ conn' = [conn EXCEPT ![u] = "RUNNING"]
        /\ UNCHANGED running
     \/ \* the target is gone, or the overlapped download is about to end
        /\ status = "REMOVED" \/ (d.type = "FILE" /\ (missing \/ d.over))
        /\ Return(u, [d EXCEPT !.over = FALSE], "failed")
        /\ UNCHANGED disc
  /\ UNCHANGED <<large, queue, tree, srcs, downloads, disk, unlinked, check, fails, events>>

\* The source has no tree, or the request is empty: fileNotAvailable.
FileNotAvailable(u) ==
  LET d == dl[u] IN
  /\ conn[u] = "SND"
  /\ IF d.type = "TREE"
     THEN /\ u \in TreelessUsers
          /\ noTree' = IF status = "QUEUED" THEN noTree \cup ({u} \cap sources) ELSE noTree
          /\ IF status = "QUEUED" /\ large THEN Blame({u}, "NO_TREE")
                                          ELSE UNCHANGED <<sources, bad>>
     ELSE /\ d.seg.start < 0 \/ d.seg.size = 0
          /\ IF status = "QUEUED" THEN Blame({u}, "FILE_NOT_AVAILABLE")
                                  ELSE UNCHANGED <<sources, bad>>
          /\ UNCHANGED noTree
  /\ Return(u, d, "unavailable")
  /\ UNCHANGED <<large, queue, tree, partial, parts, downloads, disc, disk, unlinked, check,
                 fails, events>>

\* One more unit of the segment, or the tree, has arrived.
Data(u) ==
  LET d == dl[u]
      at == d.seg.start + d.pos
      leaf == at \div BlockSize
      leafEnd == (at + 1) % BlockSize = 0 \/ at + 1 = Size
      received == [d EXCEPT !.pos = @ + 1]
  IN
  /\ conn[u] = "RUNNING" /\ d.type = "FILE"
  /\ disk' = CASE ~d.live -> disk
               [] d.live /\ u \in BadUsers -> disk \ {leaf}
               [] d.live /\ u \notin BadUsers /\ leafEnd -> disk \cup {leaf}
               [] OTHER -> disk
  /\ IF u \in BadUsers /\ ((at + 1) % d.blk = 0 \/ at + 1 = Size)
     THEN \* TTH_INCONSISTENCY
          /\ IF status = "QUEUED" THEN Blame({u}, "TTH_INCONSISTENCY")
                                  ELSE UNCHANGED <<sources, bad>>
          /\ pausing' = TRUE
          /\ Return(u, d, "failed")
     ELSE /\ IF received.pos = d.seg.size
             THEN Return(u, received, "finished")
             ELSE dl' = [dl EXCEPT ![u] = received] /\ UNCHANGED <<running, conn, temp>>
          /\ UNCHANGED <<sources, bad, pausing>>
  /\ UNCHANGED <<large, done, finished, status, paused, blockSize, tree, noTree, partial,
                 parts, downloads, disc, unlinked, check, fails, events>>

\* The tree has arrived; it is a tree of this file, or of another one.
TreeData(u) ==
  /\ conn[u] = "RUNNING" /\ dl[u].type = "TREE"
  /\ \/ Return(u, dl[u], "finished") /\ UNCHANGED <<sources, bad>>
     \/ /\ u \in BadUsers
        /\ IF status = "QUEUED" THEN Blame({u}, "BAD_TREE") ELSE UNCHANGED <<sources, bad>>
        /\ Return(u, dl[u], "failed")
  /\ UNCHANGED <<large, queue, tree, noTree, partial, parts, downloads, disc, disk,
                 unlinked, check, fails, events>>

\* The connection ends, by itself or because it was told to: onFailed.
Failed(u) ==
  /\ conn[u] \in {"SND", "RUNNING"}
  /\ \/ u \in disc /\ fails' = fails
     \/ u \notin disc /\ fails < MaxFails /\ fails' = fails + 1
  /\ Return(u, dl[u], "failed")
  /\ UNCHANGED <<large, queue, tree, srcs, downloads, disc, disk, unlinked, check, events>>

\* The same without a download: the connection was told to end, or the timer
\* of ConnectionManager ended it after MAX_UC_INACTIVITY_SECONDS.
FailedIdle(u) ==
  /\ (conn[u] = "idle" /\ u \in disc) \/ conn[u] = "silent"
  /\ conn' = [conn EXCEPT ![u] = "idle"]
  /\ disc' = disc \ {u}
  /\ UNCHANGED <<large, queue, tree, srcs, downloads, running, dl, files, check, fails,
                 events>>

\* The unlocked part of onDownloadFailed deletes a file that has no data.
DeletesTemp(u) ==
  dl[u].type = "FILE" /\ temp /\ getDownloadedBytes(done) = 0

\* (mutant) an incomplete block is kept as a whole
MutKept(d) == Min({roundUp(d.pos, d.blk), d.seg.size})
\* What is kept of an interrupted segment: whole blocks.
Kept(d) == roundDown(d.pos, d.blk)

onDownloadFailed(u) ==
  LET d == dl[u] IN
  /\ conn[u] = "putting" /\ d.result # "finished"
  /\ IF d.type = "FILE" /\ Kept(d) > 0
     THEN addFinishedSegment(Segment(d.seg.start, Kept(d)))
     ELSE UNCHANGED <<done, finished>>
  /\ temp' = (temp /\ ~DeletesTemp(u))
  /\ LET lost == {v \in Users : v # u /\ dl[v].live}
     IN /\ dl' = [v \in Users |-> IF v = u THEN NoDownload
                                  ELSE [dl[v] EXCEPT !.live = @ /\ ~DeletesTemp(u)]]
        /\ unlinked' = (unlinked \/ (DeletesTemp(u) /\ lost # {}))
  /\ disk' = IF DeletesTemp(u) THEN {} ELSE disk
  /\ downloads' = Without(downloads, {u})
  /\ conn' = [conn EXCEPT ![u] = After(d.result)]
  /\ disc' = IF d.result = "failed" THEN disc \ {u} ELSE disc
  /\ UNCHANGED <<large, status, paused, pausing, blockSize, tree, srcs, running, check,
                 fails, events>>

onTreeDownloadCompleted(u) ==
  /\ conn[u] = "putting" /\ dl[u].result = "finished" /\ dl[u].type = "TREE"
  /\ tree' = TRUE
  /\ downloads' = Without(downloads, {u})
  /\ dl' = [dl EXCEPT ![u] = NoDownload]
  /\ conn' = [conn EXCEPT ![u] = "idle"]
  /\ UNCHANGED <<large, queue, srcs, running, disc, files, check, fails, events>>

\* (mutant) the download is only removed with the last segment
MutReleased(u, whole) == IF whole THEN sources ELSE {}
\* Whose downloads leave QueueItem::downloads.
Released(u, whole) == IF whole THEN sources ELSE {u}

onFileDownloadCompleted(u) ==
  LET whole == segmentsDone(Consolidate(done, dl[u].seg).done) IN
  /\ conn[u] = "putting" /\ dl[u].result = "finished" /\ dl[u].type = "FILE"
  /\ addFinishedSegment(dl[u].seg)
  /\ status' = IF whole /\ status = "QUEUED" THEN "DOWNLOADED" ELSE status
  /\ downloads' = Without(downloads, Released(u, whole))
  /\ disc' = IF whole THEN disc \cup (ToSet(downloads) \ {u}) ELSE disc
  /\ temp' = (temp /\ ~whole)
  /\ dl' = [dl EXCEPT ![u] = NoDownload]
  /\ conn' = [conn EXCEPT ![u] = "idle"]
  /\ UNCHANGED <<large, paused, pausing, blockSize, tree, srcs, running, disk, unlinked,
                 check, fails, events>>

-----------------------------------------------------------------------------
(* Other threads: the user, other clients and other programs.              *)

Event(e) == e \in Events /\ events < MaxEvents /\ events' = events + 1

\* A client announces which parts of the file it has: addPartialSourceHooked.
addPartialSource(u, info) ==
  LET needed == isNeededPart(info, done, getBlockSize) IN
  /\ status = "QUEUED" /\ large
  /\ \/ /\ u \in sources
        /\ UNCHANGED <<sources, bad, partial>>
     \/ /\ u \notin sources /\ needed /\ bad[u] # "TTH_INCONSISTENCY"
        /\ sources' = sources \cup {u}
        /\ bad' = [bad EXCEPT ![u] = "none"]
        /\ partial' = partial \cup {u}
     \/ /\ u \notin sources /\ ~needed /\ bad[u] \notin {"none", "TTH_INCONSISTENCY"}
        /\ UNCHANGED <<sources, bad, partial>>
  /\ parts' = [parts EXCEPT ![u] = info]
  /\ blockSize' = getBlockSize
  /\ Event("parts")
  /\ UNCHANGED <<large, done, finished, status, paused, pausing, tree, noTree, transfers,
                 files, check, fails>>

\* The user removes a source: removeFileSource.
removeFileSource(u) ==
  /\ u \in sources /\ status = "QUEUED"
  /\ Blame({u}, "REMOVED")
  /\ disc' = IF isRunning THEN disc \cup ({u} \cap ToSet(running)) ELSE disc
  /\ Event("source")
  /\ UNCHANGED <<large, queue, tree, noTree, partial, parts, downloads, running, conn, dl,
                 files, check, fails>>

\* The user removes the file: removeQI.
removeQI ==
  /\ status # "REMOVED"
  /\ status' = "REMOVED"
  /\ finished' = finished - getDownloadedSegments(done)
  /\ downloads' = IF status = "QUEUED" THEN Without(downloads, sources) ELSE downloads
  /\ disc' = disc \cup ToSet(downloads)
  /\ temp' = (temp /\ isRunning)
  /\ Event("remove")
  /\ UNCHANGED <<large, done, paused, pausing, blockSize, tree, srcs, running, conn, dl,
                 disk, unlinked, check, fails>>

\* The user, or the task of onDownloadError, pauses the bundle.
setBundlePriority ==
  /\ status = "QUEUED"
  /\ \/ pausing /\ pausing' = FALSE /\ UNCHANGED events
     \/ "bundle" \notin paused /\ Event("pause") /\ UNCHANGED pausing
  /\ paused' = paused \cup {"bundle"}
  /\ disc' = IF "bundle" \in paused THEN disc ELSE disc \cup ToSet(running)
  /\ UNCHANGED <<large, done, finished, status, blockSize, tree, srcs, downloads, running,
                 conn, dl, files, check, fails>>

\* The user resumes the bundle or the file.
Resume(what) ==
  /\ what \in paused /\ status = "QUEUED"
  /\ paused' = paused \ {what}
  /\ Event("resume")
  /\ UNCHANGED <<large, done, finished, status, pausing, blockSize, tree, srcs, transfers,
                 files, check, fails>>

\* The disk or another program damages a leaf of the file.
Damage(b) ==
  /\ b \in disk \cap Damaged
  /\ disk' = disk \ {b}
  /\ Event("damage")
  /\ UNCHANGED <<large, queue, tree, srcs, transfers, temp, unlinked, check, fails>>

\* Somebody deletes the temporary file.
DeleteTemp ==
  /\ temp
  /\ temp' = FALSE /\ disk' = {}
  /\ dl' = [u \in Users |-> [dl[u] EXCEPT !.live = FALSE]]
  /\ unlinked' = (unlinked \/ \E u \in Users : dl[u].live)
  /\ Event("delete")
  /\ UNCHANGED <<large, queue, tree, srcs, downloads, running, conn, disc, check, fails>>

-----------------------------------------------------------------------------
(* recheckFiles for this file: pause it, look at it, drop the finished     *)
(* segments, read the file, add the segments that are right, resume.       *)

RecheckDone(c) == [NoCheck EXCEPT !.phase = "end", !.prio = c.prio]

recheckFiles ==
  /\ check.phase = "none" /\ status # "REMOVED"
  /\ status = "QUEUED" => RecheckUnfinished
  /\ check' = [NoCheck EXCEPT !.phase = "paused", !.prio = "file" \in paused]
  /\ paused' = IF status = "QUEUED" THEN paused \cup {"file"} ELSE paused
  /\ disc' = IF "file" \notin paused /\ isRunning THEN disc \cup ToSet(running) ELSE disc
  /\ Event("recheck")
  /\ UNCHANGED <<large, done, finished, status, pausing, blockSize, tree, srcs, downloads,
                 running, conn, dl, files, fails>>

FileExists == temp \/ status = "DOWNLOADED"

\* Is there a file to check, and nobody who writes to it?
RecheckValidate ==
  /\ check.phase = "paused"
  /\ check' = IF status # "REMOVED" /\ FileExists /\ ~isRunning
              THEN [check EXCEPT !.phase = "validated"] ELSE RecheckDone(check)
  /\ UNCHANGED <<large, queue, tree, srcs, transfers, files, fails, events>>

RecheckReset ==
  /\ check.phase = "validated"
  /\ IF status # "REMOVED" /\ tree
     THEN /\ check' = [check EXCEPT !.phase = "reset", !.done = done]
          /\ resetDownloaded
     ELSE check' = RecheckDone(check) /\ UNCHANGED <<done, finished>>
  /\ UNCHANGED <<large, status, paused, pausing, blockSize, tree, srcs, transfers, files,
                 fails, events>>

\* The file is read without a lock; it may be gone, or reading may fail.
RecheckRead ==
  /\ check.phase = "reset"
  /\ \/ /\ FileExists
        /\ check' = [check EXCEPT !.phase = "read", !.leaves = disk]
        /\ UNCHANGED events
     \/ /\ check' = RecheckDone(check)
        /\ IF FileExists THEN Event("readerror") ELSE UNCHANGED events
  /\ UNCHANGED <<large, queue, tree, srcs, transfers, files, fails>>

\* The comparison of one leaf with the tree.  The position does not advance
\* over a leaf that is wrong and was not downloaded.
CompareLeaf(acc, b) ==
  LET seg == blockSegment(acc.pos)
      c == Consolidate(acc.done, seg)
  IN IF b \in check.leaves
     THEN [acc EXCEPT !.done = c.done, !.bytes = @ + c.bytes, !.pos = @ + BlockSize]
     ELSE IF inSet(seg, check.done) THEN [acc EXCEPT !.pos = @ + BlockSize] ELSE acc

Compared ==
  LET last == (Size - 1) \div BlockSize + 1
      leaves[n \in 0..last] == IF n = 0 THEN [done |-> done, bytes |-> 0, pos |-> 0]
                               ELSE CompareLeaf(leaves[n - 1], n - 1)
  IN leaves[last]

RecheckApply ==
  /\ check.phase = "read"
  /\ \/ /\ status = "REMOVED"
        /\ UNCHANGED <<done, finished, status, downloads, temp>>
     \/ /\ status # "REMOVED"
        /\ \E r \in {Compared} :
             LET right == check.leaves = Leaves
                 failed == status = "DOWNLOADED" /\ ~segmentsDone(r.done)
             IN
             /\ done' = r.done
             /\ finished' = finished + r.bytes
             /\ status' = IF right THEN "DOWNLOADED" ELSE IF failed THEN "QUEUED" ELSE status
             /\ downloads' = IF right /\ status = "QUEUED" THEN Without(downloads, sources)
                                                           ELSE downloads
             /\ temp' = ((temp /\ ~right) \/ failed)
  /\ check' = RecheckDone(check)
  /\ UNCHANGED <<large, paused, pausing, blockSize, tree, srcs, running, conn, dl, disc,
                 disk, unlinked, fails, events>>

\* The priority that the file had before the check is set again.
RecheckEnd ==
  /\ check.phase = "end"
  /\ paused' = IF check.prio THEN paused \cup {"file"} ELSE paused \ {"file"}
  /\ check' = NoCheck
  /\ UNCHANGED <<large, done, finished, status, pausing, blockSize, tree, srcs, transfers,
                 files, fails, events>>

Connection(u) ==
  \/ Requesting(u) \/ SND(u) \/ FileNotAvailable(u) \/ Data(u) \/ TreeData(u)
  \/ Failed(u) \/ FailedIdle(u)
  \/ onDownloadFailed(u) \/ onTreeDownloadCompleted(u) \/ onFileDownloadCompleted(u)
  \/ getDownload(u) \/ NoNeededPart(u) \/ startDownload(u)

Recheck == RecheckValidate \/ RecheckReset \/ RecheckRead \/ RecheckApply \/ RecheckEnd

Next ==
  \/ \E u \in Users : Connection(u) \/ removeFileSource(u)
  \/ \E u \in Users, info \in PartsInfos : addPartialSource(u, info)
  \/ removeQI \/ setBundlePriority \/ DeleteTemp
  \/ \E what \in {"bundle", "file"} : Resume(what)
  \/ \E b \in Damaged : Damage(b)
  \/ recheckFiles \/ Recheck

Spec == Init /\ [][Next]_vars

(* A connection's thread goes on, a peer answers or the connection ends (at *)
(* the latest when ConnectionManager's timer finds it inactive), and a      *)
(* source that has something is connected to again.                         *)
LiveSpec == Spec /\ \A u \in Users : WF_vars(Connection(u))

-----------------------------------------------------------------------------
(* Properties                                                              *)

\* Segments stay inside the file whatever getNextSegment rounds and cuts, and
\* the other variables have their types.
TypeOK ==
  /\ \A s \in done : s.start \in 0..Size /\ s.size \in 1..(Size - s.start)
  /\ finished \in Int
  /\ status \in {"QUEUED", "DOWNLOADED", "REMOVED"}
  /\ paused \subseteq {"bundle", "file"} /\ pausing \in BOOLEAN
  /\ blockSize \in {-1, BlockSize, Size} /\ tree \in BOOLEAN
  /\ sources \subseteq Users /\ noTree \subseteq Users /\ partial \subseteq Users
  /\ ToSet(downloads) \subseteq Users /\ ToSet(running) \subseteq Users
  /\ \A u \in Users : conn[u] \in {"idle", "starting", "assigned", "SND", "RUNNING",
                                   "putting", "silent"}
  /\ disc \subseteq Users /\ temp \in BOOLEAN /\ disk \subseteq Leaves
  /\ fails \in 0..MaxFails /\ events \in 0..MaxEvents

\* The bundle's finishedSegments counts for the file exactly what the file's
\* done segments cover: addFinishedSegment reports the growth of the first
\* pair it joins, resetDownloaded takes off the sum, and the two meet when a
\* segment fills a gap, when an interrupted one is cut to whole blocks, when
\* the temporary file is gone and when a recheck finds less than there was.
Accounted ==
  status # "REMOVED" => finished = getDownloadedSegments(done)

\* addFinishedSegment leaves no two done segments that touch, so that a file
\* with all its data is the one segment that segmentsDone looks for.
Consolidated ==
  \A s, t \in done : s # t => getEnd(s) < t.start \/ getEnd(t) < s.start

\* Whatever counts as done is right in the file: an interrupted segment is
\* kept up to the last block whose hash was checked, a bad source's block is
\* never kept, and a recheck keeps the leaves that it read and no other.
\* Damage after the fact, and a file deleted under a running download, are
\* excepted.
DoneIsRight ==
  FileExists /\ ~unlinked => LeavesIn(done) \ Damaged \subseteq disk

\* QueueItem::downloads holds raw pointers: while the file is queued, and the
\* pointers are read, each is a download that a connection still owns, whoever
\* ended, removed or completed what in between.
NoDangling ==
  status = "QUEUED" =>
    \A u \in ToSet(downloads) : conn[u] \in {"assigned", "SND", "RUNNING", "putting"}

\* A source that announced parts is asked for a segment inside one of them:
\* getNextSegment cuts the free segments to the parts, although the parts may
\* be replaced and the blocks rounded in between.
AskedOfParts ==
  [][\A u \in Users :
       /\ conn[u] = "starting" /\ conn'[u] = "assigned"
       /\ parts[u] # NoParts /\ tree /\ dl'[u].seg.size > 0
       => \E p \in parts[u] :
            contains(Segment(p[1] * BlockSize, (p[2] - p[1]) * BlockSize), dl'[u].seg)]_vars

\* A file that stays unpaused and keeps a source that shares all of it is
\* downloaded in the end: whatever connections break, trees are refused, bad
\* blocks arrive or files disappear, the next connection finds work to do.
FileCompletes ==
  <>[](\/ status # "QUEUED" \/ isPausedPrio \/ unlinked
       \/ {u \in sources \ BadUsers : parts[u] = NoParts} = {})

Given == [u \in Users |-> IF status # "REMOVED" /\ u \in ToSet(downloads)
                           THEN Units({dl[u].seg}) ELSE {}]

Abstract == INSTANCE SegmentedDownload WITH
  Positions <- 0..(Size - 1), have <- IF status = "REMOVED" THEN {} ELSE Units(done),
  given <- Given, state <- status

\* The queue's file is a segmented download: getNextSegment never gives one
\* source what another is downloading or what is done already, a returned
\* segment adds no more than what was given, and DOWNLOADED is set once, with
\* the last unit, although the choice, the transfer and the return of a
\* segment are critical sections of their own and a recheck runs beside them.
Refines == Abstract!Spec
=============================================================================
