------------------------------ MODULE Uploads ------------------------------
(***************************************************************************)
(* Uploads on links: the requests that create, feed and finish them, the   *)
(* storage they write to, and everything that removes what they wrote:     *)
(* link revocation, deletion in the panel, and the cleanup.                *)
(*                                                                         *)
(* The database is node:sqlite, which is synchronous: what the code does   *)
(* between two awaits is one step.  Every await on storage ends a step, so *)
(* the handlers of different requests and the cleanup interleave there.    *)
(* Storage is the local backend, with the FileStore of the tus library     *)
(* modelled from how tus.ts and cleanup.ts use it.                         *)
(***************************************************************************)
EXTENDS Naturals, FiniteSets, Bytes

CONSTANTS
    DirectFiles,        \* file ids of direct uploads, and
    TusFiles,           \*   of resumable ones: newId never makes one twice
    Links,              \* upload links, with their immutable limits:
    MaxFileBytes,       \*   cfg.maxFileBytes
    LinkMaxFileBytes,   \*   links.max_file_bytes, or NoLimit
    LinkMaxFiles,       \*   links.max_files, or NoLimit
    LinkMaxTotalBytes,  \*   links.max_total_bytes, or NoLimit
    Server,             \* the cleanup pass of the server's own timer
    Operators,          \* cleanup passes run by the CLI, in other processes
    Lossy,              \* files whose object storage may lose and find again
    NoLimit, NoLink, Unknown, Gone

Files == DirectFiles \cup TusFiles

ASSUME UploadsConstants ==
    /\ IsFiniteSet(Files)
    /\ DirectFiles \cap TusFiles = {}
    /\ MaxFileBytes \in Nat
    /\ LinkMaxFileBytes  \in [Links -> Nat \cup {NoLimit}]
    /\ LinkMaxFiles      \in [Links -> Nat \cup {NoLimit}]
    /\ LinkMaxTotalBytes \in [Links -> Nat \cup {NoLimit}]
    /\ {NoLimit, Unknown, Gone} \cap Nat = {}
    /\ NoLink \notin Links
    /\ Links \cap ({Server} \cup Operators) = {}
    /\ Server \notin Operators

VARIABLES
    linkState,  \* "active", "blocked" (expired or case closed), "revoked"
    status,     \* files.status, "none" before the INSERT
    link,       \* files.link_id
    declared,   \* files.declared_size, Unknown when NULL
    reserved,   \* files.reserved_bytes
    size,       \* files.size, 0 until the row is complete
    maxBytes,   \* the direct handler's maxBytes, 0 when there is none
    request,    \* where the request that works on the upload is
    waiting,    \* tus requests past onIncomingRequest, before the tus lock
    stored,     \* bytes of the object under the file's key, or Gone
    sidecar,    \* files whose tus bookkeeping object exists
    away,       \* bytes of an object storage has lost and may bring back
    cleaning,   \* the stage of each cleanup pass
    todo,       \* the files a revocation or cleanup loop has yet to visit
    inHand,     \* the file it is visiting, between its await and its write
    deleting    \* rows marked deleted whose data is about to be removed

rows     == <<status, link, declared, reserved, size>>
requests == <<maxBytes, request, waiting>>
storage  == <<stored, sidecar>>
loops    == <<cleaning, todo, inHand>>
vars     == <<linkState, rows, requests, storage, away, loops, deleting>>

Cleaners   == {Server} \cup Operators
Discarders == Links \cup Cleaners

-----------------------------------------------------------------------------
(* The files table: services/files.ts and the usage queries of links.ts.   *)

RowsIn(s) == {f \in Files : status[f] = s}
RowsOf(l, s) == {f \in RowsIn(s) : link[f] = l}

\* Operators named Bug... are mistakes the code does not make; no action uses
\* them.  They show that a property tells the code from the mistake.
BugUsageOfCompleteOnly(l) ==
    [file_count |-> Cardinality(RowsOf(l, "complete")),
     used_bytes |-> TotalBytes(size, RowsOf(l, "complete")),
     reserved_bytes |-> 0, uploading_count |-> 0]

linkUsage(l) ==
    [file_count      |-> Cardinality(RowsOf(l, "complete")),
     used_bytes      |-> TotalBytes(size, RowsOf(l, "complete")),
     reserved_bytes  |-> TotalBytes(reserved, RowsOf(l, "uploading")),
     uploading_count |-> Cardinality(RowsOf(l, "uploading"))]

Least(a, b) == IF a <= b THEN a ELSE b

BugLimitsWithoutServerCap(l) ==
    [maxFileBytes  |-> IF LinkMaxFileBytes[l] = NoLimit THEN MaxFileBytes
                       ELSE LinkMaxFileBytes[l],
     maxFiles      |-> LinkMaxFiles[l],
     maxTotalBytes |-> LinkMaxTotalBytes[l]]

effectiveLimits(l) ==
    [maxFileBytes  |-> IF LinkMaxFileBytes[l] = NoLimit THEN MaxFileBytes
                       ELSE Least(MaxFileBytes, LinkMaxFileBytes[l]),
     maxFiles      |-> LinkMaxFiles[l],
     maxTotalBytes |-> LinkMaxTotalBytes[l]]

BugLiveIsComplete    == RowsIn("complete")
BugLiveIsUploading   == RowsIn("uploading")
BugLiveIsAnyRecord   == Files \ RowsIn("none")
liveStorageKeys == RowsIn("uploading") \cup RowsIn("complete")

\* One transaction: every limit is checked, then the row is inserted.  A
\* LimitError rolls back and changes nothing, so a refusal is no step.
reserveUpload(f, l, d) ==
    LET limits    == effectiveLimits(l)
        usage     == linkUsage(l)
        taken     == usage.used_bytes + usage.reserved_bytes
        capped    == limits.maxTotalBytes # NoLimit
        remaining == limits.maxTotalBytes - taken
        most      == IF capped THEN Least(limits.maxFileBytes, remaining)
                     ELSE limits.maxFileBytes
        bytes     == IF d = Unknown THEN most ELSE d
    IN  /\ status[f] = "none"
        /\ limits.maxFiles # NoLimit =>
               usage.file_count + usage.uploading_count < limits.maxFiles
        /\ d # Unknown => d <= limits.maxFileBytes
        /\ capped => /\ taken < limits.maxTotalBytes
                     /\ d # Unknown => taken + d <= limits.maxTotalBytes
        /\ status'   = [status EXCEPT ![f] = "uploading"]
        /\ link'     = [link EXCEPT ![f] = l]
        /\ declared' = [declared EXCEPT ![f] = d]
        /\ reserved' = [reserved EXCEPT ![f] = bytes]
        /\ UNCHANGED size

BugCompleteAnyRow(f, n) ==
    /\ status'   = [status EXCEPT ![f] = "complete"]
    /\ size'     = [size EXCEPT ![f] = n]
    /\ reserved' = [reserved EXCEPT ![f] = 0]
    /\ UNCHANGED <<link, declared>>

\* Only an 'uploading' row completes; on any other the UPDATE matches nothing.
completeUpload(f, n) ==
    IF status[f] = "uploading"
    THEN /\ status'   = [status EXCEPT ![f] = "complete"]
         /\ size'     = [size EXCEPT ![f] = n]
         /\ reserved' = [reserved EXCEPT ![f] = 0]
         /\ UNCHANGED <<link, declared>>
    ELSE UNCHANGED rows

BugFailAnyRow(f, to) ==
    /\ status'   = [status EXCEPT ![f] = to]
    /\ reserved' = [reserved EXCEPT ![f] = 0]
    /\ UNCHANGED <<link, declared, size>>

failUpload(f, to) ==
    IF status[f] = "uploading"
    THEN /\ status'   = [status EXCEPT ![f] = to]
         /\ reserved' = [reserved EXCEPT ![f] = 0]
         /\ UNCHANGED <<link, declared, size>>
    ELSE UNCHANGED rows

markMissing(f) ==
    IF status[f] = "complete"
    THEN /\ status' = [status EXCEPT ![f] = "missing"]
         /\ UNCHANGED <<link, declared, reserved, size>>
    ELSE UNCHANGED rows

markDeleted(f) ==
    /\ status[f] \in {"complete", "missing"}
    /\ status'   = [status EXCEPT ![f] = "deleted"]
    /\ reserved' = [reserved EXCEPT ![f] = 0]
    /\ UNCHANGED <<link, declared, size>>

-----------------------------------------------------------------------------
(* Storage.                                                                *)

HasArtefact(f) == stored[f] # Gone \/ f \in sidecar

\* Removing a file's data and then its sidecar.  The first or the second
\* removal may fail; every caller goes on either way, or leaves the rest to
\* the orphan sweep.
RemoveArtefacts(f) ==
    \/ UNCHANGED storage
    \/ /\ stored' = [stored EXCEPT ![f] = Gone]
       /\ sidecar' \in {sidecar, sidecar \ {f}}

BugWriteAnew(f, n) == stored' = [stored EXCEPT ![f] = n]

\* A handler writes through the descriptor it opened.  When the name has
\* been unlinked meanwhile, the bytes it writes are nowhere to be found.
WriteThrough(f, n) ==
    stored' = IF stored[f] = Gone THEN stored ELSE [stored EXCEPT ![f] = n]

\* The object is lost (a volume unmounted, a bucket unreachable under a 404)
\* and may come back.  Neither is a step of the program.
StorageLoss(f) ==
    /\ f \in Lossy /\ status[f] = "complete" /\ request[f] = "none" /\ stored[f] # Gone
    /\ away'   = [away EXCEPT ![f] = stored[f]]
    /\ stored' = [stored EXCEPT ![f] = Gone]
    /\ UNCHANGED <<linkState, rows, requests, sidecar, loops, deleting>>

StorageReturn(f) ==
    /\ away[f] # Gone
    /\ stored' = [stored EXCEPT ![f] = away[f]]
    /\ away'   = [away EXCEPT ![f] = Gone]
    /\ UNCHANGED <<linkState, rows, requests, sidecar, loops, deleting>>

-----------------------------------------------------------------------------
(* Direct uploads: the handler `direct` of http/public.ts.                 *)

Sizes      == 0 .. MaxFileBytes
SizesOf(l) == 0 .. effectiveLimits(l).maxFileBytes

DirectStart(f, l) ==
    /\ linkState[l] = "active"
    /\ \E d \in SizesOf(l) \cup {Unknown} : reserveUpload(f, l, d)
    /\ maxBytes' = [maxBytes EXCEPT ![f] = reserved'[f]]
    /\ request' = [request EXCEPT ![f] = "opening"]
    /\ UNCHANGED <<linkState, waiting, storage, away, loops, deleting>>

\* createWriteStream opens the file on its own time, after the row is there.
DirectOpen(f) ==
    /\ request[f] = "opening"
    /\ stored'  = [stored EXCEPT ![f] = 0]
    /\ request' = [request EXCEPT ![f] = "streaming"]
    /\ UNCHANGED <<linkState, rows, maxBytes, waiting, sidecar, away, loops, deleting>>

\* put resolves with n bytes, which LimitHashStream kept within maxBytes; the
\* row is completed if it is still there to complete, and 201 is sent anyway.
DirectDone(f, n) ==
    /\ request[f] = "streaming"
    /\ n <= maxBytes[f]
    /\ declared[f] \in {n, Unknown}
    /\ WriteThrough(f, n)
    /\ completeUpload(f, n)
    /\ request'  = [request EXCEPT ![f] = "none"]
    /\ maxBytes' = [maxBytes EXCEPT ![f] = 0]
    /\ UNCHANGED <<linkState, waiting, sidecar, away, loops, deleting>>

\* Too long, cut off, or refused by the disk: put removes what it wrote, or
\* fails to, and awaits that before it rejects.  The row is as it was.
DirectBreak(f) ==
    /\ request[f] \in {"opening", "streaming"}
    /\ stored' \in {stored, [stored EXCEPT ![f] = Gone]}
    /\ request' = [request EXCEPT ![f] = "failing"]
    /\ UNCHANGED <<linkState, rows, maxBytes, waiting, sidecar, away, loops, deleting>>

\* put has rejected; or it resolved, and the body was incomplete or not of
\* the declared length.
DirectFail(f) ==
    /\ request[f] \in {"streaming", "failing"}
    /\ failUpload(f, "aborted")
    /\ request'  = [request EXCEPT ![f] = "discarding"]
    /\ maxBytes' = [maxBytes EXCEPT ![f] = 0]
    /\ UNCHANGED <<linkState, waiting, storage, away, loops, deleting>>

DirectDiscard(f) ==
    /\ request[f] = "discarding"
    /\ RemoveArtefacts(f)
    /\ request' = [request EXCEPT ![f] = "none"]
    /\ UNCHANGED <<linkState, rows, maxBytes, waiting, away, loops, deleting>>

-----------------------------------------------------------------------------
(* Resumable uploads: the hooks of http/tus.ts in the order @tus/server    *)
(* calls them.  One request at a time holds the library's lock on an       *)
(* upload; `waiting` has those that onIncomingRequest let through.         *)

TusCreate(f, l) ==
    /\ linkState[l] = "active"
    /\ \E d \in SizesOf(l) : reserveUpload(f, l, d)
    /\ request' = [request EXCEPT ![f] = "creating"]
    /\ UNCHANGED <<linkState, maxBytes, waiting, storage, away, loops, deleting>>

\* store.create ends.  An empty upload is finished at once; a POST may carry
\* the first bytes; a creation that fails leaves the row to the cleanup.
TusCreated(f) ==
    /\ request[f] = "creating"
    /\ \/ /\ stored'  = [stored EXCEPT ![f] = 0]
          /\ sidecar' = sidecar \cup {f}
          /\ \E next \in {"none", "writing"} :
                 request' = [request EXCEPT ![f] = IF declared[f] = 0 THEN "finishing" ELSE next]
       \/ /\ stored' \in {stored, [stored EXCEPT ![f] = 0]}
          /\ request' = [request EXCEPT ![f] = "none"]
          /\ UNCHANGED sidecar
    /\ UNCHANGED <<linkState, rows, maxBytes, waiting, away, loops, deleting>>

\* The library can still address the upload: getUpload reads the sidecar,
\* then the size of the data.
Addressable(f) == f \in sidecar /\ stored[f] # Gone

BugNeverFinished(f) == FALSE

\* disableTerminationForFinishedUploads
Finished(f) == stored[f] = declared[f]

\* onIncomingRequest: an active token of the upload's own link, and a row
\* that is still uploading.
TusAdmits(f) == status[f] = "uploading" /\ linkState[link[f]] = "active"

\* A PATCH or a DELETE that holds the lock, has found the upload and works.
TusBegin(f, method) ==
    /\ request[f] = "none" /\ Addressable(f)
    /\ method = "DELETE" => ~Finished(f)
    /\ request' = [request EXCEPT ![f] = IF method = "PATCH" THEN "writing" ELSE "removing"]
    /\ UNCHANGED <<linkState, rows, maxBytes, storage, away, loops, deleting>>

\* The lock is free.
TusArrive(f, method) ==
    TusAdmits(f) /\ waiting[f] = {} /\ TusBegin(f, method) /\ UNCHANGED waiting

\* Another request has the lock.
TusWait(f, method) ==
    /\ TusAdmits(f) /\ request[f] \in {"writing", "finishing", "removing", "removed"}
    /\ waiting' = [waiting EXCEPT ![f] = @ \cup {method}]
    /\ UNCHANGED <<linkState, rows, maxBytes, request, storage, away, loops, deleting>>

TusLock(f, method) ==
    /\ method \in waiting[f]
    /\ TusBegin(f, method)
    /\ waiting' = [waiting EXCEPT ![f] = @ \ {method}]

\* Answered with an error, or the client left while it waited.
TusRefuse(f, method) ==
    /\ method \in waiting[f]
    /\ waiting' = [waiting EXCEPT ![f] = @ \ {method}]
    /\ UNCHANGED <<linkState, rows, maxBytes, request, storage, away, loops, deleting>>

BugAnyOffset(f, n) == TRUE

\* What the library asks before onUploadFinish, and onUploadFinish asks again.
AtEnd(f, n) == n = declared[f]

\* store.write ends at offset n.  Only a request that got through to its end
\* goes on to onUploadFinish.
TusWrite(f, n) ==
    /\ request[f] = "writing"
    /\ n <= declared[f]
    /\ stored[f] # Gone => n >= stored[f]
    /\ WriteThrough(f, n)
    /\ \E next \in IF AtEnd(f, n) THEN {"none", "finishing"} ELSE {"none"} :
           request' = [request EXCEPT ![f] = next]
    /\ UNCHANGED <<linkState, rows, maxBytes, waiting, sidecar, away, loops, deleting>>

\* onUploadFinish.  204 is sent whether or not the row was there to complete;
\* if it was, the sidecar is removed.  That removal is not awaited: whoever
\* looks next may still find the sidecar, and if it fails it stays.
TusFinish(f) ==
    /\ request[f] = "finishing"
    /\ completeUpload(f, declared[f])
    /\ sidecar' \in {sidecar, IF status[f] = "uploading" THEN sidecar \ {f} ELSE sidecar}
    /\ request' = [request EXCEPT ![f] = "none"]
    /\ UNCHANGED <<linkState, maxBytes, waiting, stored, away, loops, deleting>>

\* store.remove of a DELETE.  An error ends the request without the event.
TusRemove(f) ==
    /\ request[f] = "removing"
    /\ RemoveArtefacts(f)
    /\ \E next \in IF ~HasArtefact(f)' THEN {"none", "removed"} ELSE {"none"} :
           request' = [request EXCEPT ![f] = next]
    /\ UNCHANGED <<linkState, rows, maxBytes, waiting, away, loops, deleting>>

\* POST_TERMINATE
TusTerminated(f) ==
    /\ request[f] = "removed"
    /\ failUpload(f, "aborted")
    /\ request' = [request EXCEPT ![f] = "none"]
    /\ UNCHANGED <<linkState, maxBytes, waiting, storage, away, loops, deleting>>

-----------------------------------------------------------------------------
(* Discarding unfinished uploads: the loops of POST /links/:id/revoke and  *)
(* of the cleanup.  Each works off a list read once, and for every file    *)
(* removes the data (awaiting storage) before it writes the row.           *)

\* Expiry, and closing or reopening the case.
LinkBlocks(l) ==
    /\ linkState[l] # "revoked"
    /\ linkState' = [linkState EXCEPT ![l] = IF @ = "active" THEN "blocked" ELSE "active"]
    /\ UNCHANGED <<rows, requests, storage, away, loops, deleting>>

\* revokeLink succeeds once, so a link has one discarding loop at most.
Revoke(l) ==
    /\ linkState[l] # "revoked"
    /\ linkState' = [linkState EXCEPT ![l] = "revoked"]
    /\ todo' = [todo EXCEPT ![l] = RowsOf(l, "uploading")]
    /\ UNCHANGED <<rows, requests, storage, away, cleaning, inHand, deleting>>

Discarding(p) == p \in Cleaners => cleaning[p] = "expire"

BugDiscardStopsOnError(p, f) ==
    /\ Discarding(p) /\ f \in todo[p] /\ inHand[p] = {}
    /\ RemoveArtefacts(f)
    /\ todo'   = [todo EXCEPT ![p] = @ \ {f}]
    /\ inHand' = [inHand EXCEPT ![p] = IF HasArtefact(f)' THEN {} ELSE {f}]
    /\ UNCHANGED <<linkState, rows, requests, away, cleaning, deleting>>

\* discardUploadData of the next file on the list; its errors are swallowed.
Discard(p, f) ==
    /\ Discarding(p) /\ f \in todo[p] /\ inHand[p] = {}
    /\ RemoveArtefacts(f)
    /\ todo'   = [todo EXCEPT ![p] = @ \ {f}]
    /\ inHand' = [inHand EXCEPT ![p] = {f}]
    /\ UNCHANGED <<linkState, rows, requests, away, cleaning, deleting>>

\* Back from the await: failUpload.
Discarded(p, f) ==
    /\ Discarding(p) /\ f \in inHand[p]
    /\ failUpload(f, IF p \in Links THEN "aborted" ELSE "expired")
    /\ inHand' = [inHand EXCEPT ![p] = {}]
    /\ UNCHANGED <<linkState, requests, storage, away, cleaning, todo, deleting>>

-----------------------------------------------------------------------------
(* The cleanup: runCleanup of services/cleanup.ts.  Time is left out: any  *)
(* set of rows or artefacts may be the ones older than the cutoff, which   *)
(* --ttl-hours moves freely.                                               *)

Idle(c) == todo[c] = {} /\ inHand[c] = {}

Stage(c, from, to, files) ==
    /\ cleaning[c] = from /\ Idle(c)
    /\ cleaning' = [cleaning EXCEPT ![c] = to]
    /\ todo' = [todo EXCEPT ![c] = files]
    /\ UNCHANGED <<linkState, rows, requests, storage, away, inHand, deleting>>

BugExpireOfActiveLinks(c, stale) ==
    /\ stale \subseteq {f \in RowsIn("uploading") : linkState[link[f]] = "active"}
    /\ Stage(c, "idle", "expire", stale)

\* listStaleUploads
CleanExpire(c, stale) ==
    stale \subseteq RowsIn("uploading") /\ Stage(c, "idle", "expire", stale)

\* listCompleteFiles
CleanVerify(c) == Stage(c, "expire", "verify", RowsIn("complete"))

\* stat found the object or failed: nothing is flagged.  It found none: the
\* row is flagged when the answer arrives.
CleanStat(c, f) ==
    /\ cleaning[c] = "verify" /\ f \in todo[c] /\ inHand[c] = {}
    /\ todo' = [todo EXCEPT ![c] = @ \ {f}]
    /\ \/ UNCHANGED inHand
       \/ stored[f] = Gone /\ inHand' = [inHand EXCEPT ![c] = {f}]
    /\ UNCHANGED <<linkState, rows, requests, storage, away, cleaning, deleting>>

CleanMiss(c, f) ==
    /\ cleaning[c] = "verify" /\ f \in inHand[c]
    /\ markMissing(f)
    /\ inHand' = [inHand EXCEPT ![c] = {}]
    /\ UNCHANGED <<linkState, requests, storage, away, cleaning, todo, deleting>>

\* liveStorageKeys and the cutoff are read together.  What the sweep may
\* remove was last written before the cutoff and is not live; `old` is that
\* part of storage, fixed here although the directory is read afterwards.
CleanSweep(c, old) ==
    /\ old \subseteq {f \in Files : HasArtefact(f)} \ liveStorageKeys
    /\ Stage(c, "verify", "sweep", old)

\* An entry and its sidecar are two names, each removed on its own.
CleanOrphan(c, f) ==
    /\ cleaning[c] = "sweep" /\ f \in todo[c]
    /\ stored' \in {stored, [stored EXCEPT ![f] = Gone]}
    /\ sidecar' \in {sidecar, sidecar \ {f}}
    /\ todo' = [todo EXCEPT ![c] = @ \ {f}]
    /\ UNCHANGED <<linkState, rows, requests, away, cleaning, inHand, deleting>>

CleanEnd(c) == Stage(c, "sweep", "idle", {})

Quit(c) ==
    /\ cleaning' = [cleaning EXCEPT ![c] = "idle"]
    /\ todo'     = [todo EXCEPT ![c] = {}]
    /\ inHand'   = [inHand EXCEPT ![c] = {}]

\* An exception cuts the pass short, or its process is killed.
CleanQuit(c) ==
    /\ cleaning[c] # "idle" /\ ~(cleaning[c] = "sweep" /\ Idle(c))
    /\ Quit(c)
    /\ UNCHANGED <<linkState, rows, requests, storage, away, deleting>>

-----------------------------------------------------------------------------
(* The panel, and the server process.                                      *)

\* POST /files/:id/delete
FileDelete(f) ==
    /\ markDeleted(f)
    /\ deleting' = deleting \cup {f}
    /\ UNCHANGED <<linkState, requests, storage, away, loops>>

FileDeleteData(f) ==
    /\ f \in deleting
    /\ RemoveArtefacts(f)
    /\ deleting' = deleting \ {f}
    /\ UNCHANGED <<linkState, rows, requests, away, loops>>

\* The server stops, by a crash or by close(), and starts again: every
\* request and loop of its own is gone, the database and storage are not.
Crash ==
    /\ request'  = [f \in Files |-> "none"]
    /\ waiting'  = [f \in Files |-> {}]
    /\ maxBytes' = [f \in Files |-> 0]
    /\ deleting' = {}
    /\ cleaning' = [cleaning EXCEPT ![Server] = "idle"]
    /\ todo'     = [p \in Discarders |-> IF p \in Operators THEN todo[p] ELSE {}]
    /\ inHand'   = [p \in Discarders |-> IF p \in Operators THEN inHand[p] ELSE {}]
    /\ UNCHANGED <<linkState, rows, storage, away>>

-----------------------------------------------------------------------------
Init ==
    /\ linkState = [l \in Links |-> "active"]
    /\ status    = [f \in Files |-> "none"]
    /\ link      = [f \in Files |-> NoLink]
    /\ declared  = [f \in Files |-> Unknown]
    /\ reserved  = [f \in Files |-> 0]
    /\ size      = [f \in Files |-> 0]
    /\ maxBytes  = [f \in Files |-> 0]
    /\ request   = [f \in Files |-> "none"]
    /\ waiting   = [f \in Files |-> {}]
    /\ stored    = [f \in Files |-> Gone]
    /\ sidecar   = {}
    /\ away      = [f \in Files |-> Gone]
    /\ cleaning  = [c \in Cleaners |-> "idle"]
    /\ todo      = [p \in Discarders |-> {}]
    /\ inHand    = [p \in Discarders |-> {}]
    /\ deleting  = {}

DirectStep(f) ==
    \/ \E l \in Links : DirectStart(f, l)
    \/ DirectOpen(f)
    \/ \E n \in 0 .. maxBytes[f] : DirectDone(f, n)
    \/ DirectBreak(f) \/ DirectFail(f)
    \/ DirectDiscard(f)

TusStep(f) ==
    \/ \E l \in Links : TusCreate(f, l)
    \/ TusCreated(f)
    \/ \E method \in {"PATCH", "DELETE"} :
           \/ TusArrive(f, method) \/ TusWait(f, method)
           \/ TusLock(f, method) \/ TusRefuse(f, method)
    \/ \E n \in Sizes : TusWrite(f, n)
    \/ TusFinish(f)
    \/ TusRemove(f)
    \/ TusTerminated(f)

CleanStep(c) ==
    \/ \E stale \in SUBSET Files : CleanExpire(c, stale)
    \/ CleanVerify(c)
    \/ \E f \in Files : CleanStat(c, f) \/ CleanMiss(c, f) \/ CleanOrphan(c, f)
    \/ \E old \in SUBSET Files : CleanSweep(c, old)
    \/ CleanEnd(c)

FileStep(f) == FileDelete(f) \/ FileDeleteData(f) \/ StorageLoss(f) \/ StorageReturn(f)

Next ==
    \/ \E f \in DirectFiles : DirectStep(f)
    \/ \E f \in TusFiles : TusStep(f)
    \/ \E f \in Files : FileStep(f)
    \/ \E l \in Links : LinkBlocks(l) \/ Revoke(l)
    \/ \E p \in Discarders, f \in Files : Discard(p, f) \/ Discarded(p, f)
    \/ \E c \in Cleaners : CleanStep(c) \/ CleanQuit(c)
    \/ Crash

Spec == Init /\ [][Next]_vars

-----------------------------------------------------------------------------
Requests == {"none", "opening", "streaming", "failing", "discarding",
             "creating", "writing", "finishing", "removing", "removed"}

TypeOK ==
    /\ linkState \in [Links -> {"active", "blocked", "revoked"}]
    /\ status    \in [Files -> {"none", "uploading", "complete", "aborted",
                                "expired", "missing", "deleted"}]
    /\ link      \in [Files -> Links \cup {NoLink}]
    /\ declared  \in [Files -> Sizes \cup {Unknown}]
    /\ reserved  \in [Files -> Sizes]
    /\ size      \in [Files -> Sizes]
    /\ maxBytes  \in [Files -> Sizes]
    /\ request   \in [Files -> Requests]
    /\ waiting   \in [Files -> SUBSET {"PATCH", "DELETE"}]
    /\ stored    \in [Files -> Sizes \cup {Gone}]
    /\ sidecar   \in SUBSET Files
    /\ away      \in [Files -> Sizes \cup {Gone}]
    /\ cleaning  \in [Cleaners -> {"idle", "expire", "verify", "sweep"}]
    /\ todo      \in [Discarders -> SUBSET Files]
    /\ inHand    \in [Discarders -> SUBSET Files]
    /\ deleting  \in SUBSET Files

-----------------------------------------------------------------------------
(* Safety.                                                                 *)

\* The completed and the reserved bytes of a link stay within its total, and
\* its completed and unfinished files within its count: reserveUpload checks
\* this when it inserts, and nothing the other handlers do may undo it.
QuotaHeld ==
    \A l \in Links : LinkMaxTotalBytes[l] # NoLimit =>
        linkUsage(l).used_bytes + linkUsage(l).reserved_bytes <= LinkMaxTotalBytes[l]

CountHeld ==
    \A l \in Links : LinkMaxFiles[l] # NoLimit =>
        linkUsage(l).file_count + linkUsage(l).uploading_count <= LinkMaxFiles[l]

\* A completed file that can be read has the size its row says: a download
\* sends the row's size as Content-Length and the object as the body.
SizeIsStored ==
    \A f \in RowsIn("complete") : stored[f] # Gone => stored[f] = size[f]

\* Data of file f goes away while its row keeps status s.
DataGoes(f, s) ==
    /\ status[f] = s /\ status'[f] = s
    /\ stored[f] # Gone /\ stored'[f] = Gone

Listed(f) == \E p \in Discarders : Discarding(p) /\ f \in todo[p]

\* What is complete in the files table keeps its data, whatever requests and
\* cleanup passes are under way, but for one case: a discarding loop that
\* listed the file while it was unfinished.  (Storage itself may lose it.)
FinishedDataKept ==
    [][\A f \in Files : DataGoes(f, "complete") => Listed(f) \/ away'[f] # Gone]_vars

\* The request of f fails now.
BreaksOff(f) == request[f] # "failing" /\ request'[f] = "failing"

\* An upload under way keeps its data, unless a discarding loop listed it, its
\* own client terminates it, or its own request broke off and put removes what
\* it wrote.  In particular no failure or retry of another upload touches it,
\* and the orphan sweep, working off a list of live keys that grows old, never
\* takes an upload for an orphan.
UploadDataKept ==
    [][\A f \in Files : DataGoes(f, "uploading") =>
            Listed(f) \/ request[f] = "removing" \/ BreaksOff(f)]_vars

-----------------------------------------------------------------------------
(* The files table as Uploads keeps it implements FileLedger.              *)

Charge(f) == CASE status[f] = "uploading" -> reserved[f]
               [] status[f] = "complete"  -> size[f]
               [] OTHER -> 0

Ledger == INSTANCE FileLedger WITH
    FileLimit  <- [l \in Links |-> effectiveLimits(l).maxFileBytes],
    CountLimit <- LinkMaxFiles,
    TotalLimit <- LinkMaxTotalBytes,
    charge     <- [f \in Files |-> Charge(f)]

\* Every handler, loop and crash changes the table as one step of the ledger
\* or not at all.
LedgerSpec == Ledger!Spec

\* A row that ended stays ended, whichever of a late completion, an abort and
\* an expiry of the same upload comes last.
RowsOnlyAdvance == Ledger!RowsOnlyAdvance

-----------------------------------------------------------------------------
(* What the requests and loops make of resumable uploads implements        *)
(* TusUploads.                                                             *)

TusState(f) == CASE status[f] \in {"aborted", "expired"} -> "over"
                 [] status[f] \in {"missing", "deleted"} -> "removed"
                 [] OTHER -> status[f]

Tus == INSTANCE TusUploads WITH
    Uploads  <- TusFiles,
    Lengths  <- Sizes,
    state    <- [f \in TusFiles |-> TusState(f)],
    length   <- [f \in TusFiles |-> IF declared[f] = Unknown THEN 0 ELSE declared[f]],
    offset   <- [f \in TusFiles |-> IF stored[f] = Gone THEN 0 ELSE stored[f]],
    kept     <- {f \in TusFiles : stored[f] # Gone},
    creating <- {f \in TusFiles : request[f] = "creating"}

\* Whatever requests of one upload wait for each other, and whichever loop or
\* crash comes between two of their steps: bytes that got through stay until
\* all are discarded, discarded data never comes back in part, and nothing but
\* an upload under way, written to its end, completes.
TusSpec == Tus!Spec

-----------------------------------------------------------------------------
(* Liveness.                                                               *)

PassStep(c) ==
    \/ \E f \in Files : Discard(c, f) \/ Discarded(c, f)
    \/ CleanStep(c)

\* A pass ends before its sweep is through.
CutShort(c) ==
    /\ cleaning[c] # "idle" /\ cleaning'[c] = "idle"
    /\ ~(cleaning[c] = "sweep" /\ Idle(c))

\* The server's timer starts pass after pass and a pass that is not cut short
\* goes on (server.ts).  From some point on none is cut short: the server may
\* still stop again and again, but between two passes.  A row that stays
\* unfinished and an artefact that stays orphaned grow older than the cutoff
\* of some pass, and removing an orphan does not fail for ever.
PassesGoOn ==
    /\ WF_vars(PassStep(Server))
    /\ <>[][~CutShort(Server)]_vars
    /\ \A f \in Files :
        /\ SF_vars(\E stale \in SUBSET Files : f \in stale /\ CleanExpire(Server, stale))
        /\ SF_vars(\E old \in SUBSET Files : f \in old /\ CleanSweep(Server, old))
        /\ SF_vars(CleanOrphan(Server, f) /\ ~HasArtefact(f)')

FairSpec == Spec /\ PassesGoOn

\* No upload holds its reservation for ever, whether its client vanished, the
\* server crashed between two of its steps, or a loop was cut short.
ReservationsReturn ==
    \A f \in Files : status[f] = "uploading" ~> status[f] # "uploading"

\* A revoked link is rid of its unfinished uploads for good, even when the
\* loop of the revocation itself never got to them.
RevokedDrained ==
    \A l \in Links : linkState[l] = "revoked" ~> [](RowsOf(l, "uploading") = {})

\* What ended leaves nothing in storage in the end, even when the removal
\* that should have done it failed or was never reached.
EndedDataSwept ==
    \A f \in Files : status[f] \in {"aborted", "expired", "deleted"}
                        ~> []~HasArtefact(f)

-----------------------------------------------------------------------------
(* What the repository says of the program, and the program does not keep. *)

\* cleanup.ts: discardUploadData "removes an unfinished upload's data".  So a
\* completed file has its data as long as storage does not lose it.
FinishedHasData ==
    \A f \in RowsIn("complete") : stored[f] = Gone => away[f] # Gone

\* uploading.md: the answer 201 says "status": "complete".
AnsweredComplete ==
    [][\A f \in DirectFiles :
        (\E n \in Sizes : DirectDone(f, n)) => status'[f] = "complete"]_vars

\* architecture.md: the sweep removes "storage artefacts with no database
\* record".  A file flagged missing has one.
MissingNotSwept ==
    [][\A c \in Cleaners, f \in Files :
        ~(CleanOrphan(c, f) /\ DataGoes(f, "missing"))]_vars
=============================================================================
