------------------------- MODULE UploadsData_proofs -------------------------
(***************************************************************************)
(* The data of an upload: a complete row has the size of what is stored,   *)
(* and nothing but a loop that listed the upload, its own client or        *)
(* storage itself takes data from a row that counts on it.                 *)
(***************************************************************************)
EXTENDS Uploads_proofs

\* Uploads that were given up, and rows whose data nobody counts on.
Over    == {"aborted", "expired"}
Dropped == Over \cup {"missing", "deleted"}

\* Rows that were completed once.
Written == {"complete", "missing", "deleted"}

\* Nothing is there before the row, or before store.create ends; and which rows
\* a request may find: one that still writes, or discards, for a direct upload
\* or creates a resumable one never finds a completed row, and neither does the
\* library's termination.
Working(f) ==
    /\ status[f] = "none" => request[f] = "none" /\ stored[f] = Gone /\ f \notin sidecar
    /\ request[f] = "creating" => stored[f] = Gone
    /\ request[f] \in {"opening", "streaming", "failing", "creating"} =>
           status[f] \in {"uploading"} \cup Over
    /\ request[f] = "discarding" => status[f] \in Over
    /\ request[f] = "removing" => status[f] \notin Written

\* What was completed is stored with its size, or away with it, or gone; so is
\* what the library is about to complete.  A resumable upload declares its size.
Stored(f) ==
    /\ f \in TusFiles /\ status[f] # "none" => declared[f] \in Sizes
    /\ status[f] \in Written =>
           /\ stored[f] \in {Gone, size[f]} /\ away[f] \in {Gone, size[f]}
           /\ f \in TusFiles => size[f] = declared[f]
    /\ request[f] = "finishing" => f \in TusFiles /\ stored[f] \in {Gone, declared[f]}
    /\ away[f] # Gone => status[f] \in Written /\ stored[f] = Gone

FileInv(f) == Working(f) /\ Stored(f)

\* What a sweep or a deletion is about to remove belongs to no live row.
Ending ==
    /\ \A c \in Cleaners : cleaning[c] = "sweep" => \A f \in todo[c] : status[f] \in Dropped
    /\ \A f \in deleting : status[f] = "deleted"

DataInv == (\A f \in Files : FileInv(f)) /\ Ending

USE UploadsConstants

-----------------------------------------------------------------------------
(* Steps that leave a file alone, end its row, or take its data away.      *)

Advances(f) ==
    \/ status'[f] = status[f]
    \/ status[f] = "uploading" /\ status'[f] \in Over
    \/ status[f] \in {"complete", "missing"} /\ status'[f] \in {"missing", "deleted"}

Quiet(f) ==
    /\ Advances(f)
    /\ declared'[f] = declared[f] /\ size'[f] = size[f] /\ away'[f] = away[f]
    /\ request'[f] \in {request[f], "none", "removed"}
    /\ status[f] = "none" => request'[f] = request[f]
    /\ stored'[f] \in {stored[f], Gone}
    /\ f \in sidecar' => f \in sidecar

LEMMA QuietKeeps ==
    ASSUME NEW f \in Files, FileInv(f), Quiet(f)
    PROVE  FileInv(f)'
<1>1. Working(f)'
  BY DEF FileInv, Working, Quiet, Advances, Over, Written
<1>2. Stored(f)'
  <2>1. CASE status'[f] \in Written
    <3>1. status[f] \in Written
      BY <2>1 DEF Quiet, Advances, Over, Written
    <3> QED
      BY <2>1, <3>1 DEF FileInv, Stored, Quiet, Advances
  <2>2. CASE status'[f] \notin Written
    <3>1. status[f] \notin Written
      BY <2>2 DEF Quiet, Advances, Over, Written
    <3> QED
      BY <2>2, <3>1 DEF FileInv, Stored, Quiet, Advances
  <2> QED
    BY <2>1, <2>2
<1> QED
  BY <1>1, <1>2 DEF FileInv

\* No row that was dropped comes back.
EndsStay ==
    \A f \in Files : /\ status[f] \in Dropped => status'[f] \in Dropped
                     /\ status[f] = "deleted" => status'[f] = "deleted"

LEMMA EndingKept ==
    ASSUME TypeOK, Ending, EndsStay, UNCHANGED <<cleaning, todo, deleting>>
    PROVE  Ending'
BY DEF Ending, EndsStay, TypeOK, Discarders, Cleaners

LEMMA RemovalIsQuiet ==
    ASSUME TypeOK, NEW f \in Files, RemoveArtefacts(f)
    PROVE  \A g \in Files : /\ stored'[g] \in {stored[g], Gone}
                            /\ g # f => stored'[g] = stored[g]
                            /\ g \in sidecar' => g \in sidecar
BY DEF RemoveArtefacts, TypeOK, storage

\* The statements that write rows; all but the INSERT and the completion are
\* quiet.
LEMMA FailAdvances ==
    ASSUME TypeOK, NEW f \in Files, NEW to \in Over, failUpload(f, to)
    PROVE  /\ \A g \in Files : Advances(g) /\ declared'[g] = declared[g] /\ size'[g] = size[g]
           /\ EndsStay
<1>1. CASE status[f] = "uploading"
  BY <1>1 DEF failUpload, TypeOK, Advances, EndsStay, Over, Dropped
<1>2. CASE status[f] # "uploading"
  BY <1>2 DEF failUpload, rows, Advances, EndsStay
<1> QED
  BY <1>1, <1>2

LEMMA MarkAdvances ==
    ASSUME TypeOK, NEW f \in Files, markMissing(f) \/ markDeleted(f)
    PROVE  /\ \A g \in Files : Advances(g) /\ declared'[g] = declared[g] /\ size'[g] = size[g]
           /\ EndsStay
<1>1. CASE markDeleted(f)
  BY <1>1 DEF markDeleted, TypeOK, Advances, EndsStay, Over, Dropped
<1>2. CASE markMissing(f) /\ status[f] = "complete"
  BY <1>2 DEF markMissing, TypeOK, Advances, EndsStay, Over, Dropped
<1>3. CASE markMissing(f) /\ status[f] # "complete"
  BY <1>3 DEF markMissing, rows, Advances, EndsStay
<1> QED
  BY <1>1, <1>2, <1>3

LEMMA NoRows ==
    ASSUME UNCHANGED rows
    PROVE  /\ \A g \in Files : Advances(g) /\ declared'[g] = declared[g] /\ size'[g] = size[g]
           /\ EndsStay
BY DEF rows, Advances, EndsStay

\* The INSERT: a new row, and no other.
LEMMA ReserveNew ==
    ASSUME TypeOK, NEW f \in Files, NEW l, NEW d, reserveUpload(f, l, d)
    PROVE  /\ status[f] = "none" /\ status'[f] = "uploading" /\ declared'[f] = d
           /\ \A g \in Files \ {f} : Advances(g) /\ declared'[g] = declared[g] /\ size'[g] = size[g]
           /\ EndsStay
<1>1. status[f] = "none" /\ status' = [status EXCEPT ![f] = "uploading"]
      /\ declared' = [declared EXCEPT ![f] = d] /\ size' = size
  BY DEF reserveUpload
<1> QED
  BY <1>1 DEF TypeOK, Advances, EndsStay, Over, Dropped

\* The completion.
LEMMA CompleteNew ==
    ASSUME TypeOK, NEW f \in Files, NEW n, completeUpload(f, n)
    PROVE  /\ \A g \in Files \ {f} : Advances(g) /\ size'[g] = size[g]
           /\ declared' = declared
           /\ EndsStay
           /\ \/ status[f] = "uploading" /\ status'[f] = "complete" /\ size'[f] = n
              \/ status[f] # "uploading" /\ status'[f] = status[f] /\ size'[f] = size[f]
<1>1. CASE status[f] = "uploading"
  BY <1>1 DEF completeUpload, TypeOK, Advances, EndsStay, Over, Dropped
<1>2. CASE status[f] # "uploading"
  BY <1>2 DEF completeUpload, rows, Advances, EndsStay
<1> QED
  BY <1>1, <1>2

-----------------------------------------------------------------------------
(* The actions.                                                            *)

\* An action that is quiet but for what it makes of one file.
LEMMA OneFile ==
    ASSUME TypeOK, DataInv, NEW f \in Files, \A g \in Files \ {f} : Quiet(g), FileInv(f)',
           EndsStay, UNCHANGED <<cleaning, todo, deleting>>
    PROVE  DataInv'
<1>1. \A g \in Files : FileInv(g)'
  BY QuietKeeps DEF DataInv
<1> QED
  BY <1>1, EndingKept DEF DataInv

LEMMA AllQuiet ==
    ASSUME TypeOK, DataInv, \A g \in Files : Quiet(g), Ending'
    PROVE  DataInv'
BY QuietKeeps DEF DataInv

LEMMA DirectData ==
    ASSUME TypeOK, DataInv, NEW f \in DirectFiles, DirectStep(f)
    PROVE  DataInv'
<1> f \in Files /\ f \notin TusFiles /\ FileInv(f)
  BY DEF Files, DataInv
<1> USE DEF requests, storage, loops
<1>1. ASSUME NEW l \in Links, DirectStart(f, l)
      PROVE  DataInv'
  <2>1. PICK d \in SizesOf(l) \cup {Unknown} : reserveUpload(f, l, d)
    BY <1>1 DEF DirectStart
  <2>2. /\ request' = [request EXCEPT ![f] = "opening"]
        /\ UNCHANGED <<stored, sidecar, away, cleaning, todo, deleting>>
    BY <1>1 DEF DirectStart
  <2>3. \A g \in Files \ {f} : Quiet(g)
    BY <2>1, <2>2, ReserveNew DEF Quiet, TypeOK
  <2>4. FileInv(f)'
    BY <2>1, <2>2, ReserveNew DEF FileInv, Working, Stored, Written, Over, TypeOK
  <2> QED
    BY <2>1, <2>2, <2>3, <2>4, ReserveNew, OneFile
<1>2. CASE DirectOpen(f)
  <2>1. /\ request[f] = "opening" /\ request' = [request EXCEPT ![f] = "streaming"]
        /\ stored' = [stored EXCEPT ![f] = 0]
        /\ UNCHANGED rows /\ UNCHANGED <<sidecar, away, cleaning, todo, deleting>>
    BY <1>2 DEF DirectOpen
  <2>2. \A g \in Files \ {f} : Quiet(g)
    BY <2>1, NoRows DEF Quiet, TypeOK
  <2>3. FileInv(f)'
    BY <2>1 DEF FileInv, Working, Stored, Written, Over, TypeOK, rows
  <2> QED
    BY <2>1, <2>2, <2>3, NoRows, OneFile
<1>3. ASSUME NEW n \in 0 .. maxBytes[f], DirectDone(f, n)
      PROVE  DataInv'
  <2>1. /\ request[f] = "streaming" /\ request' = [request EXCEPT ![f] = "none"]
        /\ WriteThrough(f, n) /\ completeUpload(f, n)
        /\ UNCHANGED <<sidecar, away, cleaning, todo, deleting>>
    BY <1>3 DEF DirectDone
  <2>2. /\ stored'[f] \in {Gone, n}
        /\ \A g \in Files \ {f} : stored'[g] = stored[g]
    BY <2>1 DEF WriteThrough, TypeOK
  <2>3. \A g \in Files \ {f} : Quiet(g)
    BY <2>1, <2>2, CompleteNew DEF Quiet, TypeOK
  <2>4. FileInv(f)'
    BY <2>1, <2>2, CompleteNew DEF FileInv, Working, Stored, Written, Over, TypeOK
  <2> QED
    BY <2>1, <2>3, <2>4, CompleteNew, OneFile
<1>4. CASE DirectFail(f)
  <2>1. /\ request[f] \in {"streaming", "failing"}
        /\ request' = [request EXCEPT ![f] = "discarding"]
        /\ failUpload(f, "aborted") /\ "aborted" \in Over
        /\ UNCHANGED <<stored, sidecar, away, cleaning, todo, deleting>>
    BY <1>4 DEF DirectFail, Over
  <2>2. \A g \in Files \ {f} : Quiet(g)
    BY <2>1, FailAdvances DEF Quiet, TypeOK
  <2>3. status'[f] \in Over
    BY <2>1 DEF failUpload, FileInv, Working, Over, TypeOK, rows
  <2>4. FileInv(f)'
    BY <2>1, <2>3 DEF FileInv, Working, Stored, Written, Over, TypeOK
  <2> QED
    BY <2>1, <2>2, <2>4, FailAdvances, OneFile
<1>5. CASE DirectDiscard(f)
  <2>1. /\ request[f] = "discarding" /\ request' = [request EXCEPT ![f] = "none"]
        /\ RemoveArtefacts(f) /\ UNCHANGED rows /\ UNCHANGED <<away, cleaning, todo, deleting>>
    BY <1>5 DEF DirectDiscard
  <2>2. \A g \in Files : Quiet(g)
    BY <2>1, NoRows, RemovalIsQuiet DEF Quiet, TypeOK, FileInv, Working, Over
  <2> QED
    BY <2>1, <2>2, NoRows, EndingKept, AllQuiet DEF DataInv
<1>6. CASE DirectBreak(f)
  <2>1. /\ request[f] \in {"opening", "streaming"}
        /\ request' = [request EXCEPT ![f] = "failing"]
        /\ stored' \in {stored, [stored EXCEPT ![f] = Gone]}
        /\ UNCHANGED rows /\ UNCHANGED <<sidecar, away, cleaning, todo, deleting>>
    BY <1>6 DEF DirectBreak
  <2>2. \A g \in Files \ {f} : Quiet(g)
    BY <2>1, NoRows DEF Quiet, TypeOK
  <2>3. FileInv(f)'
    BY <2>1 DEF FileInv, Working, Stored, Written, Over, TypeOK, rows
  <2> QED
    BY <2>1, <2>2, <2>3, NoRows, OneFile
<1> QED
  BY <1>1, <1>2, <1>3, <1>4, <1>5, <1>6 DEF DirectStep

\* A request that begins to work on an upload that can be addressed.
LEMMA BeginData ==
    ASSUME TypeOK, DataInv, NEW f \in TusFiles, NEW method \in {"PATCH", "DELETE"},
           TusBegin(f, method)
    PROVE  DataInv'
<1> f \in Files /\ FileInv(f)
  BY DEF Files, DataInv
<1>1. /\ request[f] = "none" /\ stored[f] # Gone
      /\ \/ request' = [request EXCEPT ![f] = "writing"]
         \/ request' = [request EXCEPT ![f] = "removing"] /\ stored[f] # declared[f]
      /\ UNCHANGED rows /\ UNCHANGED <<stored, sidecar, away, cleaning, todo, deleting>>
  BY DEF TusBegin, Addressable, Finished, storage, loops
<1>2. \A g \in Files \ {f} : Quiet(g)
  BY <1>1, NoRows DEF Quiet, TypeOK
<1>3. FileInv(f)'
  BY <1>1 DEF FileInv, Working, Stored, Written, Over, TypeOK, rows
<1> QED
  BY <1>1, <1>2, <1>3, NoRows, OneFile

LEMMA TusData ==
    ASSUME RowInv, DataInv, NEW f \in TusFiles, TusStep(f)
    PROVE  DataInv'
<1> f \in Files /\ FileInv(f) /\ TypeOK
  BY DEF Files, DataInv, RowInv
<1> USE DEF requests, storage, loops
<1>1. ASSUME NEW l \in Links, TusCreate(f, l)
      PROVE  DataInv'
  <2>1. PICK d \in SizesOf(l) : reserveUpload(f, l, d)
    BY <1>1 DEF TusCreate
  <2>2. /\ request' = [request EXCEPT ![f] = "creating"]
        /\ UNCHANGED <<stored, sidecar, away, cleaning, todo, deleting>>
    BY <1>1 DEF TusCreate
  <2>3. \A g \in Files \ {f} : Quiet(g)
    BY <2>1, <2>2, ReserveNew DEF Quiet, TypeOK
  <2>4. d \in Sizes
    BY LimitsType DEF SizesOf, Sizes
  <2>5. FileInv(f)'
    BY <2>1, <2>2, <2>4, ReserveNew DEF FileInv, Working, Stored, Written, Over, TypeOK
  <2> QED
    BY <2>1, <2>2, <2>3, <2>5, ReserveNew, OneFile
<1>2. CASE TusCreated(f)
  <2>1. /\ request[f] = "creating"
        /\ stored' \in {stored, [stored EXCEPT ![f] = 0]}
        /\ sidecar' \in {sidecar, sidecar \cup {f}}
        /\ UNCHANGED rows /\ UNCHANGED <<away, cleaning, todo, deleting>>
    BY <1>2 DEF TusCreated
  <2>2. \E next \in {"none", "writing", "finishing"} :
            /\ request' = [request EXCEPT ![f] = next]
            /\ next = "finishing" => stored' = [stored EXCEPT ![f] = 0] /\ declared[f] = 0
    BY <1>2 DEF TusCreated
  <2>3. \A g \in Files \ {f} : Quiet(g)
    BY <2>1, <2>2, NoRows DEF Quiet, TypeOK
  <2>4. FileInv(f)'
    BY <2>1, <2>2 DEF FileInv, Working, Stored, Written, Over, TypeOK, rows
  <2> QED
    BY <2>1, <2>3, <2>4, NoRows, OneFile
<1>3. ASSUME NEW method \in {"PATCH", "DELETE"}, TusArrive(f, method) \/ TusLock(f, method)
      PROVE  DataInv'
  BY <1>3, BeginData DEF TusArrive, TusLock
<1>4. ASSUME NEW method \in {"PATCH", "DELETE"}, TusWait(f, method) \/ TusRefuse(f, method)
      PROVE  DataInv'
  <2>1. UNCHANGED rows /\ UNCHANGED <<request, stored, sidecar, away, cleaning, todo, deleting>>
    BY <1>4 DEF TusWait, TusRefuse
  <2>2. \A g \in Files : Quiet(g)
    BY <2>1, NoRows DEF Quiet
  <2> QED
    BY <2>1, <2>2, NoRows, EndingKept, AllQuiet DEF DataInv
<1>5. ASSUME NEW n \in Sizes, TusWrite(f, n)
      PROVE  DataInv'
  <2>1. /\ request[f] = "writing" /\ n <= declared[f]
        /\ stored[f] # Gone => n >= stored[f]
        /\ WriteThrough(f, n)
        /\ UNCHANGED rows /\ UNCHANGED <<sidecar, away, cleaning, todo, deleting>>
    BY <1>5 DEF TusWrite
  <2>2. \E next \in {"none", "finishing"} :
            /\ request' = [request EXCEPT ![f] = next]
            /\ next = "finishing" => n = declared[f]
    BY <1>5 DEF TusWrite, AtEnd
  <2>3. /\ stored'[f] = IF stored[f] = Gone THEN Gone ELSE n
        /\ \A g \in Files \ {f} : stored'[g] = stored[g]
    BY <2>1 DEF WriteThrough, TypeOK
  <2>4. \A g \in Files \ {f} : Quiet(g)
    BY <2>1, <2>2, <2>3, NoRows DEF Quiet, TypeOK
  <2>5. Working(f)'
    BY <2>1, <2>2, <2>3 DEF FileInv, Working, Over, TypeOK, rows
  <2>6. status[f] \in Written => stored'[f] \in {Gone, size[f]}
    <3>1. status[f] \in Written /\ stored[f] # Gone => stored[f] = declared[f] /\ size[f] = declared[f]
      BY DEF FileInv, Stored
    <3>2. size[f] \in Nat /\ n \in Nat
      BY DEF TypeOK, Sizes
    <3> QED
      BY <2>1, <2>3, <3>1, <3>2
  <2>7. Stored(f)'
    BY <2>1, <2>2, <2>3, <2>6 DEF FileInv, Stored, TypeOK, rows
  <2> QED
    BY <2>1, <2>4, <2>5, <2>7, NoRows, OneFile DEF FileInv
<1>6. CASE TusFinish(f)
  <2>1. /\ request[f] = "finishing" /\ request' = [request EXCEPT ![f] = "none"]
        /\ completeUpload(f, declared[f])
        /\ sidecar' \subseteq sidecar
        /\ UNCHANGED <<stored, away, cleaning, todo, deleting>>
    BY <1>6 DEF TusFinish
  <2>2. \A g \in Files \ {f} : Quiet(g)
    BY <2>1, CompleteNew DEF Quiet, TypeOK
  <2>3. FileInv(f)'
    BY <2>1, CompleteNew DEF FileInv, Working, Stored, Written, Over, TypeOK
  <2> QED
    BY <2>1, <2>2, <2>3, CompleteNew, OneFile
<1>7. CASE TusRemove(f)
  <2>1. /\ request[f] = "removing"
        /\ request' \in {[request EXCEPT ![f] = "none"], [request EXCEPT ![f] = "removed"]}
        /\ RemoveArtefacts(f) /\ UNCHANGED rows /\ UNCHANGED <<away, cleaning, todo, deleting>>
    BY <1>7 DEF TusRemove
  <2>2. \A g \in Files : Quiet(g)
    BY <2>1, NoRows, RemovalIsQuiet DEF Quiet, TypeOK, FileInv, Working
  <2> QED
    BY <2>1, <2>2, NoRows, EndingKept, AllQuiet DEF DataInv
<1>8. CASE TusTerminated(f)
  <2>1. /\ request[f] = "removed" /\ request' = [request EXCEPT ![f] = "none"]
        /\ failUpload(f, "aborted") /\ "aborted" \in Over
        /\ UNCHANGED <<stored, sidecar, away, cleaning, todo, deleting>>
    BY <1>8 DEF TusTerminated, Over
  <2>2. \A g \in Files : Quiet(g)
    BY <2>1, FailAdvances DEF Quiet, TypeOK, FileInv, Working
  <2> QED
    BY <2>1, <2>2, FailAdvances, EndingKept, AllQuiet DEF DataInv
<1> QED
  BY <1>1, <1>2, <1>3, <1>4, <1>5, <1>6, <1>7, <1>8 DEF TusStep

\* A list that a sweep goes by is only worked off; a new one has dropped rows.
LEMMA SweepKept ==
    ASSUME TypeOK, Ending, EndsStay, deleting' = deleting,
           \A c \in Cleaners : cleaning'[c] = "sweep" =>
               \/ cleaning[c] = "sweep" /\ todo'[c] \subseteq todo[c]
               \/ \A f \in todo'[c] : f \in Files /\ status'[f] \in Dropped
    PROVE  Ending'
<1>1. \A c \in Cleaners : todo[c] \subseteq Files
  BY DEF TypeOK, Discarders
<1> QED
  BY <1>1 DEF Ending, EndsStay, TypeOK

LEMMA FileData ==
    ASSUME TypeOK, DataInv, NEW f \in Files, FileStep(f)
    PROVE  DataInv'
<1> FileInv(f)
  BY DEF DataInv
<1> USE DEF requests, storage, loops
<1>1. CASE FileDelete(f)
  <2>1. /\ markDeleted(f) /\ deleting' = deleting \cup {f}
        /\ UNCHANGED <<request, stored, sidecar, away, cleaning, todo>>
    BY <1>1 DEF FileDelete
  <2>2. \A g \in Files : Quiet(g)
    BY <2>1, MarkAdvances DEF Quiet
  <2>3. Ending'
    <3>1. status'[f] = "deleted"
      BY <2>1 DEF markDeleted, TypeOK
    <3> QED
      BY <2>1, <3>1, MarkAdvances DEF DataInv, Ending, EndsStay, TypeOK, Discarders, Cleaners
  <2> QED
    BY <2>2, <2>3, AllQuiet
<1>2. CASE FileDeleteData(f)
  <2>1. /\ RemoveArtefacts(f) /\ deleting' = deleting \ {f}
        /\ UNCHANGED rows /\ UNCHANGED <<request, away, cleaning, todo>>
    BY <1>2 DEF FileDeleteData
  <2>2. \A g \in Files : Quiet(g)
    BY <2>1, NoRows, RemovalIsQuiet DEF Quiet
  <2>3. Ending'
    BY <2>1 DEF DataInv, Ending, rows
  <2> QED
    BY <2>2, <2>3, AllQuiet
<1>3. CASE StorageLoss(f)
  <2>1. /\ status[f] = "complete" /\ request[f] = "none" /\ stored[f] # Gone
        /\ away' = [away EXCEPT ![f] = stored[f]] /\ stored' = [stored EXCEPT ![f] = Gone]
        /\ UNCHANGED rows /\ UNCHANGED <<request, sidecar, cleaning, todo, deleting>>
    BY <1>3 DEF StorageLoss
  <2>2. \A g \in Files \ {f} : Quiet(g)
    BY <2>1, NoRows DEF Quiet, TypeOK
  <2>3. FileInv(f)'
    BY <2>1 DEF FileInv, Working, Stored, Written, Over, TypeOK, rows
  <2> QED
    BY <2>1, <2>2, <2>3, NoRows, OneFile
<1>4. CASE StorageReturn(f)
  <2>1. /\ away[f] # Gone
        /\ stored' = [stored EXCEPT ![f] = away[f]] /\ away' = [away EXCEPT ![f] = Gone]
        /\ UNCHANGED rows /\ UNCHANGED <<request, sidecar, cleaning, todo, deleting>>
    BY <1>4 DEF StorageReturn
  <2>2. \A g \in Files \ {f} : Quiet(g)
    BY <2>1, NoRows DEF Quiet, TypeOK
  <2>3. status[f] \in Written /\ away[f] = size[f] /\ (f \in TusFiles => size[f] = declared[f])
    BY <2>1 DEF FileInv, Stored
  <2>4. Working(f)'
    BY <2>1, <2>3 DEF FileInv, Working, Written, Over, rows
  <2>5. request[f] = "finishing" => f \in TusFiles /\ stored'[f] \in {Gone, declared[f]}
    BY <2>1, <2>3 DEF FileInv, Stored, TypeOK
  <2>6. Stored(f)'
    BY <2>1, <2>3, <2>5 DEF Stored, TypeOK, rows
  <2> QED
    BY <2>1, <2>2, <2>4, <2>6, NoRows, OneFile DEF FileInv
<1> QED
  BY <1>1, <1>2, <1>3, <1>4 DEF FileStep

LEMMA LoopData ==
    ASSUME TypeOK, DataInv,
           \/ \E l \in Links : LinkBlocks(l) \/ Revoke(l)
           \/ \E p \in Discarders, f \in Files : Discard(p, f) \/ Discarded(p, f)
           \/ \E c \in Cleaners : CleanStep(c) \/ CleanQuit(c)
           \/ Crash
           \/ UNCHANGED vars
    PROVE  DataInv'
<1> Cleaners \subseteq Discarders /\ Links \cap Cleaners = {}
  BY DEF Discarders, Cleaners
<1> USE DEF requests, storage, loops
<1>1. ASSUME \A g \in Files : Quiet(g), EndsStay, UNCHANGED <<cleaning, todo, deleting>>
      PROVE  DataInv'
  BY <1>1, EndingKept, AllQuiet DEF DataInv
<1>2. ASSUME UNCHANGED rows, UNCHANGED <<request, stored, sidecar, away>>
      PROVE  (\A g \in Files : Quiet(g)) /\ EndsStay
  BY <1>2, NoRows DEF Quiet
\* Steps of loops that change no file: what remains is the list they go by.
<1>3. ASSUME UNCHANGED rows, UNCHANGED <<request, stored, sidecar, away, deleting>>,
             \A c \in Cleaners : cleaning'[c] = "sweep" =>
               \/ cleaning[c] = "sweep" /\ todo'[c] \subseteq todo[c]
               \/ \A f \in todo'[c] : f \in Files /\ status'[f] \in Dropped
      PROVE  DataInv'
  BY <1>2, <1>3, SweepKept, AllQuiet DEF DataInv
<1>4. ASSUME NEW l \in Links, LinkBlocks(l)
      PROVE  DataInv'
  BY <1>1, <1>2, <1>4 DEF LinkBlocks
<1>5. ASSUME NEW l \in Links, Revoke(l)
      PROVE  DataInv'
  <2>1. /\ UNCHANGED rows /\ UNCHANGED <<request, stored, sidecar, away, deleting, cleaning>>
        /\ todo' = [todo EXCEPT ![l] = RowsOf(l, "uploading")]
    BY <1>5 DEF Revoke
  <2>2. \A c \in Cleaners : todo'[c] = todo[c]
    BY <2>1 DEF TypeOK
  <2> QED
    BY <1>3, <2>1, <2>2
<1>6. ASSUME NEW p \in Discarders, NEW f \in Files, Discard(p, f)
      PROVE  DataInv'
  <2>1. /\ RemoveArtefacts(f) /\ UNCHANGED rows /\ UNCHANGED <<request, away, deleting, cleaning>>
        /\ todo' = [todo EXCEPT ![p] = @ \ {f}]
    BY <1>6 DEF Discard
  <2>2. \A g \in Files : Quiet(g)
    BY <2>1, NoRows, RemovalIsQuiet DEF Quiet
  <2>3. \A c \in Cleaners : todo'[c] \subseteq todo[c]
    BY <2>1 DEF TypeOK
  <2>4. Ending'
    BY <2>1, <2>3, NoRows, SweepKept DEF DataInv
  <2> QED
    BY <2>2, <2>4, AllQuiet
<1>7. ASSUME NEW p \in Discarders, NEW f \in Files, Discarded(p, f)
      PROVE  DataInv'
  <2>1. \E to \in Over : failUpload(f, to)
    BY <1>7 DEF Discarded, Over
  <2>2. UNCHANGED <<request, stored, sidecar, away, cleaning, todo, deleting>>
    BY <1>7 DEF Discarded
  <2>3. \A g \in Files : Quiet(g)
    BY <2>1, <2>2, FailAdvances DEF Quiet
  <2> QED
    BY <1>1, <2>1, <2>2, <2>3, FailAdvances
<1>8. ASSUME NEW c \in Cleaners, CleanStep(c)
      PROVE  DataInv'
  <2>1. ASSUME NEW stale \in SUBSET Files, CleanExpire(c, stale)
        PROVE  DataInv'
    BY <1>3, <2>1 DEF CleanExpire, Stage, TypeOK
  <2>2. CASE CleanVerify(c)
    BY <1>3, <2>2 DEF CleanVerify, Stage, TypeOK
  <2>3. ASSUME NEW old \in SUBSET Files, CleanSweep(c, old)
        PROVE  DataInv'
    <3>1. \A f \in old : status[f] \in Dropped
      <4> SUFFICES ASSUME NEW f \in old
                   PROVE  status[f] \in Dropped
        OBVIOUS
      <4>1. f \in Files /\ HasArtefact(f) /\ status[f] \notin {"uploading", "complete"}
        BY <2>3 DEF CleanSweep, liveStorageKeys, RowsIn
      <4>2. status[f] # "none"
        BY <4>1 DEF DataInv, FileInv, Working, HasArtefact
      <4> QED
        BY <4>1, <4>2 DEF TypeOK, Dropped, Over
    <3>2. /\ UNCHANGED rows /\ UNCHANGED <<request, stored, sidecar, away, deleting>>
          /\ cleaning' = [cleaning EXCEPT ![c] = "sweep"] /\ todo' = [todo EXCEPT ![c] = old]
      BY <2>3 DEF CleanSweep, Stage
    <3>3. \A b \in Cleaners \ {c} : cleaning'[b] = cleaning[b] /\ todo'[b] = todo[b]
      BY <3>2 DEF TypeOK
    <3>4. todo'[c] = old /\ status' = status
      BY <3>2 DEF TypeOK, rows
    <3> QED
      BY <1>3, <3>1, <3>2, <3>3, <3>4
  <2>4. CASE CleanEnd(c)
    BY <1>3, <2>4 DEF CleanEnd, Stage, TypeOK
  <2>5. ASSUME NEW f \in Files, CleanStat(c, f)
        PROVE  DataInv'
    BY <1>3, <2>5 DEF CleanStat, TypeOK
  <2>6. ASSUME NEW f \in Files, CleanMiss(c, f)
        PROVE  DataInv'
    <3>1. markMissing(f) /\ UNCHANGED <<request, stored, sidecar, away, cleaning, todo, deleting>>
      BY <2>6 DEF CleanMiss
    <3>2. \A g \in Files : Quiet(g)
      BY <3>1, MarkAdvances DEF Quiet
    <3> QED
      BY <1>1, <3>1, <3>2, MarkAdvances
  <2>7. ASSUME NEW f \in Files, CleanOrphan(c, f)
        PROVE  DataInv'
    <3>1. /\ stored' \in {stored, [stored EXCEPT ![f] = Gone]} /\ sidecar' \subseteq sidecar
          /\ UNCHANGED rows /\ UNCHANGED <<request, away, cleaning, deleting>>
          /\ todo' = [todo EXCEPT ![c] = @ \ {f}]
      BY <2>7 DEF CleanOrphan
    <3>2. \A g \in Files : Quiet(g)
      BY <3>1, NoRows DEF Quiet, TypeOK
    <3>3. \A b \in Cleaners : todo'[b] \subseteq todo[b]
      BY <3>1 DEF TypeOK
    <3>4. Ending'
      BY <3>1, <3>3, NoRows, SweepKept DEF DataInv
    <3> QED
      BY <3>2, <3>4, AllQuiet
  <2> QED
    BY <1>8, <2>1, <2>2, <2>3, <2>4, <2>5, <2>6, <2>7 DEF CleanStep
<1>9. ASSUME NEW c \in Cleaners, CleanQuit(c)
      PROVE  DataInv'
  BY <1>3, <1>9 DEF CleanQuit, Quit, TypeOK
<1>10. CASE Crash
  <2>1. /\ \A g \in Files : request'[g] = "none"
        /\ UNCHANGED rows /\ UNCHANGED <<stored, sidecar, away>> /\ deleting' = {}
    BY <1>10 DEF Crash
  <2>2. \A g \in Files : Quiet(g)
    BY <2>1, NoRows DEF Quiet, DataInv, FileInv, Working
  <2>3. \A c \in Cleaners : cleaning'[c] = "sweep" => cleaning[c] = "sweep" /\ todo'[c] \subseteq todo[c]
    BY <1>10 DEF Crash, Cleaners, Discarders, TypeOK
  <2>4. Ending'
    BY <2>1, <2>3, NoRows DEF DataInv, Ending, rows
  <2> QED
    BY <2>2, <2>4, AllQuiet
<1>11. CASE UNCHANGED vars
  BY <1>1, <1>2, <1>11 DEF vars
<1> QED
  BY <1>4, <1>5, <1>6, <1>7, <1>8, <1>9, <1>10, <1>11

LEMMA DataInvHolds == Spec => []DataInv
<1>1. Init => DataInv
  BY DEF Init, DataInv, FileInv, Working, Stored, Ending, Written, Over
<1>2. RowInv /\ DataInv /\ [Next]_vars => DataInv'
  BY DirectData, TusData, FileData, LoopData DEF Next, RowInv
<1> QED
  BY <1>1, <1>2, RowInvHolds, PTL DEF Spec

\* A completed file that can be read has the size that its row says, whichever
\* requests wrote it in turn, and whatever storage loses and brings back.
THEOREM SizeStored == Spec => []SizeIsStored
<1>1. DataInv => SizeIsStored
  BY DEF DataInv, FileInv, Stored, Written, SizeIsStored, RowsIn
<1> QED
  BY <1>1, DataInvHolds, PTL

-----------------------------------------------------------------------------
(* Who takes data from a row that counts on it.                            *)

\* Data goes while its row stays unfinished or complete: storage lost it, its
\* client terminates it, its own request broke off, or a discarding loop
\* listed it.
LEMMA LossExplained ==
    ASSUME TypeOK, DataInv, [Next]_vars, NEW g \in Files, NEW s \in {"uploading", "complete"},
           DataGoes(g, s)
    PROVE  \/ Listed(g)
           \/ s = "complete" /\ away'[g] # Gone
           \/ s = "uploading" /\ (request[g] = "removing" \/ BreaksOff(g))
<1> /\ stored[g] # Gone /\ stored'[g] = Gone /\ status[g] = s /\ status'[g] = s
    /\ stored' # stored
  BY DEF DataGoes
<1> Working(g) /\ Ending
  BY DEF DataInv, FileInv
<1> USE DEF requests, storage, loops
<1>1. ASSUME NEW f \in DirectFiles, DirectStep(f)
      PROVE  s = "uploading" /\ BreaksOff(g)
  <2> f \in Files
    BY DEF Files
  <2>1. stored' = stored \/ DirectOpen(f) \/ DirectBreak(f) \/ DirectDiscard(f)
        \/ \E n \in 0 .. maxBytes[f] : DirectDone(f, n)
    BY <1>1 DEF DirectStep, DirectStart, DirectFail
  <2>2. CASE DirectOpen(f)
    BY <2>2 DEF DirectOpen, TypeOK
  <2>3. ASSUME NEW n \in 0 .. maxBytes[f], DirectDone(f, n)
        PROVE  FALSE
    <3>1. n # Gone
      <4>1. maxBytes[f] \in Nat
        BY DEF TypeOK, Sizes
      <4>2. n \in Nat
        BY <4>1
      <4> QED
        BY <4>2
    <3>2. stored' = stored \/ stored' = [stored EXCEPT ![f] = n]
      BY <2>3 DEF DirectDone, WriteThrough
    <3> QED
      BY <3>1, <3>2 DEF TypeOK
  <2>4. CASE DirectBreak(f)
    <3>1. g = f /\ request[f] \in {"opening", "streaming"} /\ request'[f] = "failing"
      BY <2>4 DEF DirectBreak, TypeOK
    <3>2. status[f] = "uploading"
      BY <3>1 DEF Working, Over
    <3> QED
      BY <3>1, <3>2 DEF BreaksOff
  <2>5. CASE DirectDiscard(f)
    <3>1. g = f /\ request[f] = "discarding"
      BY <2>5, RemovalIsQuiet DEF DirectDiscard
    <3> QED
      BY <3>1 DEF Working, Over
  <2> QED
    BY <2>1, <2>2, <2>3, <2>4, <2>5
<1>2. ASSUME NEW f \in TusFiles, TusStep(f)
      PROVE  s = "uploading" /\ request[g] = "removing"
  <2> f \in Files
    BY DEF Files
  <2>1. stored' = stored \/ TusCreated(f) \/ TusRemove(f) \/ \E n \in Sizes : TusWrite(f, n)
    BY <1>2 DEF TusStep, TusCreate, TusArrive, TusLock, TusBegin, TusWait, TusRefuse,
                TusFinish, TusTerminated
  <2>2. CASE TusCreated(f)
    BY <2>2 DEF TusCreated, TypeOK
  <2>3. ASSUME NEW n \in Sizes, TusWrite(f, n)
        PROVE  FALSE
    <3>1. n # Gone
      BY DEF Sizes
    <3>2. stored' = stored \/ stored' = [stored EXCEPT ![f] = n]
      BY <2>3 DEF TusWrite, WriteThrough
    <3> QED
      BY <3>1, <3>2 DEF TypeOK
  <2>4. CASE TusRemove(f)
    <3>1. g = f /\ request[f] = "removing"
      BY <2>4, RemovalIsQuiet DEF TusRemove
    <3> QED
      BY <3>1 DEF Working, Written
  <2> QED
    BY <2>1, <2>2, <2>3, <2>4
<1>3. ASSUME NEW f \in Files, FileStep(f)
      PROVE  s = "complete" /\ away'[g] # Gone
  <2>1. stored' = stored \/ FileDeleteData(f) \/ StorageLoss(f) \/ StorageReturn(f)
    BY <1>3 DEF FileStep, FileDelete
  <2>2. CASE FileDeleteData(f)
    <3>1. g = f /\ f \in deleting
      BY <2>2, RemovalIsQuiet DEF FileDeleteData
    <3> QED
      BY <3>1 DEF Ending
  <2>3. CASE StorageLoss(f)
    BY <2>3 DEF StorageLoss, TypeOK
  <2>4. CASE StorageReturn(f)
    BY <2>4 DEF StorageReturn, TypeOK
  <2> QED
    BY <2>1, <2>2, <2>3, <2>4
<1>4. ASSUME NEW p \in Discarders, NEW f \in Files, Discard(p, f) \/ Discarded(p, f)
      PROVE  Listed(g)
  <2>1. Discard(p, f)
    BY <1>4 DEF Discarded
  <2>2. g = f
    BY <2>1, RemovalIsQuiet DEF Discard
  <2> QED
    BY <2>1, <2>2 DEF Discard, Listed
<1>5. ASSUME NEW c \in Cleaners, CleanStep(c) \/ CleanQuit(c)
      PROVE  FALSE
  <2>1. PICK f \in Files : CleanOrphan(c, f)
    BY <1>5 DEF CleanStep, CleanQuit, CleanExpire, CleanVerify, CleanStat, CleanMiss,
                CleanSweep, CleanEnd, Stage
  <2>2. g = f /\ f \in todo[c] /\ cleaning[c] = "sweep"
    BY <2>1 DEF CleanOrphan, TypeOK
  <2> QED
    BY <2>2 DEF Ending, Dropped, Over
<1>6. CASE (\E l \in Links : LinkBlocks(l) \/ Revoke(l)) \/ Crash \/ UNCHANGED vars
  BY <1>6 DEF LinkBlocks, Revoke, Crash, vars
<1> QED
  BY <1>1, <1>2, <1>3, <1>4, <1>5, <1>6 DEF Next

\* The data of a complete row goes only if storage loses it, or if a discarding
\* loop had listed the file while it was unfinished: neither the sweep, nor a
\* deletion, nor a late termination or error of its own request takes it.
THEOREM FinishedKept == Spec => FinishedDataKept
<1>1. TypeOK /\ DataInv /\ [Next]_vars
          => [\A f \in Files : DataGoes(f, "complete") => Listed(f) \/ away'[f] # Gone]_vars
  BY LossExplained
<1> QED
  BY <1>1, UploadsTypeCorrect, DataInvHolds, PTL DEF Spec, FinishedDataKept

\* The data of an upload under way goes only by such a loop, by its client's own
\* termination, or by put's own removal when its request broke off: no other
\* upload's request takes it, and neither does the orphan sweep.
THEOREM UploadKept == Spec => UploadDataKept
<1>1. TypeOK /\ DataInv /\ [Next]_vars
          => [\A f \in Files : DataGoes(f, "uploading") =>
                  Listed(f) \/ request[f] = "removing" \/ BreaksOff(f)]_vars
  BY LossExplained
<1> QED
  BY <1>1, UploadsTypeCorrect, DataInvHolds, PTL DEF Spec, UploadDataKept

-----------------------------------------------------------------------------
(* How far the program departs from its documents, at most.                *)

\* The sweep removes artefacts of rows that were given up, deleted or flagged
\* missing, and of no others, however old its list of live keys has grown: the
\* missing ones are the only records that MissingNotSwept finds it to touch.
SweepTakesDropped ==
    [][\A c \in Cleaners, f \in Files : CleanOrphan(c, f) => status[f] \in Dropped]_vars

\* It holds since a sweep works off what Ending says of its list.
THEOREM SweepSpares == Spec => SweepTakesDropped
<1>1. DataInv => \A c \in Cleaners, f \in Files : CleanOrphan(c, f) => status[f] \in Dropped
  BY DEF DataInv, Ending, CleanOrphan
<1> QED
  BY <1>1, DataInvHolds, PTL DEF SweepTakesDropped

\* A direct upload that is answered 201 is complete and has the size of the
\* answer, or was aborted or expired while it streamed: nothing else comes
\* between the last byte and the answer (http/public.ts).
AnsweredCompleteOrOver ==
    [][\A f \in DirectFiles : \A n \in Sizes :
        DirectDone(f, n) =>
            \/ status'[f] = "complete" /\ size'[f] = n
            \/ status[f] \in Over /\ status'[f] = status[f]]_vars

\* It holds since Working says which rows a request that streams may find.
THEOREM Answered == Spec => AnsweredCompleteOrOver
<1>1. TypeOK /\ DataInv => \A f \in DirectFiles : \A n \in Sizes :
        DirectDone(f, n) =>
            \/ status'[f] = "complete" /\ size'[f] = n
            \/ status[f] \in Over /\ status'[f] = status[f]
  <2> SUFFICES ASSUME TypeOK, DataInv, NEW f \in DirectFiles, NEW n \in Sizes, DirectDone(f, n)
               PROVE  \/ status'[f] = "complete" /\ size'[f] = n
                      \/ status[f] \in Over /\ status'[f] = status[f]
    OBVIOUS
  <2>1. f \in Files
    BY DEF Files
  <2>2. status[f] \in {"uploading"} \cup Over
    BY <2>1 DEF DirectDone, DataInv, FileInv, Working
  <2> QED
    BY <2>1, <2>2, CompleteNew DEF DirectDone
<1> QED
  BY <1>1, UploadsTypeCorrect, DataInvHolds, PTL DEF AnsweredCompleteOrOver

-----------------------------------------------------------------------------
(* What the tus endpoint promises: every step of the uploads is one step   *)
(* of TusUploads, or none.                                                 *)

TusPromise == [Tus!Next]_Tus!tus

\* The refinement mapping, by names.
LengthOf    == [f \in TusFiles |-> IF declared[f] = Unknown THEN 0 ELSE declared[f]]
OffsetOf    == [f \in TusFiles |-> IF stored[f] = Gone THEN 0 ELSE stored[f]]
KeptSet     == {f \in TusFiles : stored[f] # Gone}
CreatingSet == {f \in TusFiles : request[f] = "creating"}

\* What TusUploads sees of a file, and who leaves it alone.
Same(g) ==
    /\ status'[g] = status[g] /\ declared'[g] = declared[g] /\ stored'[g] = stored[g]
    /\ request'[g] = "creating" <=> request[g] = "creating"

SameRow(g) == status'[g] = status[g] /\ declared'[g] = declared[g]

LEMMA AllSame ==
    ASSUME \A g \in TusFiles : Same(g)
    PROVE  UNCHANGED Tus!tus
BY DEF Same, Tus!tus, TusState

LEMMA NothingSeen ==
    ASSUME UNCHANGED <<rows, request, stored>>
    PROVE  TusPromise
BY AllSame DEF Same, TusPromise, rows

\* A file loses its data, whoever takes it.
LEMMA LossSeen ==
    ASSUME TypeOK, NEW f \in Files, stored' \in {stored, [stored EXCEPT ![f] = Gone]},
           \A g \in TusFiles : SameRow(g) /\ (request'[g] = "creating" <=> request[g] = "creating")
    PROVE  TusPromise
<1>1. CASE f \in TusFiles /\ stored' # stored
  <2>1. stored[f] # Gone /\ stored' = [stored EXCEPT ![f] = Gone]
    BY <1>1 DEF TypeOK
  <2>2. \A g \in TusFiles : g \in Files
    BY DEF Files
  <2>3. \A g \in TusFiles : stored'[g] = IF g = f THEN Gone ELSE stored[g]
    BY <2>1, <2>2 DEF TypeOK
  <2>4. KeptSet' = KeptSet \ {f} /\ f \in KeptSet
    BY <1>1, <2>1, <2>3 DEF KeptSet
  <2>5. OffsetOf' = [OffsetOf EXCEPT ![f] = 0]
    BY <2>3 DEF OffsetOf
  <2>6. Tus!Lose(f)
    BY <2>4, <2>5 DEF Tus!Lose, SameRow, TusState, KeptSet, OffsetOf
  <2> QED
    BY <1>1, <2>6 DEF TusPromise, Tus!Next
<1>2. CASE ~(f \in TusFiles /\ stored' # stored)
  <2>1. \A g \in TusFiles : stored'[g] = stored[g]
    BY <1>2 DEF TypeOK, Files
  <2> QED
    BY <2>1, AllSame DEF Same, SameRow, TusPromise
<1> QED
  BY <1>1, <1>2

LEMMA RemovalSeen ==
    ASSUME TypeOK, NEW f \in Files, RemoveArtefacts(f),
           \A g \in TusFiles : SameRow(g) /\ (request'[g] = "creating" <=> request[g] = "creating")
    PROVE  TusPromise
BY LossSeen DEF RemoveArtefacts, storage

\* A row ends, or was over already.
LEMMA EndSeen ==
    ASSUME TypeOK, NEW f \in Files,
           (\E to \in Over : failUpload(f, to)) \/ markMissing(f) \/ markDeleted(f),
           stored' = stored,
           \A g \in TusFiles : request'[g] = "creating" <=> request[g] = "creating"
    PROVE  TusPromise
<1>1. \A g \in TusFiles : g \in Files
  BY DEF Files
<1>2. CASE UNCHANGED rows
  BY <1>2, AllSame DEF Same, TusPromise, rows
<1>3. ASSUME NEW to \in Over, failUpload(f, to), status[f] = "uploading"
      PROVE  TusPromise
  <2>1. status' = [status EXCEPT ![f] = to] /\ declared' = declared
    BY <1>3 DEF failUpload
  <2>2. CASE f \in TusFiles
    <3>1. Tus!Becomes(f, "uploading", "over")
      BY <1>1, <1>3, <2>1, <2>2 DEF Tus!Becomes, TusState, TypeOK, Over
    <3>2. Tus!End(f)
      BY <2>1, <3>1 DEF Tus!End
    <3> QED
      BY <2>2, <3>2 DEF TusPromise, Tus!Next
  <2>3. CASE f \notin TusFiles
    BY <1>1, <2>1, <2>3, AllSame DEF Same, TusPromise, TypeOK
  <2> QED
    BY <2>2, <2>3
<1>4. ASSUME markMissing(f) \/ markDeleted(f), ~ UNCHANGED rows
      PROVE  TusPromise
  <2>1. PICK to \in {"missing", "deleted"} :
            /\ status' = [status EXCEPT ![f] = to] /\ declared' = declared
            /\ status[f] \in {"complete", "missing"}
    BY <1>4 DEF markMissing, markDeleted, rows
  <2>2. CASE f \in TusFiles /\ status[f] = "complete"
    <3>1. Tus!Becomes(f, "complete", "removed")
      BY <1>1, <2>1, <2>2 DEF Tus!Becomes, TusState, TypeOK
    <3>2. Tus!End(f)
      BY <2>1, <3>1 DEF Tus!End
    <3> QED
      BY <2>2, <3>2 DEF TusPromise, Tus!Next
  <2>3. CASE ~(f \in TusFiles /\ status[f] = "complete")
    <3>1. \A g \in TusFiles : TusState(g)' = TusState(g)
      BY <1>1, <2>1, <2>3 DEF TusState, TypeOK
    <3> QED
      BY <2>1, <3>1 DEF TusPromise, Tus!tus
  <2> QED
    BY <2>2, <2>3
<1> QED
  BY <1>2, <1>3, <1>4 DEF failUpload

\* A step of a direct upload is none of a resumable one.
LEMMA DirectSeen ==
    ASSUME TypeOK, NEW f \in DirectFiles, DirectStep(f)
    PROVE  TusPromise
<1> f \in Files /\ \A g \in TusFiles : g \in Files /\ g # f
  BY DEF Files
<1> USE DEF requests, storage, loops
<1> SUFFICES \A g \in TusFiles : Same(g)
  BY AllSame DEF TusPromise
<1>1. ASSUME NEW l \in Links, DirectStart(f, l)
      PROVE  \A g \in TusFiles : Same(g)
  BY <1>1 DEF DirectStart, reserveUpload, Same, TypeOK
<1>2. CASE DirectOpen(f)
  BY <1>2 DEF DirectOpen, rows, Same, TypeOK
<1>3. ASSUME NEW n \in 0 .. maxBytes[f], DirectDone(f, n)
      PROVE  \A g \in TusFiles : Same(g)
  BY <1>3 DEF DirectDone, WriteThrough, completeUpload, rows, Same, TypeOK
<1>4. CASE DirectFail(f)
  BY <1>4 DEF DirectFail, failUpload, rows, Same, TypeOK
<1>5. CASE DirectDiscard(f)
  BY <1>5, RemovalIsQuiet DEF DirectDiscard, rows, Same, TypeOK
<1>6. CASE DirectBreak(f)
  BY <1>6 DEF DirectBreak, rows, Same, TypeOK
<1> QED
  BY <1>1, <1>2, <1>3, <1>4, <1>5, <1>6 DEF DirectStep

\* A POST: the row, and then its data.
LEMMA CreateSeen ==
    ASSUME TypeOK, NEW f \in TusFiles, NEW l \in Links, TusCreate(f, l)
    PROVE  TusPromise
<1> f \in Files /\ \A g \in TusFiles : g \in Files
  BY DEF Files
<1>1. PICK d \in SizesOf(l) : reserveUpload(f, l, d)
  BY DEF TusCreate
<1>2. d \in Sizes /\ d # Unknown
  <2>1. d \in Sizes
    BY LimitsType DEF SizesOf, Sizes
  <2> QED
    BY <2>1 DEF Sizes
<1>3. /\ status[f] = "none" /\ status' = [status EXCEPT ![f] = "uploading"]
      /\ declared' = [declared EXCEPT ![f] = d]
      /\ request' = [request EXCEPT ![f] = "creating"] /\ stored' = stored
  BY <1>1 DEF TusCreate, reserveUpload, storage
<1>4. Tus!Becomes(f, "none", "uploading")
  BY <1>3 DEF Tus!Becomes, TusState, TypeOK
<1>5. LengthOf' = [LengthOf EXCEPT ![f] = d]
  <2>1. \A g \in TusFiles : declared'[g] = IF g = f THEN d ELSE declared[g]
    BY <1>3 DEF TypeOK
  <2> QED
    BY <1>2, <2>1 DEF LengthOf
<1>6. CreatingSet' = CreatingSet \cup {f}
  BY <1>3 DEF CreatingSet, TypeOK
<1>7. Tus!Create(f, d)
  BY <1>3, <1>4, <1>5, <1>6 DEF Tus!Create, LengthOf, CreatingSet
<1> QED
  BY <1>2, <1>7 DEF TusPromise, Tus!Next

LEMMA CreatedSeen ==
    ASSUME TypeOK, NEW f \in TusFiles, FileInv(f), TusCreated(f)
    PROVE  TusPromise
<1> f \in Files /\ \A g \in TusFiles : g \in Files
  BY DEF Files
<1>1. /\ request[f] = "creating" /\ stored[f] = Gone
      /\ UNCHANGED <<status, declared>>
      /\ stored' \in {stored, [stored EXCEPT ![f] = 0]}
  BY DEF TusCreated, FileInv, Working, rows
<1>2. PICK next \in {"none", "writing", "finishing"} : request' = [request EXCEPT ![f] = next]
  BY DEF TusCreated
<1>3. CASE stored' = stored
  <2>1. Tus!Break
    BY <1>1, <1>2, <1>3 DEF Tus!Break, TusState, TypeOK
  <2> QED
    BY <2>1 DEF TusPromise, Tus!Next
<1>4. CASE stored' = [stored EXCEPT ![f] = 0]
  <2>1. \A g \in TusFiles :
            /\ g = f => stored[g] = Gone /\ stored'[g] = 0 /\ request'[g] # "creating"
            /\ g # f => stored'[g] = stored[g] /\ request'[g] = request[g]
    BY <1>1, <1>2, <1>4 DEF TypeOK
  <2>2. /\ KeptSet' = KeptSet \cup {f} /\ f \notin KeptSet
        /\ CreatingSet' = CreatingSet \ {f} /\ f \in CreatingSet
    BY <1>1, <2>1 DEF KeptSet, CreatingSet
  <2>3. OffsetOf' = OffsetOf
    BY <2>1 DEF OffsetOf
  <2>4. Tus!Open(f)
    BY <1>1, <2>2, <2>3 DEF Tus!Open, TusState, KeptSet, CreatingSet, OffsetOf
  <2> QED
    BY <2>4 DEF TusPromise, Tus!Next
<1> QED
  BY <1>1, <1>3, <1>4

\* A PATCH gets through to offset n, unless the data was discarded meanwhile.
LEMMA WriteSeen ==
    ASSUME TypeOK, NEW f \in TusFiles, FileInv(f), NEW n \in Sizes, TusWrite(f, n)
    PROVE  TusPromise
<1> f \in Files /\ \A g \in TusFiles : g \in Files
  BY DEF Files
<1>1. /\ request[f] = "writing" /\ n <= declared[f] /\ UNCHANGED <<status, declared>>
      /\ stored[f] # Gone => n >= stored[f]
      /\ WriteThrough(f, n)
  BY DEF TusWrite, rows
<1>2. \A g \in TusFiles : request'[g] = "creating" <=> request[g] = "creating"
  BY <1>1 DEF TusWrite, TypeOK
<1>3. status[f] # "none" /\ declared[f] \in Sizes
  BY <1>1 DEF FileInv, Working, Stored
<1>4. n \in Nat /\ declared[f] \in Nat /\ n # Gone
  BY <1>3 DEF Sizes
<1>5. CASE stored[f] = Gone \/ stored[f] = n
  <2>1. \A g \in TusFiles : stored'[g] = stored[g]
    BY <1>1, <1>5 DEF WriteThrough, TypeOK
  <2> QED
    BY <1>1, <1>2, <2>1, AllSame DEF Same, TusPromise
<1>6. CASE stored[f] # Gone /\ stored[f] # n
  <2>1. stored[f] \in Nat /\ stored[f] <= n
    BY <1>1, <1>6 DEF TypeOK, Sizes
  <2>2. status[f] \notin Written
    <3>1. status[f] \in Written => stored[f] = declared[f]
      BY <1>6 DEF FileInv, Stored
    <3> QED
      BY <1>1, <1>4, <1>6, <2>1, <3>1
  <2>3. TusState(f) \in {"uploading", "over"}
    BY <1>3, <2>2 DEF TusState, TypeOK, Written
  <2>4. \A g \in TusFiles : stored'[g] = IF g = f THEN n ELSE stored[g]
    BY <1>1, <1>6 DEF WriteThrough, TypeOK
  <2>5. KeptSet' = KeptSet /\ f \in KeptSet /\ CreatingSet' = CreatingSet
    BY <1>2, <1>4, <1>6, <2>4 DEF KeptSet, CreatingSet
  <2>6. OffsetOf' = [OffsetOf EXCEPT ![f] = n] /\ OffsetOf[f] <= n
    BY <1>4, <1>6, <2>1, <2>4 DEF OffsetOf
  <2>7. LengthOf' = LengthOf /\ LengthOf[f] = declared[f]
    <3>1. declared[f] # Unknown
      BY <1>4
    <3> QED
      BY <1>1, <3>1 DEF LengthOf
  <2>8. Tus!Append(f, n)
    BY <1>1, <2>3, <2>5, <2>6, <2>7
       DEF Tus!Append, TusState, KeptSet, CreatingSet, OffsetOf, LengthOf
  <2>9. n \in 0 .. LengthOf[f]
    BY <1>1, <1>4, <2>7
  <2> QED
    BY <2>8, <2>9 DEF TusPromise, Tus!Next, LengthOf
<1> QED
  BY <1>5, <1>6

\* onUploadFinish completes an upload that was written to its end, or finds a
\* row that is not its own any more and leaves it.
LEMMA FinishSeen ==
    ASSUME TypeOK, NEW f \in TusFiles, FileInv(f), TusFinish(f)
    PROVE  TusPromise
<1> f \in Files /\ \A g \in TusFiles : g \in Files
  BY DEF Files
<1>1. /\ request[f] = "finishing" /\ completeUpload(f, declared[f]) /\ stored' = stored
      /\ \A g \in TusFiles : request'[g] = "creating" <=> request[g] = "creating"
  BY DEF TusFinish, TypeOK
<1>2. CASE status[f] # "uploading"
  BY <1>1, <1>2, AllSame DEF completeUpload, rows, Same, TusPromise
<1>3. CASE status[f] = "uploading"
  <2>1. status' = [status EXCEPT ![f] = "complete"] /\ declared' = declared
    BY <1>1, <1>3 DEF completeUpload
  <2>2. Tus!Becomes(f, "uploading", "complete")
    BY <1>3, <2>1 DEF Tus!Becomes, TusState, TypeOK
  <2>3. f \in KeptSet => OffsetOf[f] = LengthOf[f]
    <3>1. stored[f] \in {Gone, declared[f]} /\ declared[f] \in Nat
      BY <1>1, <1>3 DEF FileInv, Stored, Sizes
    <3> QED
      BY <3>1 DEF KeptSet, OffsetOf, LengthOf
  <2>4. f \notin CreatingSet /\ CreatingSet' = CreatingSet
    BY <1>1 DEF CreatingSet
  <2>5. Tus!Complete(f)
    BY <1>1, <2>1, <2>2, <2>3, <2>4
       DEF Tus!Complete, KeptSet, CreatingSet, OffsetOf, LengthOf
  <2> QED
    BY <2>5 DEF TusPromise, Tus!Next
<1> QED
  BY <1>2, <1>3

LEMMA TusSeen ==
    ASSUME TypeOK, NEW f \in TusFiles, FileInv(f), TusStep(f)
    PROVE  TusPromise
<1> f \in Files /\ \A g \in TusFiles : g \in Files
  BY DEF Files
<1> USE DEF requests, storage, loops
<1>1. ASSUME NEW method \in {"PATCH", "DELETE"}, TusArrive(f, method) \/ TusLock(f, method)
      PROVE  TusPromise
  <2>1. /\ UNCHANGED rows /\ stored' = stored /\ request[f] = "none"
        /\ request' \in {[request EXCEPT ![f] = "writing"], [request EXCEPT ![f] = "removing"]}
    BY <1>1 DEF TusArrive, TusLock, TusBegin
  <2> QED
    BY <2>1, AllSame DEF Same, TusPromise, rows, TypeOK
<1>2. ASSUME NEW method \in {"PATCH", "DELETE"}, TusWait(f, method) \/ TusRefuse(f, method)
      PROVE  TusPromise
  BY <1>2, NothingSeen DEF TusWait, TusRefuse
<1>3. CASE TusRemove(f)
  <2>1. \A g \in TusFiles : SameRow(g) /\ (request'[g] = "creating" <=> request[g] = "creating")
    BY <1>3 DEF TusRemove, SameRow, rows, TypeOK
  <2> QED
    BY <1>3, <2>1, RemovalSeen DEF TusRemove
<1>4. CASE TusTerminated(f)
  <2>1. /\ failUpload(f, "aborted") /\ "aborted" \in Over /\ stored' = stored
        /\ \A g \in TusFiles : request'[g] = "creating" <=> request[g] = "creating"
    BY <1>4 DEF TusTerminated, Over, TypeOK
  <2> QED
    BY <2>1, EndSeen
<1> QED
  BY <1>1, <1>2, <1>3, <1>4, CreateSeen, CreatedSeen, WriteSeen, FinishSeen DEF TusStep

\* Deletion, loss and return.
LEMMA FileSeen ==
    ASSUME TypeOK, NEW f \in Files, FileInv(f), FileStep(f)
    PROVE  TusPromise
<1> USE DEF requests, storage, loops
<1>1. CASE FileDelete(f)
  BY <1>1, EndSeen DEF FileDelete
<1>2. CASE FileDeleteData(f)
  BY <1>2, RemovalSeen DEF FileDeleteData, SameRow, rows
<1>3. CASE StorageLoss(f)
  BY <1>3, LossSeen DEF StorageLoss, SameRow, rows
<1>4. CASE StorageReturn(f)
  <2>1. /\ UNCHANGED <<status, declared, request>> /\ away[f] # Gone
        /\ stored' = [stored EXCEPT ![f] = away[f]]
    BY <1>4 DEF StorageReturn, rows
  <2>2. status[f] \in Written /\ stored[f] = Gone /\ away[f] = size[f]
    BY <2>1 DEF FileInv, Stored
  <2>3. CASE f \notin TusFiles
    BY <2>1, <2>3, AllSame DEF Same, TusPromise, TypeOK, Files
  <2>4. CASE f \in TusFiles
    <3>1. away[f] = declared[f] /\ declared[f] \in Nat
      BY <2>2, <2>4 DEF FileInv, Stored, Written, Sizes
    <3>2. \A g \in TusFiles : stored'[g] = IF g = f THEN away[f] ELSE stored[g]
      BY <2>1 DEF TypeOK, Files
    <3>3. KeptSet' = KeptSet \cup {f} /\ f \notin KeptSet
      BY <2>1, <2>2, <2>4, <3>2 DEF KeptSet
    <3>4. OffsetOf' = [OffsetOf EXCEPT ![f] = LengthOf[f]]
      BY <2>1, <3>1, <3>2 DEF OffsetOf, LengthOf
    <3>5. TusState(f) \in {"complete", "removed"}
      BY <2>2 DEF TusState, Written
    <3>6. Tus!Return(f)
      BY <2>1, <2>4, <3>3, <3>4, <3>5 DEF Tus!Return, TusState, KeptSet, OffsetOf, LengthOf
    <3> QED
      BY <2>4, <3>6 DEF TusPromise, Tus!Next
  <2> QED
    BY <2>3, <2>4
<1> QED
  BY <1>1, <1>2, <1>3, <1>4 DEF FileStep

\* The loops and the cleanup, and the crash that breaks every creation off.
LEMMA LoopSeen ==
    ASSUME TypeOK,
           \/ \E l \in Links : LinkBlocks(l) \/ Revoke(l)
           \/ \E p \in Discarders, f \in Files : Discard(p, f) \/ Discarded(p, f)
           \/ \E c \in Cleaners : CleanStep(c) \/ CleanQuit(c)
           \/ Crash
           \/ UNCHANGED vars
    PROVE  TusPromise
<1> USE DEF requests, storage, loops
<1>1. ASSUME NEW l \in Links, LinkBlocks(l) \/ Revoke(l)
      PROVE  TusPromise
  BY <1>1, NothingSeen DEF LinkBlocks, Revoke
<1>2. ASSUME NEW p \in Discarders, NEW f \in Files, Discard(p, f)
      PROVE  TusPromise
  BY <1>2, RemovalSeen DEF Discard, SameRow, rows
<1>3. ASSUME NEW p \in Discarders, NEW f \in Files, Discarded(p, f)
      PROVE  TusPromise
  <2>1. \E to \in Over : failUpload(f, to)
    BY <1>3 DEF Discarded, Over
  <2> QED
    BY <1>3, <2>1, EndSeen DEF Discarded
<1>4. ASSUME NEW c \in Cleaners, CleanStep(c)
      PROVE  TusPromise
  <2>1. ASSUME NEW f \in Files, CleanMiss(c, f)
        PROVE  TusPromise
    BY <2>1, EndSeen DEF CleanMiss
  <2>2. ASSUME NEW f \in Files, CleanOrphan(c, f)
        PROVE  TusPromise
    BY <2>2, LossSeen DEF CleanOrphan, SameRow, rows
  <2>3. ASSUME NEW f \in Files, CleanStat(c, f)
        PROVE  TusPromise
    BY <2>3, NothingSeen DEF CleanStat
  <2>4. ASSUME NEW S \in SUBSET Files,
               CleanExpire(c, S) \/ CleanVerify(c) \/ CleanSweep(c, S) \/ CleanEnd(c)
        PROVE  TusPromise
    BY <2>4, NothingSeen DEF CleanExpire, CleanVerify, CleanSweep, CleanEnd, Stage
  <2> QED
    BY <1>4, <2>1, <2>2, <2>3, <2>4 DEF CleanStep
<1>5. ASSUME NEW c \in Cleaners, CleanQuit(c)
      PROVE  TusPromise
  BY <1>5, NothingSeen DEF CleanQuit
<1>6. CASE Crash
  <2>1. /\ UNCHANGED <<status, declared, stored>>
        /\ \A g \in TusFiles : request'[g] # "creating"
    BY <1>6 DEF Crash, rows, Files
  <2>2. CreatingSet' = {}
    BY <2>1 DEF CreatingSet
  <2>3. Tus!Break
    BY <2>1, <2>2 DEF Tus!Break, TusState, CreatingSet
  <2> QED
    BY <2>3 DEF TusPromise, Tus!Next
<1>7. CASE UNCHANGED vars
  BY <1>7, NothingSeen DEF vars
<1> QED
  BY <1>1, <1>2, <1>3, <1>4, <1>5, <1>6, <1>7

\* Whatever waits, loops and crashes between the steps of a request, the tus
\* endpoint keeps what it promises of every upload: bytes that got through stay
\* until all are discarded, discarded data never comes back in part, and only an
\* upload under way that was written to its end completes (http/tus.ts).
THEOREM UploadsImplementTus == Spec => TusSpec
<1>1. Init => Tus!Init
  BY DEF Init, Tus!Init, TusState, Files
<1>2. RowInv /\ DataInv /\ [Next]_vars => TusPromise
  BY DirectSeen, TusSeen, FileSeen, LoopSeen DEF Next, RowInv, DataInv, Files
<1> QED
  BY <1>1, <1>2, RowInvHolds, DataInvHolds, PTL DEF Spec, TusSpec, Tus!Spec, TusPromise

-----------------------------------------------------------------------------
(* What the liveness properties say that comes to stay does stay, once it  *)
(* is reached; that it is reached needs fairness, and is model-checked.    *)

\* What a step makes of a row: it is inserted on an active link, completed, or
\* ended, or it stays; and its link never changes.
RowStep(g) ==
    \/ /\ link'[g] = link[g]
       /\ Advances(g) \/ (status[g] = "uploading" /\ status'[g] = "complete")
    \/ status[g] = "none" /\ link'[g] \in Links /\ linkState[link'[g]] = "active"

LEMMA StatementSteps ==
    ASSUME TypeOK, NEW f \in Files,
           \/ \E to \in Over : failUpload(f, to)
           \/ markMissing(f) \/ markDeleted(f)
           \/ \E n \in Sizes \cup {Unknown} : completeUpload(f, n)
           \/ UNCHANGED rows
    PROVE  \A g \in Files : RowStep(g)
<1>1. link' = link
  BY DEF failUpload, markMissing, markDeleted, completeUpload, rows
<1>2. \A g \in Files : Advances(g) \/ (status[g] = "uploading" /\ status'[g] = "complete")
  <2>1. ASSUME NEW n, completeUpload(f, n)
        PROVE  \A g \in Files : Advances(g) \/ (status[g] = "uploading" /\ status'[g] = "complete")
    BY <2>1, CompleteNew DEF Advances
  <2> QED
    BY <2>1, FailAdvances, MarkAdvances, NoRows
<1> QED
  BY <1>1, <1>2 DEF RowStep

LEMMA InsertSteps ==
    ASSUME TypeOK, NEW f \in Files, NEW l \in Links, NEW d, reserveUpload(f, l, d),
           linkState[l] = "active"
    PROVE  \A g \in Files : RowStep(g)
<1>1. status[f] = "none" /\ link' = [link EXCEPT ![f] = l]
  BY DEF reserveUpload
<1>2. link'[f] = l /\ \A g \in Files \ {f} : link'[g] = link[g]
  BY <1>1 DEF TypeOK
<1> QED
  BY <1>1, <1>2, ReserveNew DEF RowStep

LEMMA RowSteps ==
    ASSUME TypeOK, [Next]_vars
    PROVE  \A g \in Files : RowStep(g)
<1>1. ASSUME UNCHANGED rows PROVE \A g \in Files : RowStep(g)
  BY <1>1, NoRows DEF RowStep, rows
<1>2. ASSUME NEW f \in DirectFiles, DirectStep(f) PROVE \A g \in Files : RowStep(g)
  <2> f \in Files
    BY DEF Files
  <2>1. ASSUME NEW l \in Links, DirectStart(f, l) PROVE \A g \in Files : RowStep(g)
    BY <2>1, InsertSteps DEF DirectStart
  <2>2. ASSUME NEW n \in 0 .. maxBytes[f], DirectDone(f, n) PROVE \A g \in Files : RowStep(g)
    <3>1. n \in Sizes
      BY DEF TypeOK, Sizes
    <3> QED
      BY <2>2, <3>1, StatementSteps DEF DirectDone
  <2>3. CASE DirectFail(f)
    BY <2>3, StatementSteps DEF DirectFail, Over
  <2>4. CASE DirectOpen(f) \/ DirectBreak(f) \/ DirectDiscard(f)
    BY <1>1, <2>4 DEF DirectOpen, DirectBreak, DirectDiscard
  <2> QED
    BY <1>2, <2>1, <2>2, <2>3, <2>4 DEF DirectStep
<1>3. ASSUME NEW f \in TusFiles, TusStep(f) PROVE \A g \in Files : RowStep(g)
  <2> f \in Files
    BY DEF Files
  <2>1. ASSUME NEW l \in Links, TusCreate(f, l) PROVE \A g \in Files : RowStep(g)
    BY <2>1, InsertSteps DEF TusCreate
  <2>2. CASE TusFinish(f)
    <3>1. declared[f] \in Sizes \cup {Unknown}
      BY DEF TypeOK
    <3> QED
      BY <2>2, <3>1, StatementSteps DEF TusFinish
  <2>3. CASE TusTerminated(f)
    BY <2>3, StatementSteps DEF TusTerminated, Over
  <2>4. ASSUME NEW method \in {"PATCH", "DELETE"},
               \/ TusArrive(f, method) \/ TusWait(f, method)
               \/ TusLock(f, method) \/ TusRefuse(f, method)
        PROVE  \A g \in Files : RowStep(g)
    BY <1>1, <2>4 DEF TusArrive, TusWait, TusLock, TusRefuse, TusBegin
  <2>5. (\E n \in Sizes : TusWrite(f, n)) \/ TusCreated(f) \/ TusRemove(f)
            => \A g \in Files : RowStep(g)
    BY <1>1 DEF TusWrite, TusCreated, TusRemove
  <2> QED
    BY <1>3, <2>1, <2>2, <2>3, <2>4, <2>5 DEF TusStep
<1>4. ASSUME NEW f \in Files, FileStep(f) PROVE \A g \in Files : RowStep(g)
  <2>1. CASE FileDelete(f)
    BY <2>1, StatementSteps DEF FileDelete
  <2>2. CASE FileDeleteData(f) \/ StorageLoss(f) \/ StorageReturn(f)
    BY <1>1, <2>2 DEF FileDeleteData, StorageLoss, StorageReturn
  <2> QED
    BY <1>4, <2>1, <2>2 DEF FileStep
<1>5. ASSUME NEW p \in Discarders, NEW f \in Files, Discard(p, f) \/ Discarded(p, f)
      PROVE  \A g \in Files : RowStep(g)
  <2>1. CASE Discard(p, f)
    BY <1>1, <2>1 DEF Discard
  <2>2. CASE Discarded(p, f)
    <3>1. \E to \in Over : failUpload(f, to)
      BY <2>2 DEF Discarded, Over
    <3> QED
      BY <3>1, StatementSteps
  <2> QED
    BY <1>5, <2>1, <2>2
<1>6. ASSUME NEW c \in Cleaners, CleanStep(c) PROVE \A g \in Files : RowStep(g)
  <2>1. ASSUME NEW f \in Files, CleanMiss(c, f) PROVE \A g \in Files : RowStep(g)
    BY <2>1, StatementSteps DEF CleanMiss
  <2> QED
    BY <1>1, <1>6, <2>1 DEF CleanStep, CleanExpire, CleanVerify, CleanStat, CleanOrphan,
                            CleanSweep, CleanEnd, Stage
<1>7. (\E l \in Links : LinkBlocks(l) \/ Revoke(l)) \/ (\E c \in Cleaners : CleanQuit(c))
          \/ Crash \/ UNCHANGED vars => \A g \in Files : RowStep(g)
  BY <1>1 DEF LinkBlocks, Revoke, CleanQuit, Crash, vars
<1> QED
  BY <1>2, <1>3, <1>4, <1>5, <1>6, <1>7 DEF Next

Revoked(l) == linkState[l] = "revoked"
Drained(l) == RowsOf(l, "uploading") = {}

LEMMA StaysRevoked ==
    ASSUME TypeOK, [Next]_vars, NEW l \in Links, Revoked(l)
    PROVE  Revoked(l)'
<1>1. ASSUME NEW f \in DirectFiles, DirectStep(f) PROVE UNCHANGED linkState
  BY <1>1 DEF DirectStep, DirectStart, DirectOpen, DirectDone, DirectBreak, DirectFail,
    DirectDiscard
<1>2. ASSUME NEW f \in TusFiles, TusStep(f) PROVE UNCHANGED linkState
  BY <1>2 DEF TusStep, TusCreate, TusCreated, TusArrive, TusLock, TusBegin, TusWait,
              TusRefuse, TusWrite, TusFinish, TusRemove, TusTerminated
<1>3. ASSUME NEW f \in Files, FileStep(f) PROVE UNCHANGED linkState
  BY <1>3 DEF FileStep, FileDelete, FileDeleteData, StorageLoss, StorageReturn
<1>4. ASSUME NEW c \in Cleaners, CleanStep(c) \/ CleanQuit(c) PROVE UNCHANGED linkState
  BY <1>4 DEF CleanStep, CleanQuit, CleanExpire, CleanVerify, CleanStat, CleanMiss,
              CleanSweep, CleanOrphan, CleanEnd, Stage
<1>5. ASSUME NEW k \in Links, LinkBlocks(k) \/ Revoke(k) PROVE Revoked(l)'
  BY <1>5 DEF LinkBlocks, Revoke, Revoked, TypeOK
<1> QED
  BY <1>1, <1>2, <1>3, <1>4, <1>5 DEF Next, Discard, Discarded, Crash, vars, Revoked

LEMMA StaysDrained ==
    ASSUME TypeOK, [Next]_vars, NEW l \in Links, Revoked(l), Drained(l)
    PROVE  Drained(l)'
<1> SUFFICES ASSUME NEW f \in Files, status'[f] = "uploading", link'[f] = l PROVE FALSE
  BY DEF Drained, RowsOf, RowsIn
<1>1. status[f] # "uploading" \/ link[f] # l
  BY DEF Drained, RowsOf, RowsIn
<1> QED
  BY <1>1, RowSteps DEF RowStep, Advances, Over, Revoked

\* A revoked link that is rid of its unfinished uploads is rid of them for good:
\* no request that was let in before the revocation, no case that is reopened and
\* no late completion gives it another.
THEOREM DrainedForGood ==
    Spec => \A l \in Links : [](Revoked(l) /\ Drained(l) => []Drained(l))
<1>1. ASSUME NEW l \in Links
      PROVE  Spec => [](Revoked(l) /\ Drained(l) => []Drained(l))
  <2>1. TypeOK /\ [Next]_vars /\ Revoked(l) => Revoked(l)'
    BY StaysRevoked
  <2>2. TypeOK /\ [Next]_vars /\ Revoked(l) /\ Drained(l) => Drained(l)'
    BY StaysDrained
  <2> QED
    BY <2>1, <2>2, UploadsTypeCorrect, PTL DEF Spec
<1> QED
  BY <1>1

\* So what fairness has to bring about for RevokedDrained is that a revoked link
\* is without unfinished uploads once, by whichever loop gets there.
THEOREM DrainedOnce ==
    Spec /\ (\A l \in Links : linkState[l] = "revoked" ~> RowsOf(l, "uploading") = {})
        => RevokedDrained
<1>1. ASSUME NEW l \in Links
      PROVE  Spec => ((linkState[l] = "revoked" ~> RowsOf(l, "uploading") = {})
                        => (linkState[l] = "revoked" ~> [](RowsOf(l, "uploading") = {})))
  <2>1. TypeOK /\ [Next]_vars /\ Revoked(l) => Revoked(l)'
    BY StaysRevoked
  <2>2. TypeOK /\ [Next]_vars /\ Revoked(l) /\ Drained(l) => Drained(l)'
    BY StaysDrained
  <2> QED
    BY <2>1, <2>2, UploadsTypeCorrect, PTL DEF Spec, Revoked, Drained
<1> QED
  BY <1>1 DEF RevokedDrained

\* Nothing in storage, nothing that storage may bring back, and no creation
\* that is about to put something there; and so for a row that ended.
Empty(f) ==
    /\ ~HasArtefact(f) /\ away[f] = Gone
    /\ request[f] \notin {"opening", "creating"}

Swept(f) == Empty(f) /\ status[f] \in {"aborted", "expired", "deleted"}

LEMMA EmptyStays ==
    ASSUME TypeOK, [Next]_vars, NEW f \in Files, Empty(f), status[f] # "none"
    PROVE  Empty(f)'
<1> USE DEF requests, storage, loops, HasArtefact
<1>1. ASSUME NEW g \in DirectFiles, DirectStep(g) PROVE Empty(f)'
  <2> g \in Files
    BY DEF Files
  <2>1. ASSUME NEW l \in Links, DirectStart(g, l) PROVE Empty(f)'
    <3>1. g # f
      BY <2>1 DEF DirectStart, reserveUpload
    <3> QED
      BY <2>1, <3>1 DEF DirectStart, Empty, TypeOK
  <2>2. CASE DirectOpen(g)
    BY <2>2 DEF DirectOpen, Empty, TypeOK
  <2>3. ASSUME NEW n \in 0 .. maxBytes[g], DirectDone(g, n) PROVE Empty(f)'
    BY <2>3 DEF DirectDone, WriteThrough, Empty, TypeOK
  <2>4. CASE DirectBreak(g) \/ DirectFail(g)
    BY <2>4 DEF DirectBreak, DirectFail, Empty, TypeOK
  <2>5. CASE DirectDiscard(g)
    BY <2>5, RemovalIsQuiet DEF DirectDiscard, Empty, TypeOK
  <2> QED
    BY <1>1, <2>1, <2>2, <2>3, <2>4, <2>5 DEF DirectStep
<1>2. ASSUME NEW g \in TusFiles, TusStep(g) PROVE Empty(f)'
  <2> g \in Files
    BY DEF Files
  <2>1. ASSUME NEW l \in Links, TusCreate(g, l) PROVE Empty(f)'
    <3>1. g # f
      BY <2>1 DEF TusCreate, reserveUpload
    <3> QED
      BY <2>1, <3>1 DEF TusCreate, Empty, TypeOK
  <2>2. CASE TusCreated(g)
    BY <2>2 DEF TusCreated, Empty, TypeOK
  <2>3. ASSUME NEW method \in {"PATCH", "DELETE"},
               \/ TusArrive(g, method) \/ TusWait(g, method)
               \/ TusLock(g, method) \/ TusRefuse(g, method)
        PROVE  Empty(f)'
    BY <2>3 DEF TusArrive, TusWait, TusLock, TusRefuse, TusBegin, Empty, TypeOK
  <2>4. ASSUME NEW n \in Sizes, TusWrite(g, n) PROVE Empty(f)'
    BY <2>4 DEF TusWrite, WriteThrough, Empty, TypeOK
  <2>5. CASE TusFinish(g)
    BY <2>5 DEF TusFinish, Empty, TypeOK
  <2>6. CASE TusRemove(g)
    BY <2>6, RemovalIsQuiet DEF TusRemove, Empty, TypeOK
  <2>7. CASE TusTerminated(g)
    BY <2>7 DEF TusTerminated, Empty, TypeOK
  <2> QED
    BY <1>2, <2>1, <2>2, <2>3, <2>4, <2>5, <2>6, <2>7 DEF TusStep
<1>3. ASSUME NEW g \in Files, FileStep(g) PROVE Empty(f)'
  <2>1. CASE FileDelete(g)
    BY <2>1 DEF FileDelete, Empty
  <2>2. CASE FileDeleteData(g)
    BY <2>2, RemovalIsQuiet DEF FileDeleteData, Empty
  <2>3. CASE StorageLoss(g) \/ StorageReturn(g)
    BY <2>3 DEF StorageLoss, StorageReturn, Empty, TypeOK
  <2> QED
    BY <1>3, <2>1, <2>2, <2>3 DEF FileStep
<1>4. ASSUME NEW p \in Discarders, NEW g \in Files, Discard(p, g) \/ Discarded(p, g)
      PROVE  Empty(f)'
  BY <1>4, RemovalIsQuiet DEF Discard, Discarded, Empty
<1>5. ASSUME NEW c \in Cleaners, CleanStep(c) PROVE Empty(f)'
  <2>1. ASSUME NEW g \in Files, CleanOrphan(c, g) PROVE Empty(f)'
    BY <2>1 DEF CleanOrphan, Empty, TypeOK
  <2> QED
    BY <1>5, <2>1 DEF CleanStep, CleanExpire, CleanVerify, CleanStat, CleanMiss,
                      CleanSweep, CleanEnd, Stage, Empty
<1>6. (\E l \in Links : LinkBlocks(l) \/ Revoke(l)) \/ (\E c \in Cleaners : CleanQuit(c))
          \/ Crash \/ UNCHANGED vars => Empty(f)'
  BY DEF LinkBlocks, Revoke, CleanQuit, Crash, vars, Empty
<1> QED
  BY <1>1, <1>2, <1>3, <1>4, <1>5, <1>6 DEF Next

LEMMA StaysSwept ==
    ASSUME TypeOK, [Next]_vars, NEW f \in Files, Swept(f)
    PROVE  Swept(f)'
<1>1. Empty(f)'
  BY EmptyStays DEF Swept
<1>2. status'[f] = status[f]
  BY RowSteps DEF RowStep, Advances, Swept
<1> QED
  BY <1>1, <1>2 DEF Swept

\* An ended upload whose data and sidecar are gone, with no creation under way
\* and nothing that storage may bring back, never has either again: no request
\* that still holds the upload, none that waits for its lock and no loop writes
\* it anew.
THEOREM SweptForGood ==
    Spec => \A f \in Files : [](Swept(f) => []~HasArtefact(f))
<1>1. ASSUME NEW f \in Files
      PROVE  Spec => [](Swept(f) => []~HasArtefact(f))
  <2>1. TypeOK /\ [Next]_vars /\ Swept(f) => Swept(f)'
    BY StaysSwept
  <2>2. Swept(f) => ~HasArtefact(f)
    BY DEF Swept, Empty
  <2> QED
    BY <2>1, <2>2, UploadsTypeCorrect, PTL DEF Spec
<1> QED
  BY <1>1
=============================================================================
