--------------------------- MODULE Uploads_proofs ---------------------------
(***************************************************************************)
(* Uploads implements FileLedger, so what the ledger promises holds of the *)
(* uploads: for any files, links and limits, and however the requests, the *)
(* revocations, the cleanup passes and the crashes interleave.             *)
(***************************************************************************)
EXTENDS Uploads, Bytes_proofs

LP == INSTANCE FileLedger_proofs WITH
    FileLimit  <- [l \in Links |-> effectiveLimits(l).maxFileBytes],
    CountLimit <- LinkMaxFiles,
    TotalLimit <- LinkMaxTotalBytes,
    charge     <- [f \in Files |-> Charge(f)]

\* What a request may still write fits the reservation it will give up: the
\* direct handler's maxBytes, and the declared length of a resumable upload.
ReservedForDirect ==
    \A f \in DirectFiles :
        request[f] \in {"opening", "streaming"} /\ status[f] = "uploading"
            => maxBytes[f] = reserved[f]

ReservedForTus ==
    \A f \in TusFiles : status[f] = "uploading" => declared[f] = reserved[f]

RowInv == TypeOK /\ ReservedForDirect /\ ReservedForTus

USE UploadsConstants

-----------------------------------------------------------------------------
(* The usage of a link, and what reserveUpload makes of it.                *)

LEMMA RowsFinite ==
    \A l, s : /\ IsFiniteSet(RowsOf(l, s))
              /\ Cardinality(RowsOf(l, s)) \in Nat
              /\ RowsOf(l, s) \subseteq Files
<1> SUFFICES ASSUME NEW l, NEW s
             PROVE  /\ IsFiniteSet(RowsOf(l, s))
                    /\ Cardinality(RowsOf(l, s)) \in Nat
                    /\ RowsOf(l, s) \subseteq Files
  OBVIOUS
<1>1. RowsOf(l, s) \in SUBSET Files
  BY DEF RowsOf, RowsIn
<1>2. IsFiniteSet(RowsOf(l, s))
  BY <1>1, FS_Subset
<1> QED
  BY <1>1, <1>2, FS_CardinalityType

LEMMA LimitsType ==
    ASSUME NEW l \in Links
    PROVE  /\ effectiveLimits(l).maxFileBytes \in Nat
           /\ effectiveLimits(l).maxFileBytes <= MaxFileBytes
           /\ effectiveLimits(l).maxFiles = LinkMaxFiles[l]
           /\ effectiveLimits(l).maxTotalBytes = LinkMaxTotalBytes[l]
           /\ LinkMaxFiles[l] \in Nat \cup {NoLimit}
           /\ LinkMaxTotalBytes[l] \in Nat \cup {NoLimit}
BY DEF effectiveLimits, Least

LEMMA UsageType ==
    ASSUME TypeOK, NEW l
    PROVE  /\ linkUsage(l).used_bytes \in Nat
           /\ linkUsage(l).reserved_bytes \in Nat
           /\ linkUsage(l).file_count \in Nat
           /\ linkUsage(l).uploading_count \in Nat
<1>1. TotalBytes(size, RowsOf(l, "complete")) \in Nat
  <2>1. \A f \in RowsOf(l, "complete") : size[f] \in Nat
    BY RowsFinite DEF TypeOK, Sizes
  <2> QED
    BY <2>1, RowsFinite, TotalBytesType
<1>2. TotalBytes(reserved, RowsOf(l, "uploading")) \in Nat
  <2>1. \A f \in RowsOf(l, "uploading") : reserved[f] \in Nat
    BY RowsFinite DEF TypeOK, Sizes
  <2> QED
    BY <2>1, RowsFinite, TotalBytesType
<1> QED
  BY <1>1, <1>2, RowsFinite DEF linkUsage

\* A reservation is what was declared, or the most the link has left.
LEMMA ReservationFits ==
    ASSUME TypeOK, NEW f \in Files, NEW l \in Links,
           NEW d \in SizesOf(l) \cup {Unknown}, reserveUpload(f, l, d)
    PROVE  \E bytes \in 0 .. effectiveLimits(l).maxFileBytes :
               /\ reserved' = [reserved EXCEPT ![f] = bytes]
               /\ d # Unknown => bytes = d
               /\ LinkMaxTotalBytes[l] # NoLimit =>
                      linkUsage(l).used_bytes + linkUsage(l).reserved_bytes + bytes
                          <= LinkMaxTotalBytes[l]
<1> DEFINE most  == effectiveLimits(l).maxFileBytes
           used  == linkUsage(l).used_bytes
           held  == linkUsage(l).reserved_bytes
           total == effectiveLimits(l).maxTotalBytes
<1>1. most \in Nat /\ used \in Nat /\ held \in Nat
  BY LimitsType, UsageType
<1>2. total = LinkMaxTotalBytes[l] /\ total \in Nat \cup {NoLimit}
  BY LimitsType
<1>3. d # Unknown => d \in Nat /\ d <= most
  BY <1>1 DEF SizesOf
<1>4. /\ total # NoLimit => /\ used + held < total
                            /\ d # Unknown => used + held + d <= total
      /\ reserved' = [reserved EXCEPT ![f] =
            IF d = Unknown
            THEN IF total # NoLimit THEN Least(most, total - (used + held)) ELSE most
            ELSE d]
  BY DEF reserveUpload
<1> HIDE DEF most, used, held, total
<1> DEFINE bytes == IF d = Unknown
                    THEN IF total # NoLimit THEN Least(most, total - (used + held)) ELSE most
                    ELSE d
<1>5. /\ bytes \in 0 .. most
      /\ d # Unknown => bytes = d
      /\ total # NoLimit => used + held + bytes <= total
  BY <1>1, <1>2, <1>3, <1>4 DEF Least
<1> QED
  BY <1>2, <1>4, <1>5 DEF most, used, held, total

-----------------------------------------------------------------------------
(* The rows, by the statements that write them.                            *)

\* What a statement of the files table leaves well formed.
RowsWell ==
    /\ status'   \in [Files -> {"none", "uploading", "complete", "aborted",
                                "expired", "missing", "deleted"}]
    /\ link'     \in [Files -> Links \cup {NoLink}]
    /\ declared' \in [Files -> Sizes \cup {Unknown}]
    /\ reserved' \in [Files -> Sizes]
    /\ size'     \in [Files -> Sizes]

\* No statement but the INSERT makes a row an unfinished upload, and none
\* changes what an unfinished upload declared and reserved.
RowsKept ==
    \A g \in Files : status'[g] = "uploading" =>
        /\ status[g] = "uploading"
        /\ declared'[g] = declared[g]
        /\ reserved'[g] = reserved[g]

LEMMA ReserveWell ==
    ASSUME TypeOK, NEW f \in Files, NEW l \in Links,
           NEW d \in SizesOf(l) \cup {Unknown}, reserveUpload(f, l, d)
    PROVE  /\ RowsWell
           /\ d # Unknown => declared'[f] = reserved'[f]
           /\ \A g \in Files \ {f} : /\ status'[g] = status[g]
                                     /\ declared'[g] = declared[g]
                                     /\ reserved'[g] = reserved[g]
<1>1. PICK bytes \in 0 .. effectiveLimits(l).maxFileBytes :
          /\ reserved' = [reserved EXCEPT ![f] = bytes]
          /\ d # Unknown => bytes = d
  BY ReservationFits
<1>2. bytes \in Sizes /\ d \in Sizes \cup {Unknown}
  BY LimitsType DEF Sizes, SizesOf
<1>3. /\ status' = [status EXCEPT ![f] = "uploading"]
      /\ link' = [link EXCEPT ![f] = l]
      /\ declared' = [declared EXCEPT ![f] = d]
      /\ size' = size
  BY DEF reserveUpload
<1> QED
  BY <1>1, <1>2, <1>3 DEF RowsWell, TypeOK

LEMMA CompleteWell ==
    ASSUME TypeOK, NEW f \in Files, NEW n, status[f] = "uploading" => n \in Sizes,
           completeUpload(f, n)
    PROVE  RowsWell /\ RowsKept
<1>1. 0 \in Sizes
  BY DEF Sizes
<1> QED
  BY <1>1 DEF RowsWell, RowsKept, TypeOK, completeUpload, rows

LEMMA EndWell ==
    ASSUME TypeOK, NEW f \in Files,
           \/ failUpload(f, "aborted")
           \/ failUpload(f, "expired")
           \/ markMissing(f)
           \/ markDeleted(f)
    PROVE  RowsWell /\ RowsKept
<1>1. 0 \in Sizes
  BY DEF Sizes
<1> QED
  BY <1>1 DEF RowsWell, RowsKept, TypeOK, failUpload, markMissing, markDeleted, rows

LEMMA UnchangedWell ==
    ASSUME TypeOK, UNCHANGED rows
    PROVE  RowsWell /\ RowsKept
BY DEF RowsWell, RowsKept, TypeOK, rows

\* Everything but the rows.
RestOK ==
    /\ linkState \in [Links -> {"active", "blocked", "revoked"}]
    /\ maxBytes  \in [Files -> Sizes]
    /\ request   \in [Files -> Requests]
    /\ waiting   \in [Files -> SUBSET {"PATCH", "DELETE"}]
    /\ stored    \in [Files -> Sizes \cup {Gone}]
    /\ sidecar   \in SUBSET Files
    /\ away      \in [Files -> Sizes \cup {Gone}]
    /\ cleaning  \in [Cleaners -> {"idle", "expire", "verify", "sweep"}]
    /\ todo      \in [Discarders -> SUBSET Files]
    /\ inHand    \in [Discarders -> SUBSET Files]
    /\ deleting  \in SUBSET Files

LEMMA TypeParts == TypeOK => RestOK
BY DEF TypeOK, RestOK

LEMMA TypeFromParts == RestOK' /\ RowsWell => TypeOK'
BY DEF TypeOK, RestOK, RowsWell

LEMMA RemovalWell ==
    ASSUME RestOK, NEW f \in Files, RemoveArtefacts(f)
    PROVE  stored' \in [Files -> Sizes \cup {Gone}] /\ sidecar' \in SUBSET Files
BY DEF RestOK, RemoveArtefacts, storage

\* A step that inserts no row and opens no stream keeps reservations and
\* what may be written in agreement.
LEMMA ReservedKept ==
    ASSUME RowInv, RowsKept,
           \A g \in DirectFiles : request'[g] \in {"opening", "streaming"} =>
               request[g] \in {"opening", "streaming"} /\ maxBytes'[g] = maxBytes[g]
    PROVE  ReservedForDirect' /\ ReservedForTus'
BY DEF RowInv, ReservedForDirect, ReservedForTus, RowsKept, Files

-----------------------------------------------------------------------------
(* Every action keeps RowInv.                                              *)

LEMMA DirectKeeps ==
    ASSUME RowInv, NEW f \in DirectFiles, DirectStep(f)
    PROVE  RowInv'
<1> f \in Files /\ f \notin TusFiles
  BY DEF Files
<1> TypeOK /\ RestOK
  BY TypeParts DEF RowInv
<1>1. ASSUME NEW l \in Links, DirectStart(f, l)
      PROVE  RowInv'
  <2>1. PICK d \in SizesOf(l) \cup {Unknown} : reserveUpload(f, l, d)
    BY <1>1 DEF DirectStart
  <2>2. RowsWell /\ \A g \in Files \ {f} : /\ status'[g] = status[g]
                                         /\ declared'[g] = declared[g]
                                         /\ reserved'[g] = reserved[g]
    BY <2>1, ReserveWell
  <2>3. RestOK'
    BY <1>1, <2>2 DEF DirectStart, RestOK, Requests, RowsWell, storage, loops
  <2>4. ReservedForDirect' /\ ReservedForTus'
    BY <1>1, <2>2 DEF DirectStart, RowInv, RestOK, Files, ReservedForDirect, ReservedForTus
  <2> QED
    BY <2>2, <2>3, <2>4, TypeFromParts DEF RowInv
<1>2. CASE DirectOpen(f)
  <2>1. RowsWell /\ RowsKept
    BY <1>2, UnchangedWell DEF DirectOpen
  <2>2. RestOK'
    BY <1>2 DEF DirectOpen, RestOK, Requests, Sizes, loops
  <2>3. ReservedForDirect' /\ ReservedForTus'
    BY <1>2, <2>1, ReservedKept DEF DirectOpen, RestOK
  <2> QED
    BY <2>1, <2>2, <2>3, TypeFromParts DEF RowInv
<1>3. ASSUME NEW n \in 0 .. maxBytes[f], DirectDone(f, n)
      PROVE  RowInv'
  <2>1. n \in Sizes
    BY DEF RestOK, Sizes
  <2>2. RowsWell /\ RowsKept
    BY <1>3, <2>1, CompleteWell DEF DirectDone
  <2>3. RestOK'
    BY <1>3, <2>1 DEF DirectDone, RestOK, Requests, Sizes, WriteThrough, loops
  <2>4. ReservedForDirect' /\ ReservedForTus'
    BY <1>3, <2>2, ReservedKept DEF DirectDone, RestOK
  <2> QED
    BY <2>2, <2>3, <2>4, TypeFromParts DEF RowInv
<1>4. CASE DirectFail(f)
  <2>1. RowsWell /\ RowsKept
    BY <1>4, EndWell DEF DirectFail
  <2>2. RestOK'
    BY <1>4 DEF DirectFail, RestOK, Requests, Sizes, storage, loops
  <2>3. ReservedForDirect' /\ ReservedForTus'
    BY <1>4, <2>1, ReservedKept DEF DirectFail, RestOK
  <2> QED
    BY <2>1, <2>2, <2>3, TypeFromParts DEF RowInv
<1>5. CASE DirectDiscard(f)
  <2>1. RowsWell /\ RowsKept
    BY <1>5, UnchangedWell DEF DirectDiscard
  <2>2. RestOK'
    BY <1>5, RemovalWell DEF DirectDiscard, RestOK, Requests, loops
  <2>3. ReservedForDirect' /\ ReservedForTus'
    BY <1>5, <2>1, ReservedKept DEF DirectDiscard, RestOK
  <2> QED
    BY <2>1, <2>2, <2>3, TypeFromParts DEF RowInv
<1>6. CASE DirectBreak(f)
  <2>1. RowsWell /\ RowsKept
    BY <1>6, UnchangedWell DEF DirectBreak
  <2>2. RestOK'
    BY <1>6 DEF DirectBreak, RestOK, Requests, loops
  <2>3. ReservedForDirect' /\ ReservedForTus'
    BY <1>6, <2>1, ReservedKept DEF DirectBreak, RestOK
  <2> QED
    BY <2>1, <2>2, <2>3, TypeFromParts DEF RowInv
<1> QED
  BY <1>1, <1>2, <1>3, <1>4, <1>5, <1>6 DEF DirectStep

LEMMA TusKeeps ==
    ASSUME RowInv, NEW f \in TusFiles, TusStep(f)
    PROVE  RowInv'
<1> f \in Files /\ f \notin DirectFiles
  BY DEF Files
<1> TypeOK /\ RestOK
  BY TypeParts DEF RowInv
<1>1. ASSUME NEW l \in Links, TusCreate(f, l)
      PROVE  RowInv'
  <2>1. PICK d \in SizesOf(l) : reserveUpload(f, l, d)
    BY <1>1 DEF TusCreate
  <2>2. d # Unknown
    BY LimitsType DEF SizesOf
  <2>3. /\ RowsWell
        /\ declared'[f] = reserved'[f]
        /\ \A g \in Files \ {f} : /\ status'[g] = status[g]
                                  /\ declared'[g] = declared[g]
                                  /\ reserved'[g] = reserved[g]
    BY <2>1, <2>2, ReserveWell
  <2>4. RestOK'
    BY <1>1 DEF TusCreate, RestOK, Requests, storage, loops
  <2>5. ReservedForDirect' /\ ReservedForTus'
    BY <1>1, <2>3 DEF TusCreate, RowInv, RestOK, Files, ReservedForDirect, ReservedForTus
  <2> QED
    BY <2>3, <2>4, <2>5, TypeFromParts DEF RowInv
<1>2. CASE TusFinish(f)
  <2>1. status[f] = "uploading" => declared[f] \in Sizes
    BY DEF RowInv, ReservedForTus, TypeOK
  <2>2. RowsWell /\ RowsKept
    BY <1>2, <2>1, CompleteWell DEF TusFinish
  <2>3. RestOK'
    BY <1>2 DEF TusFinish, RestOK, Requests, loops
  <2>4. ReservedForDirect' /\ ReservedForTus'
    BY <1>2, <2>2, ReservedKept DEF TusFinish, RestOK
  <2> QED
    BY <2>2, <2>3, <2>4, TypeFromParts DEF RowInv
<1>3. CASE TusTerminated(f)
  <2>1. RowsWell /\ RowsKept
    BY <1>3, EndWell DEF TusTerminated
  <2>2. RestOK'
    BY <1>3 DEF TusTerminated, RestOK, Requests, storage, loops
  <2>3. ReservedForDirect' /\ ReservedForTus'
    BY <1>3, <2>1, ReservedKept DEF TusTerminated, RestOK
  <2> QED
    BY <2>1, <2>2, <2>3, TypeFromParts DEF RowInv
<1>4. ASSUME UNCHANGED <<rows, maxBytes>>, RestOK',
             \A g \in DirectFiles : request'[g] = request[g]
      PROVE  RowInv'
  <2>1. RowsWell /\ RowsKept
    BY <1>4, UnchangedWell
  <2>2. ReservedForDirect' /\ ReservedForTus'
    BY <1>4, <2>1, ReservedKept
  <2> QED
    BY <1>4, <2>1, <2>2, TypeFromParts DEF RowInv
<1>5. CASE TusCreated(f)
  <2>1. RestOK'
    BY <1>5 DEF TusCreated, RestOK, Requests, Sizes, loops
  <2>2. \E at \in {"none", "writing", "finishing"} : request' = [request EXCEPT ![f] = at]
    BY <1>5 DEF TusCreated
  <2>3. UNCHANGED <<rows, maxBytes>>
    BY <1>5 DEF TusCreated
  <2> QED
    BY <1>4, <2>1, <2>2, <2>3 DEF RestOK
<1>6. ASSUME NEW method \in {"PATCH", "DELETE"},
             TusArrive(f, method) \/ TusLock(f, method)
      PROVE  RowInv'
  <2>1. TusBegin(f, method) /\ waiting' \in [Files -> SUBSET {"PATCH", "DELETE"}]
    BY <1>6 DEF TusArrive, TusLock, RestOK
  <2>2. \E at \in {"writing", "removing"} : request' = [request EXCEPT ![f] = at]
    BY <2>1 DEF TusBegin
  <2>3. UNCHANGED <<linkState, rows, maxBytes, storage, away, loops, deleting>>
    BY <2>1 DEF TusBegin
  <2>4. RestOK'
    BY <2>1, <2>2, <2>3 DEF RestOK, Requests, storage, loops
  <2> QED
    BY <1>4, <2>2, <2>3, <2>4 DEF RestOK
<1>7. ASSUME NEW method \in {"PATCH", "DELETE"},
             TusWait(f, method) \/ TusRefuse(f, method)
      PROVE  RowInv'
  <2>1. RestOK'
    BY <1>7 DEF TusWait, TusRefuse, RestOK, storage, loops
  <2> QED
    BY <1>4, <1>7, <2>1 DEF TusWait, TusRefuse
<1>8. ASSUME NEW n \in Sizes, TusWrite(f, n)
      PROVE  RowInv'
  <2>1. RestOK'
    BY <1>8 DEF TusWrite, RestOK, Requests, WriteThrough, loops
  <2> QED
    BY <1>4, <1>8, <2>1 DEF TusWrite, RestOK
<1>9. CASE TusRemove(f)
  <2>1. RestOK'
    BY <1>9, RemovalWell DEF TusRemove, RestOK, Requests, loops
  <2> QED
    BY <1>4, <1>9, <2>1 DEF TusRemove, RestOK
<1> QED
  BY <1>1, <1>2, <1>3, <1>5, <1>6, <1>7, <1>8, <1>9 DEF TusStep

LEMMA OtherKeeps ==
    ASSUME RowInv,
           \/ \E f \in Files : FileStep(f)
           \/ \E l \in Links : LinkBlocks(l) \/ Revoke(l)
           \/ \E p \in Discarders, f \in Files : Discard(p, f) \/ Discarded(p, f)
           \/ \E c \in Cleaners : CleanStep(c) \/ CleanQuit(c)
           \/ Crash
           \/ UNCHANGED vars
    PROVE  RowInv'
<1> TypeOK /\ RestOK
  BY TypeParts DEF RowInv
<1> Cleaners \subseteq Discarders /\ Links \subseteq Discarders
  BY DEF Discarders, Cleaners
<1>1. ASSUME RowsWell, RowsKept, RestOK', UNCHANGED <<request, maxBytes>>
      PROVE  RowInv'
  BY <1>1, ReservedKept, TypeFromParts DEF RowInv
<1>2. ASSUME UNCHANGED <<rows, request, maxBytes>>, RestOK'
      PROVE  RowInv'
  BY <1>1, <1>2, UnchangedWell
<1>3. ASSUME NEW f \in Files, FileStep(f)
      PROVE  RowInv'
  <2>1. CASE FileDelete(f)
    <3>1. RowsWell /\ RowsKept
      BY <2>1, EndWell DEF FileDelete
    <3>2. RestOK' /\ UNCHANGED <<request, maxBytes>>
      BY <2>1 DEF FileDelete, RestOK, requests, storage, loops
    <3> QED
      BY <3>1, <3>2, <1>1
  <2>2. CASE FileDeleteData(f)
    <3>1. RestOK' /\ UNCHANGED <<rows, request, maxBytes>>
      BY <2>2, RemovalWell DEF FileDeleteData, RestOK, requests, loops
    <3> QED
      BY <3>1, <1>2
  <2>3. CASE StorageLoss(f) \/ StorageReturn(f)
    <3>1. RestOK' /\ UNCHANGED <<rows, request, maxBytes>>
      BY <2>3 DEF StorageLoss, StorageReturn, RestOK, requests, loops
    <3> QED
      BY <3>1, <1>2
  <2> QED
    BY <1>3, <2>1, <2>2, <2>3 DEF FileStep
<1>4. ASSUME NEW l \in Links, LinkBlocks(l) \/ Revoke(l)
      PROVE  RowInv'
  <2>1. RowsOf(l, "uploading") \in SUBSET Files
    BY RowsFinite
  <2>2. RestOK' /\ UNCHANGED <<rows, request, maxBytes>>
    <3>1. CASE LinkBlocks(l)
      BY <3>1 DEF LinkBlocks, RestOK, requests, storage, loops
    <3>2. CASE Revoke(l)
      BY <2>1, <3>2 DEF Revoke, RestOK, requests, storage
    <3> QED
      BY <1>4, <3>1, <3>2
  <2> QED
    BY <2>2, <1>2
<1>5. ASSUME NEW p \in Discarders, NEW f \in Files, Discard(p, f)
      PROVE  RowInv'
  <2>1. RestOK' /\ UNCHANGED <<rows, request, maxBytes>>
    BY <1>5, RemovalWell DEF Discard, RestOK, requests
  <2> QED
    BY <2>1, <1>2
<1>6. ASSUME NEW p \in Discarders, NEW f \in Files, Discarded(p, f)
      PROVE  RowInv'
  <2>1. failUpload(f, "aborted") \/ failUpload(f, "expired")
    BY <1>6 DEF Discarded
  <2>2. RowsWell /\ RowsKept
    BY <2>1, EndWell
  <2>3. RestOK' /\ UNCHANGED <<request, maxBytes>>
    BY <1>6 DEF Discarded, RestOK, requests, storage
  <2> QED
    BY <2>2, <2>3, <1>1
<1>7. ASSUME NEW c \in Cleaners, CleanStep(c)
      PROVE  RowInv'
  <2>1. ASSUME NEW from, NEW to \in {"idle", "expire", "verify", "sweep"},
               NEW files \in SUBSET Files, Stage(c, from, to, files)
        PROVE  RowInv'
    <3>1. RestOK' /\ UNCHANGED <<rows, request, maxBytes>>
      BY <2>1 DEF Stage, RestOK, requests, storage
    <3> QED
      BY <3>1, <1>2
  <2>2. ASSUME NEW stale \in SUBSET Files, CleanExpire(c, stale)
        PROVE  RowInv'
    BY <2>1, <2>2 DEF CleanExpire
  <2>3. CASE CleanVerify(c)
    <3>1. RowsIn("complete") \in SUBSET Files
      BY DEF RowsIn
    <3> QED
      BY <2>1, <2>3, <3>1 DEF CleanVerify
  <2>4. ASSUME NEW f \in Files, CleanStat(c, f) \/ CleanOrphan(c, f)
        PROVE  RowInv'
    <3>1. RestOK' /\ UNCHANGED <<rows, request, maxBytes>>
      BY <2>4 DEF CleanStat, CleanOrphan, RestOK, requests, storage
    <3> QED
      BY <3>1, <1>2
  <2>5. ASSUME NEW f \in Files, CleanMiss(c, f)
        PROVE  RowInv'
    <3>1. RowsWell /\ RowsKept
      BY <2>5, EndWell DEF CleanMiss
    <3>2. RestOK' /\ UNCHANGED <<request, maxBytes>>
      BY <2>5 DEF CleanMiss, RestOK, requests, storage
    <3> QED
      BY <3>1, <3>2, <1>1
  <2>6. ASSUME NEW old \in SUBSET Files, CleanSweep(c, old)
        PROVE  RowInv'
    BY <2>1, <2>6 DEF CleanSweep
  <2>7. CASE CleanEnd(c)
    BY <2>1, <2>7 DEF CleanEnd
  <2> QED
    BY <1>7, <2>2, <2>3, <2>4, <2>5, <2>6, <2>7 DEF CleanStep
<1>8. ASSUME NEW c \in Cleaners, CleanQuit(c)
      PROVE  RowInv'
  <2>1. RestOK' /\ UNCHANGED <<rows, request, maxBytes>>
    BY <1>8 DEF CleanQuit, Quit, RestOK, requests, storage
  <2> QED
    BY <2>1, <1>2
<1>9. CASE Crash
  <2>1. RowsWell /\ RowsKept
    BY <1>9, UnchangedWell DEF Crash
  <2>2. RestOK'
    <3>1. maxBytes' \in [Files -> Sizes]
      BY <1>9 DEF Crash, Sizes
    <3>2. /\ todo' \in [Discarders -> SUBSET Files]
          /\ inHand' \in [Discarders -> SUBSET Files]
      BY <1>9 DEF Crash, RestOK
    <3>3. cleaning' \in [Cleaners -> {"idle", "expire", "verify", "sweep"}]
      BY <1>9 DEF Crash, RestOK
    <3> QED
      BY <1>9, <3>1, <3>2, <3>3 DEF Crash, RestOK, Requests, storage
  <2>3. \A g \in DirectFiles : request'[g] = "none"
    BY <1>9 DEF Crash, Files
  <2> QED
    BY <2>1, <2>2, <2>3, ReservedKept, TypeFromParts DEF RowInv
<1>10. CASE UNCHANGED vars
  <2>1. RestOK' /\ UNCHANGED <<rows, request, maxBytes>>
    BY <1>10 DEF vars, RestOK, requests, storage, loops
  <2> QED
    BY <2>1, <1>2
<1> QED
  BY <1>3, <1>4, <1>5, <1>6, <1>7, <1>8, <1>9, <1>10

LEMMA RowInvHolds == Spec => []RowInv
<1>1. Init => RowInv
  BY DEF Init, RowInv, TypeOK, ReservedForDirect, ReservedForTus, Sizes, Requests, Files
<1>2. RowInv /\ [Next]_vars => RowInv'
  BY DirectKeeps, TusKeeps, OtherKeeps DEF Next
<1> QED
  BY <1>1, <1>2, PTL DEF Spec

\* Every variable has its type in every state: in particular what a link has
\* left is never negative when reserveUpload hands it out.
THEOREM UploadsTypeCorrect == Spec => []TypeOK
BY RowInvHolds, PTL DEF RowInv

-----------------------------------------------------------------------------
(* Every step is a step of the ledger, or changes no row.                  *)

Charges == [f \in Files |-> Charge(f)]

LedgerStep == Ledger!Next \/ UNCHANGED Ledger!ledger

LEMMA LedgerCardinality == \A S : Ledger!Cardinality(S) = Cardinality(S)
BY DEF Ledger!Cardinality, Cardinality

LEMMA ChargesType == TypeOK => Charges \in [Files -> Nat]
BY DEF TypeOK, Charges, Charge, Sizes

\* The two sums of linkUsage are the ledger's one, and so are the two counts.
LEMMA UsageOfLink ==
    ASSUME TypeOK, NEW l \in Links
    PROVE  /\ Ledger!Usage(l) = linkUsage(l).used_bytes + linkUsage(l).reserved_bytes
           /\ Ledger!Cardinality(Ledger!LiveFiles(l)) =
                  linkUsage(l).file_count + linkUsage(l).uploading_count
<1> DEFINE done == RowsOf(l, "complete")
           open == RowsOf(l, "uploading")
<1>1. IsFiniteSet(done) /\ IsFiniteSet(open)
  BY RowsFinite
<1>2. done \cap open = {} /\ done \subseteq Files /\ open \subseteq Files
  BY DEF RowsOf, RowsIn
<1>3. Ledger!LiveFiles(l) = done \cup open
  BY DEF Ledger!LiveFiles, Ledger!Live, RowsOf, RowsIn
<1>4. /\ \A f \in done : Charges[f] = size[f]
      /\ \A f \in open : Charges[f] = reserved[f]
  BY DEF Charges, Charge, RowsOf, RowsIn
<1>5. \A f \in done \cup open : Charges[f] \in Nat
  BY <1>2, ChargesType
<1>6. linkUsage(l) = [file_count      |-> Cardinality(done),
                      used_bytes      |-> TotalBytes(size, done),
                      reserved_bytes  |-> TotalBytes(reserved, open),
                      uploading_count |-> Cardinality(open)]
  BY DEF linkUsage
<1> HIDE DEF done, open
<1>7. Ledger!Usage(l) = TotalBytes(Charges, done \cup open)
  BY <1>3, LedgerCardinality
     DEF Ledger!Usage, Ledger!TotalBytes, Ledger!ByteSet, TotalBytes, ByteSet, Charges
<1>8. TotalBytes(Charges, done \cup open)
         = TotalBytes(Charges, done) + TotalBytes(Charges, open)
  BY <1>1, <1>2, <1>5, TotalBytesUnion
<1>9. /\ TotalBytes(Charges, done) = TotalBytes(size, done)
      /\ TotalBytes(Charges, open) = TotalBytes(reserved, open)
  BY <1>4, TotalBytesSame
<1>10. Cardinality(done \cup open) = Cardinality(done) + Cardinality(open)
  <2>1. Cardinality(done \cap open) = 0
    BY <1>2, FS_EmptySet
  <2>2. Cardinality(done \cup open)
           = Cardinality(done) + Cardinality(open) - Cardinality(done \cap open)
    BY <1>1, FS_Union
  <2>3. Cardinality(done) \in Nat /\ Cardinality(open) \in Nat
    BY <1>1, FS_CardinalityType
  <2> QED
    BY <2>1, <2>2, <2>3
<1> QED
  BY <1>3, <1>6, <1>7, <1>8, <1>9, <1>10, LedgerCardinality

LEMMA ReserveIsReserve ==
    ASSUME TypeOK, NEW f \in Files, NEW l \in Links,
           NEW d \in SizesOf(l) \cup {Unknown}, reserveUpload(f, l, d)
    PROVE  LedgerStep
<1> DEFINE limit == [k \in Links |-> effectiveLimits(k).maxFileBytes]
<1>1. PICK bytes \in 0 .. effectiveLimits(l).maxFileBytes :
          /\ reserved' = [reserved EXCEPT ![f] = bytes]
          /\ LinkMaxTotalBytes[l] # NoLimit =>
                 linkUsage(l).used_bytes + linkUsage(l).reserved_bytes + bytes
                     <= LinkMaxTotalBytes[l]
  BY ReservationFits
<1>2. bytes \in 0 .. limit[l]
  OBVIOUS
<1>3. /\ status[f] = "none"
      /\ status' = [status EXCEPT ![f] = "uploading"]
      /\ link' = [link EXCEPT ![f] = l]
      /\ size' = size
      /\ LinkMaxFiles[l] # NoLimit =>
             linkUsage(l).file_count + linkUsage(l).uploading_count < LinkMaxFiles[l]
  BY LimitsType DEF reserveUpload
<1>4. Charges' = [Charges EXCEPT ![f] = bytes]
  BY <1>1, <1>3 DEF Charges, Charge, TypeOK
<1>5. Ledger!Reserve(f, l, bytes)
  BY <1>1, <1>3, <1>4, UsageOfLink DEF Ledger!Reserve, Charges
<1> QED
  BY <1>2, <1>5 DEF LedgerStep, Ledger!Next

LEMMA NoRowsNoStep == UNCHANGED rows => LedgerStep
<1> SUFFICES ASSUME UNCHANGED rows
             PROVE  LedgerStep
  OBVIOUS
<1>1. UNCHANGED <<status, link, reserved, size>>
  BY DEF rows
<1>2. Charges' = Charges
  BY <1>1 DEF Charges, Charge
<1> QED
  BY <1>1, <1>2 DEF LedgerStep, Ledger!ledger, Charges

LEMMA CompleteIsComplete ==
    ASSUME TypeOK, NEW f \in Files, NEW n \in Nat,
           status[f] = "uploading" => n <= reserved[f],
           completeUpload(f, n)
    PROVE  LedgerStep
<1>1. CASE status[f] = "uploading"
  <2>1. /\ status' = [status EXCEPT ![f] = "complete"]
        /\ size' = [size EXCEPT ![f] = n]
        /\ reserved' = [reserved EXCEPT ![f] = 0]
        /\ link' = link
    BY <1>1 DEF completeUpload
  <2>2. Charges' = [Charges EXCEPT ![f] = n]
    BY <2>1 DEF Charges, Charge, TypeOK
  <2>3. n \in 0 .. Charges[f]
    BY <1>1 DEF Charges, Charge, TypeOK, Sizes
  <2>4. Ledger!Complete(f, n)
    BY <1>1, <2>1, <2>2 DEF Ledger!Complete, Charges
  <2> QED
    BY <2>3, <2>4 DEF LedgerStep, Ledger!Next, Charges
<1>2. CASE status[f] # "uploading"
  BY <1>2, NoRowsNoStep DEF completeUpload
<1> QED
  BY <1>1, <1>2

LEMMA EndIsRetire ==
    ASSUME TypeOK, NEW f \in Files,
           \/ failUpload(f, "aborted")
           \/ failUpload(f, "expired")
           \/ markMissing(f)
           \/ markDeleted(f)
    PROVE  LedgerStep
<1>1. ASSUME NEW from, NEW to \in {"aborted", "expired", "missing", "deleted"},
             status[f] \in from, Ledger!Retire(f, from, to) => LedgerStep,
             status' = [status EXCEPT ![f] = to],
             UNCHANGED <<link, size>>,
             \A g \in Files \ {f} : reserved'[g] = reserved[g]
      PROVE  LedgerStep
  <2>1. Charges' = [Charges EXCEPT ![f] = 0]
    BY <1>1 DEF Charges, Charge, TypeOK
  <2> QED
    BY <1>1, <2>1 DEF Ledger!Retire, Charges
<1>2. ASSUME NEW to \in {"aborted", "expired"}, failUpload(f, to)
      PROVE  LedgerStep
  <2>1. CASE status[f] = "uploading"
    <3>1. Ledger!Retire(f, {"uploading"}, to) => LedgerStep
      BY DEF LedgerStep, Ledger!Next, Ledger!Release
    <3> QED
      BY <1>1, <1>2, <2>1, <3>1 DEF failUpload, TypeOK
  <2>2. CASE status[f] # "uploading"
    BY <1>2, <2>2, NoRowsNoStep DEF failUpload
  <2> QED
    BY <2>1, <2>2
<1>3. CASE markMissing(f)
  <2>1. CASE status[f] = "complete"
    <3>1. Ledger!Retire(f, {"complete"}, "missing") => LedgerStep
      BY DEF LedgerStep, Ledger!Next, Ledger!Miss
    <3> QED
      BY <1>1, <1>3, <2>1, <3>1 DEF markMissing, TypeOK
  <2>2. CASE status[f] # "complete"
    BY <1>3, <2>2, NoRowsNoStep DEF markMissing
  <2> QED
    BY <2>1, <2>2
<1>4. CASE markDeleted(f)
  <2>1. Ledger!Retire(f, {"complete", "missing"}, "deleted") => LedgerStep
    BY DEF LedgerStep, Ledger!Next, Ledger!Delete
  <2> QED
    BY <1>1, <1>4, <2>1 DEF markDeleted, TypeOK
<1> QED
  BY <1>2, <1>3, <1>4

\* Of the actions, five kinds write rows; they do it by the statements above.
LEMMA ActionIsLedgerStep ==
    ASSUME RowInv, [Next]_vars
    PROVE  LedgerStep
<1> TypeOK
  BY DEF RowInv
<1>1. ASSUME NEW f \in DirectFiles, DirectStep(f)
      PROVE  LedgerStep
  <2> f \in Files
    BY DEF Files
  <2>1. ASSUME NEW l \in Links, DirectStart(f, l)
        PROVE  LedgerStep
    BY <2>1, ReserveIsReserve DEF DirectStart
  <2>2. ASSUME NEW n \in 0 .. maxBytes[f], DirectDone(f, n)
        PROVE  LedgerStep
    <3>1. n \in Nat
      BY DEF TypeOK, Sizes
    <3>2. request[f] = "streaming" /\ n <= maxBytes[f] /\ completeUpload(f, n)
      BY <2>2 DEF DirectDone
    <3>3. status[f] = "uploading" => n <= reserved[f]
      BY <3>2 DEF RowInv, ReservedForDirect
    <3> QED
      BY <3>1, <3>2, <3>3, CompleteIsComplete
  <2>3. CASE DirectFail(f)
    BY <2>3, EndIsRetire DEF DirectFail
  <2>4. CASE DirectOpen(f) \/ DirectBreak(f) \/ DirectDiscard(f)
    BY <2>4, NoRowsNoStep DEF DirectOpen, DirectBreak, DirectDiscard
  <2> QED
    BY <1>1, <2>1, <2>2, <2>3, <2>4 DEF DirectStep
<1>2. ASSUME NEW f \in TusFiles, TusStep(f)
      PROVE  LedgerStep
  <2> f \in Files
    BY DEF Files
  <2>1. ASSUME NEW l \in Links, TusCreate(f, l)
        PROVE  LedgerStep
    BY <2>1, ReserveIsReserve DEF TusCreate
  <2>2. CASE TusFinish(f)
    <3>1. completeUpload(f, declared[f])
      BY <2>2 DEF TusFinish
    <3>2. CASE status[f] = "uploading"
      <4>1. declared[f] = reserved[f] /\ reserved[f] \in Nat
        BY <3>2 DEF RowInv, ReservedForTus, TypeOK, Sizes
      <4> QED
        BY <3>1, <4>1, CompleteIsComplete
    <3>3. CASE status[f] # "uploading"
      BY <3>1, <3>3, NoRowsNoStep DEF completeUpload
    <3> QED
      BY <3>2, <3>3
  <2>3. CASE TusTerminated(f)
    BY <2>3, EndIsRetire DEF TusTerminated
  <2>4. ASSUME UNCHANGED rows
        PROVE  LedgerStep
    BY <2>4, NoRowsNoStep
  <2>5. CASE TusCreated(f)
    BY <2>4, <2>5 DEF TusCreated
  <2>6. ASSUME NEW method \in {"PATCH", "DELETE"},
               \/ TusArrive(f, method) \/ TusWait(f, method)
               \/ TusLock(f, method) \/ TusRefuse(f, method)
        PROVE  LedgerStep
    BY <2>4, <2>6 DEF TusArrive, TusWait, TusLock, TusRefuse, TusBegin
  <2>7. ASSUME NEW n \in Sizes, TusWrite(f, n)
        PROVE  LedgerStep
    BY <2>4, <2>7 DEF TusWrite
  <2>8. CASE TusRemove(f)
    BY <2>4, <2>8 DEF TusRemove
  <2> QED
    BY <1>2, <2>1, <2>2, <2>3, <2>5, <2>6, <2>7, <2>8 DEF TusStep
<1>3. ASSUME NEW f \in Files, FileStep(f)
      PROVE  LedgerStep
  <2>1. CASE FileDelete(f)
    BY <2>1, EndIsRetire DEF FileDelete
  <2>2. CASE FileDeleteData(f) \/ StorageLoss(f) \/ StorageReturn(f)
    BY <2>2, NoRowsNoStep DEF FileDeleteData, StorageLoss, StorageReturn
  <2> QED
    BY <1>3, <2>1, <2>2 DEF FileStep
<1>4. ASSUME NEW l \in Links, LinkBlocks(l) \/ Revoke(l)
      PROVE  LedgerStep
  BY <1>4, NoRowsNoStep DEF LinkBlocks, Revoke
<1>5. ASSUME NEW p \in Discarders, NEW f \in Files, Discard(p, f) \/ Discarded(p, f)
      PROVE  LedgerStep
  <2>1. CASE Discard(p, f)
    BY <2>1, NoRowsNoStep DEF Discard
  <2>2. CASE Discarded(p, f)
    <3>1. failUpload(f, "aborted") \/ failUpload(f, "expired")
      BY <2>2 DEF Discarded
    <3> QED
      BY <3>1, EndIsRetire
  <2> QED
    BY <1>5, <2>1, <2>2
<1>6. ASSUME NEW c \in Cleaners, CleanStep(c) \/ CleanQuit(c)
      PROVE  LedgerStep
  <2>1. ASSUME NEW f \in Files, CleanMiss(c, f)
        PROVE  LedgerStep
    BY <2>1, EndIsRetire DEF CleanMiss
  <2>2. ASSUME UNCHANGED rows
        PROVE  LedgerStep
    BY <2>2, NoRowsNoStep
  <2>3. CASE CleanQuit(c)
    BY <2>2, <2>3 DEF CleanQuit
  <2>4. CASE CleanStep(c)
    BY <2>1, <2>2, <2>4
       DEF CleanStep, CleanExpire, CleanVerify, CleanStat, CleanOrphan, CleanSweep,
           CleanEnd, Stage
  <2> QED
    BY <1>6, <2>3, <2>4
<1>7. CASE Crash
  BY <1>7, NoRowsNoStep DEF Crash
<1>8. CASE UNCHANGED vars
  BY <1>8, NoRowsNoStep DEF vars
<1> QED
  BY <1>1, <1>2, <1>3, <1>4, <1>5, <1>6, <1>7, <1>8 DEF Next

\* The database of the program, in every handler and loop, does no more than
\* the ledger: each step is one transaction on one row or leaves them alone.
THEOREM UploadsImplementLedger == Spec => LedgerSpec
<1>1. Init => Ledger!Init
  <2> SUFFICES ASSUME Init
               PROVE  Ledger!Init
    OBVIOUS
  <2>1. \A f \in Files : Charge(f) = 0
    BY DEF Init, Charge
  <2> QED
    BY <2>1 DEF Init, Ledger!Init
<1>2. RowInv /\ [Next]_vars => [Ledger!Next]_Ledger!ledger
  BY ActionIsLedgerStep DEF LedgerStep
<1> QED
  BY <1>1, <1>2, RowInvHolds, PTL DEF Spec, LedgerSpec, Ledger!Spec

-----------------------------------------------------------------------------
(* What the ledger promises, for the uploads.                              *)

\* Two instances of one module: LP brings the theorems, Ledger is the one
\* that module Uploads names in its properties.
LEMMA SameLedger == LedgerSpec => LP!Spec
<1>1. Ledger!Init => LP!Init
  BY DEF Ledger!Init, LP!Init
<1>2. \A S : LP!Cardinality(S) = Ledger!Cardinality(S)
  BY DEF LP!Cardinality, Ledger!Cardinality
<1>3. \A l : LP!LiveFiles(l) = Ledger!LiveFiles(l)
  BY DEF LP!LiveFiles, Ledger!LiveFiles, LP!Live, Ledger!Live
<1>4. \A l : LP!Usage(l) = Ledger!Usage(l)
  BY <1>2, <1>3
     DEF LP!Usage, Ledger!Usage, LP!TotalBytes, Ledger!TotalBytes, LP!ByteSet, Ledger!ByteSet
<1>5. Ledger!Next => LP!Next
  BY <1>2, <1>3, <1>4
     DEF Ledger!Next, Ledger!Reserve, Ledger!Complete, Ledger!Release, Ledger!Miss,
         Ledger!Delete, Ledger!Retire,
         LP!Next, LP!Reserve, LP!Complete, LP!Release, LP!Miss, LP!Delete, LP!Retire
<1>6. [Ledger!Next]_Ledger!ledger => [LP!Next]_LP!ledger
  BY <1>5 DEF LP!ledger, Ledger!ledger
<1> QED
  BY <1>1, <1>6, PTL DEF LedgerSpec, Ledger!Spec, LP!Spec

\* What the ledger assumes of its constants.
LEMMA LedgerAssumptions == LP!LedgerConstants
<1>1. LP!IsFiniteSet(Files)
  BY DEF LP!IsFiniteSet, IsFiniteSet
<1>2. [l \in Links |-> effectiveLimits(l).maxFileBytes] \in [Links -> Nat]
  BY LimitsType
<1> QED
  BY <1>1, <1>2, LimitsType DEF LP!LedgerConstants

\* No link ever holds more completed and reserved bytes than its total, for
\* any number of concurrent requests (services/files.ts: reserveUpload).
THEOREM QuotaHolds == Spec => []QuotaHeld
<1>1. RowInv /\ LP!WithinTotal => QuotaHeld
  <2> SUFFICES ASSUME RowInv, LP!WithinTotal, NEW l \in Links, LinkMaxTotalBytes[l] # NoLimit
               PROVE  linkUsage(l).used_bytes + linkUsage(l).reserved_bytes
                          <= LinkMaxTotalBytes[l]
    BY DEF QuotaHeld
  <2>1. LP!Usage(l) <= LinkMaxTotalBytes[l]
    BY DEF LP!WithinTotal
  <2>2. LP!Usage(l) = Ledger!Usage(l)
    BY DEF LP!Usage, Ledger!Usage, LP!TotalBytes, Ledger!TotalBytes, LP!ByteSet,
           Ledger!ByteSet, LP!LiveFiles, Ledger!LiveFiles, LP!Live, Ledger!Live,
           LP!Cardinality, Ledger!Cardinality
  <2> QED
    BY <2>1, <2>2, UsageOfLink DEF RowInv
<1>2. LP!Spec => []LP!WithinTotal
  <2>1. LP!Spec => [](LP!WithinTotal /\ LP!WithinCount /\ LP!WithinFile)
    BY LedgerAssumptions, LP!LimitsHold
  <2> QED
    BY <2>1, PTL
<1> QED
  BY <1>1, <1>2, RowInvHolds, UploadsImplementLedger, SameLedger, PTL

\* No link ever has more completed and unfinished files than its count.
THEOREM CountHolds == Spec => []CountHeld
<1>1. RowInv /\ LP!WithinCount => CountHeld
  <2> SUFFICES ASSUME RowInv, LP!WithinCount, NEW l \in Links, LinkMaxFiles[l] # NoLimit
               PROVE  linkUsage(l).file_count + linkUsage(l).uploading_count
                          <= LinkMaxFiles[l]
    BY DEF CountHeld
  <2>1. LP!Cardinality(LP!LiveFiles(l)) <= LinkMaxFiles[l]
    BY DEF LP!WithinCount
  <2>2. LP!Cardinality(LP!LiveFiles(l)) = Ledger!Cardinality(Ledger!LiveFiles(l))
    BY DEF LP!LiveFiles, Ledger!LiveFiles, LP!Live, Ledger!Live,
           LP!Cardinality, Ledger!Cardinality
  <2> QED
    BY <2>1, <2>2, UsageOfLink DEF RowInv
<1>2. LP!Spec => []LP!WithinCount
  <2>1. LP!Spec => [](LP!WithinTotal /\ LP!WithinCount /\ LP!WithinFile)
    BY LedgerAssumptions, LP!LimitsHold
  <2> QED
    BY <2>1, PTL
<1> QED
  BY <1>1, <1>2, RowInvHolds, UploadsImplementLedger, SameLedger, PTL

\* Whichever of a late completion, an abort, an expiry and a deletion of one
\* upload comes last, it finds the row ended and leaves it so.
THEOREM RowsAdvance == Spec => RowsOnlyAdvance
<1>1. LP!Spec => LP!RowsOnlyAdvance
  BY LedgerAssumptions, LP!RowsAdvance
<1>2. LP!Ended = Ledger!Ended
  BY DEF LP!Ended, Ledger!Ended
<1>3. [\A f \in Files :
          /\ status[f] \in LP!Ended => status'[f] = status[f]
          /\ status[f] = "complete" => status'[f] \in {"complete", "missing", "deleted"}
          /\ status[f] = "missing" => status'[f] \in {"missing", "deleted"}
          /\ status[f] # "none" => link'[f] = link[f]]_LP!ledger
      => [\A f \in Files :
          /\ status[f] \in Ledger!Ended => status'[f] = status[f]
          /\ status[f] = "complete" => status'[f] \in {"complete", "missing", "deleted"}
          /\ status[f] = "missing" => status'[f] \in {"missing", "deleted"}
          /\ status[f] # "none" => link'[f] = link[f]]_Ledger!ledger
  BY <1>2 DEF LP!ledger, Ledger!ledger
<1> QED
  BY <1>1, <1>3, UploadsImplementLedger, SameLedger, PTL
     DEF RowsOnlyAdvance, Ledger!RowsOnlyAdvance, LP!RowsOnlyAdvance
=============================================================================
