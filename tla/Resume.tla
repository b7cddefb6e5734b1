------------------------------- MODULE Resume -------------------------------
(***************************************************************************)
(* One file sent over the tus endpoint by a client that can be run again:  *)
(* scripts/inletbox-upload.sh, or public/upload.js with tus-js-client.     *)
(*                                                                         *)
(* A client has one request out at a time, and the lock of the tus server  *)
(* ends an earlier PATCH before it serves the next request, so a request   *)
(* is one step: what the server did, and whether the answer arrived.  The  *)
(* steps within a request are those of Uploads.  Bytes are told apart by   *)
(* the version of the source file that they come from; its size stays.     *)
(***************************************************************************)
EXTENDS Naturals, FiniteSets

CONSTANTS
    Uploads,        \* upload ids, never used twice
    Size,           \* SIZE
    ChunkSize,      \* CHUNK_SIZE, cfg.chunkSize
    Versions,       \* bound of the model: times of change of the source file
    None

ASSUME ResumeConstants ==
    /\ Size \in Nat \ {0} /\ ChunkSize \in Nat \ {0}
    /\ Versions \in Nat \ {0}
    /\ None \notin Uploads

VARIABLES
    client,     \* "script" or "browser"
    version,    \* of the source file
    remembered, \* the state files, the entries of localStorage
    run,        \* of the client: what it is about to do
    open,       \* whether the link takes uploads
    status,     \* files.status, "none" before the POST
    offset,     \* bytes stored of each upload
    parts,      \* the versions that they come from
    \* For the properties only:
    cut,        \* uploads that were full when the server stopped
    unheard,    \* complete ones whose last answer was lost
    refused     \* ones that the client let go while the link was blocked

source  == <<client, version>>
uploads == <<status, offset, parts>>
ghosts  == <<cut, unheard, refused>>
vars    == <<source, remembered, run, open, uploads, ghosts>>

Run == [at : {"idle", "head", "post", "patch", "done"}, of : 1 .. Versions,
        url : Uploads \cup {None}, offset : 0 .. Size]

BugKeyOfBrowser(v) == 1

\* The script remembers by endpoint, path and size; tus-js-client also by the
\* time of change.
Key(v) == IF client = "script" THEN 1 ELSE v

-----------------------------------------------------------------------------
(* The client and its requests.                                            *)

\* startOrResume; the script run anew.
Start ==
    /\ run.at = "idle"
    /\ LET url == remembered[Key(version)] IN
       run' = [at |-> IF url = None THEN "post" ELSE "head", of |-> version, url |-> url, offset |-> 0]
    /\ UNCHANGED <<source, remembered, open, uploads, ghosts>>

\* No answer, or one that ends the run; the user tries again.
GivesUp == run' = [run EXCEPT !.at = "idle"]

BugAdmitsEnded(u) == open

\* onIncomingRequest, and requireLink before it
Admits(u) == open /\ status[u] = "uploading"

Head ==
    /\ run.at = "head" /\ Admits(run.url)
    /\ run' = [run EXCEPT !.at = "patch", !.offset = offset[run.url]]
    /\ UNCHANGED <<source, remembered, open, uploads, ghosts>>

BugFinishedIsNotGone(u) == ~open \/ status[u] = "expired"

\* 403, 404 and 410
Gone(u) == ~Admits(u)

HeadGone ==
    /\ run.at = "head" /\ Gone(run.url)
    /\ remembered' = [remembered EXCEPT ![Key(run.of)] = None]
    /\ run' = [run EXCEPT !.at = "post", !.url = None]
    /\ refused' = IF status[run.url] = "uploading" THEN refused \cup {run.url} ELSE refused
    /\ UNCHANGED <<source, open, uploads, cut, unheard>>

BugOneMore == run.offset <= Size

BugWholeChunks == run.offset + ChunkSize <= Size

More == run.offset < Size

BugFailForgets ==
    /\ run.at \in {"head", "post", "patch"} /\ More /\ GivesUp
    /\ remembered' = [remembered EXCEPT ![Key(run.of)] = None]
    /\ UNCHANGED <<source, open, uploads, ghosts>>

\* A request or its answer is lost, or the answer is a refusal: of a POST
\* while the link is blocked, of a PATCH also once the upload was expired.  A
\* client that is killed before it reports has lost the answer.
Fail ==
    /\ run.at \in {"head", "post", "patch"} /\ More /\ GivesUp
    /\ UNCHANGED <<source, remembered, open, uploads, ghosts>>

\* POST with onUploadCreate; the quota is that of Uploads.
Created(u) ==
    /\ run.at = "post" /\ open /\ status[u] = "none"
    /\ status' = [status EXCEPT ![u] = "uploading"]
    /\ \/ /\ remembered' = [remembered EXCEPT ![Key(run.of)] = u]
          /\ run' = [run EXCEPT !.at = "patch", !.url = u, !.offset = 0]
       \/ GivesUp /\ UNCHANGED remembered
    /\ UNCHANGED <<source, open, offset, parts, ghosts>>

\* The chunk is read from the file as it is now; the browser refuses to read
\* a file that changed since the user picked it.
Readable == client = "script" \/ version = run.of

\* 409 for another offset, 404 or 410 once the upload is over
Accepted == Readable /\ Admits(run.url) /\ offset[run.url] = run.offset

\* A PATCH that stores n bytes.
Store(n) ==
    /\ run.at = "patch" /\ More /\ Accepted
    /\ n <= ChunkSize /\ run.offset + n <= Size
    /\ offset' = [offset EXCEPT ![run.url] = @ + n]
    /\ parts'  = [parts EXCEPT ![run.url] = IF n = 0 THEN @ ELSE @ \cup {version}]
    /\ UNCHANGED <<source, remembered, open, refused>>

Full(n) == run.offset + n = Size

BugFinishedEarly(n) ==
    status' = IF run.offset + n + 1 >= Size THEN [status EXCEPT ![run.url] = "complete"] ELSE status

\* onUploadFinish
Finish(n) ==
    status' = IF Full(n) THEN [status EXCEPT ![run.url] = "complete"] ELSE status

Patched(n) ==
    /\ Store(n) /\ Finish(n)
    /\ n = ChunkSize \/ Full(n)
    /\ run' = [run EXCEPT !.offset = @ + n]
    /\ UNCHANGED <<cut, unheard>>

\* Broken off after n bytes, or the answer is lost.
PatchFails(n) ==
    /\ Store(n) /\ Finish(n) /\ GivesUp
    /\ unheard' = IF Full(n) THEN unheard \cup {run.url} ELSE unheard
    /\ UNCHANGED cut

\* The server stops between the last byte and onUploadFinish.
PatchCut(n) ==
    /\ Store(n) /\ Full(n) /\ GivesUp
    /\ cut' = cut \cup {run.url}
    /\ UNCHANGED <<status, unheard>>

\* "status":"complete", onSuccess
Done ==
    /\ run.at = "patch" /\ ~More
    /\ run' = [run EXCEPT !.at = "done"]
    /\ remembered' = [remembered EXCEPT ![Key(run.of)] = None]
    /\ UNCHANGED <<source, open, uploads, ghosts>>

-----------------------------------------------------------------------------
(* Around them.                                                            *)

Edit ==
    /\ version < Versions /\ version' = version + 1
    /\ UNCHANGED <<client, remembered, run, open, uploads, ghosts>>

\* The case is closed and reopened.
Reopen ==
    /\ open' = ~open
    /\ UNCHANGED <<source, remembered, run, uploads, ghosts>>

\* runCleanup, and a revocation
Expire(u) ==
    /\ status[u] = "uploading" /\ status' = [status EXCEPT ![u] = "expired"]
    /\ UNCHANGED <<source, remembered, run, open, offset, parts, ghosts>>

-----------------------------------------------------------------------------
Init ==
    /\ client \in {"script", "browser"} /\ version = 1
    /\ remembered = [k \in 1 .. Versions |-> None]
    /\ run = [at |-> "idle", of |-> 1, url |-> None, offset |-> 0]
    /\ open = TRUE
    /\ status = [u \in Uploads |-> "none"]
    /\ offset = [u \in Uploads |-> 0] /\ parts = [u \in Uploads |-> {}]
    /\ cut = {} /\ unheard = {} /\ refused = {}

Next ==
    \/ Start \/ Head \/ HeadGone \/ Fail \/ Done \/ Edit \/ Reopen
    \/ \E u \in Uploads : Created(u) \/ Expire(u)
    \/ \E n \in 0 .. Size : Patched(n) \/ PatchFails(n) \/ PatchCut(n)

\* The user tries again until it is done, and some of what is sent gets through.
Fairness ==
    /\ WF_vars(Start \/ Done \/ (run.at = "patch" /\ ~Accepted /\ Fail))
    /\ SF_vars(Head \/ HeadGone)
    /\ SF_vars(\E u \in Uploads : Created(u) /\ run'.at = "patch")
    /\ SF_vars(\E n \in 0 .. Size : Patched(n))

Spec     == Init /\ [][Next]_vars
FairSpec == Spec /\ Fairness

-----------------------------------------------------------------------------
\* The state has its shape; a full upload is complete or was cut off.
TypeOK ==
    /\ client \in {"script", "browser"} /\ version \in 1 .. Versions
    /\ remembered \in [1 .. Versions -> Uploads \cup {None}]
    /\ run \in Run /\ open \in BOOLEAN
    /\ status \in [Uploads -> {"none", "uploading", "complete", "expired"}]
    /\ offset \in [Uploads -> 0 .. Size]
    /\ parts \in [Uploads -> SUBSET (1 .. Versions)]
    /\ cut \in SUBSET Uploads /\ unheard \in SUBSET Uploads /\ refused \in SUBSET Uploads
    /\ \A u \in Uploads : status[u] = "complete" => offset[u] = Size

\* What the client reports as complete is complete on the server, unless the
\* server stopped before onUploadFinish: then the client takes the offset of
\* the next HEAD for success.
ReportsComplete ==
    run.at = "done" => run.url \in cut \/ status[run.url] = "complete"

\* However often the client is run, the file arrives once, unless the answer
\* to the last PATCH was lost: then it is sent again.
ArrivesOnce ==
    \A u, w \in Uploads :
        status[u] = "complete" /\ status[w] = "complete" /\ u # w => {u, w} \cap unheard # {}

\* A file of the browser is the file as it once was, not parts of two versions.
OneVersion ==
    \A u \in Uploads :
        client = "browser" /\ status[u] = "complete" => Cardinality(parts[u]) = 1

\* What was sent is not lost: an upload with bytes is remembered while it lives,
\* unless the client let it go while the link was blocked, or took it for done.
NothingAbandoned ==
    \A u \in Uploads :
        status[u] = "uploading" /\ offset[u] > 0 =>
            \/ u \in refused \/ u \in cut
            \/ \E k \in 1 .. Versions : remembered[k] = u

\* An expired upload answers 410 whether its data is there or not.
Tus == INSTANCE TusUploads WITH
    Lengths  <- {Size},
    state    <- [u \in Uploads |-> IF status[u] = "expired" THEN "over" ELSE status[u]],
    length   <- [u \in Uploads |-> IF status[u] = "none" THEN 0 ELSE Size],
    kept     <- {u \in Uploads : status[u] # "none"},
    creating <- {}

\* The server that the client meets here keeps the promises of TusUploads,
\* which Uploads implements: no answer and no cut in a request leaves an upload
\* in a state that the interleaved requests of the server rule out.
TusSpec == Tus!Spec

\* Run again and again, the client comes to an end while the link takes uploads
\* and has room for another.
ComesToAnEnd ==
    <>[](open /\ \E u \in Uploads : status[u] = "none") => <>(run.at = "done")
=============================================================================
