----------------------------- MODULE TusUploads -----------------------------
(***************************************************************************)
(* What the tus endpoint promises the clients that send uploads to it.     *)
(* Uploads implements it with requests, loops and crashes that interleave; *)
(* Resume, where a request is one step, assumes no more of the server.     *)
(*                                                                         *)
(* The bytes that a client has got through stay, and their number never    *)
(* goes back, until the data is discarded as a whole; then it is gone for  *)
(* good.  An upload is complete when its last byte is there, or when it    *)
(* was about to complete while its data was discarded.  One that was given *)
(* up never completes, and one that is complete never changes.             *)
(***************************************************************************)
EXTENDS Naturals

CONSTANTS
    Uploads,    \* upload ids
    Lengths     \* the values of Upload-Length that the endpoint may take

VARIABLES
    state,      \* "none", "uploading", "complete"; "over" when it was given
                \*   up, "removed" when it was complete once
    length,     \* Upload-Length, 0 before the POST
    offset,     \* Upload-Offset, 0 without data
    kept,       \* uploads that have their data
    creating    \* uploads whose data is still to be created

tus == <<state, length, offset, kept, creating>>

Init ==
    /\ state  = [u \in Uploads |-> "none"]
    /\ length = [u \in Uploads |-> 0]
    /\ offset = [u \in Uploads |-> 0]
    /\ kept = {} /\ creating = {}

Becomes(u, from, to) ==
    state[u] = from /\ state' = [state EXCEPT ![u] = to]

\* A POST.  Its data may be there at once, or is to come.
Create(u, n) ==
    /\ Becomes(u, "none", "uploading")
    /\ length' = [length EXCEPT ![u] = n]
    /\ \/ kept' = kept \cup {u} /\ UNCHANGED creating
       \/ creating' = creating \cup {u} /\ UNCHANGED kept
    /\ UNCHANGED offset

Open(u) ==
    /\ u \in creating /\ u \notin kept
    /\ creating' = creating \ {u} /\ kept' = kept \cup {u}
    /\ UNCHANGED <<state, length, offset>>

\* Creations break off, all of them when the server stops.
Break ==
    /\ creating' \in SUBSET creating
    /\ UNCHANGED <<state, length, offset, kept>>

\* A PATCH gets through to offset n, and the upload may complete at its end.
\* Data of an upload that was given up may still grow.
Append(u, n) ==
    /\ u \in kept /\ state[u] \in {"uploading", "over"}
    /\ offset[u] <= n /\ n <= length[u]
    /\ offset' = [offset EXCEPT ![u] = n]
    /\ \/ UNCHANGED state
       \/ n = length[u] /\ Becomes(u, "uploading", "complete")
    /\ UNCHANGED <<length, kept, creating>>

\* An upload that was written to its end is completed, its data discarded or not.
Complete(u) ==
    /\ Becomes(u, "uploading", "complete")
    /\ u \in kept => offset[u] = length[u]
    /\ u \notin creating
    /\ UNCHANGED <<length, offset, kept, creating>>

\* Aborted or expired; deleted, or flagged missing.
End(u) ==
    /\ Becomes(u, "uploading", "over") \/ Becomes(u, "complete", "removed")
    /\ UNCHANGED <<length, offset, kept, creating>>

\* The data is discarded, or lost by storage.
Lose(u) ==
    /\ u \in kept /\ kept' = kept \ {u}
    /\ offset' = [offset EXCEPT ![u] = 0]
    /\ UNCHANGED <<state, length, creating>>

\* Storage brings back what it lost, which is all of a file that was complete.
Return(u) ==
    /\ u \notin kept /\ state[u] \in {"complete", "removed"}
    /\ kept' = kept \cup {u}
    /\ offset' = [offset EXCEPT ![u] = length[u]]
    /\ UNCHANGED <<state, length, creating>>

Next ==
    \/ \E u \in Uploads :
        \/ \E n \in Lengths : Create(u, n)
        \/ Open(u)
        \/ \E n \in 0 .. length[u] : Append(u, n)
        \/ Complete(u) \/ End(u) \/ Lose(u) \/ Return(u)
    \/ Break

Spec == Init /\ [][Next]_tus
=============================================================================
