----------------------------- MODULE FileLedger -----------------------------
(***************************************************************************)
(* What the files table promises, and nothing about how it is kept.       *)
(*                                                                         *)
(* A file row is reserved on a link, then completed, released, found       *)
(* missing or deleted.  `charge` is the number of bytes the row counts     *)
(* against its link: the reservation while the upload is under way, the    *)
(* size once it is complete, nothing in any other status.                  *)
(*                                                                         *)
(* A step here is one transaction of the database.  Module Uploads, which  *)
(* has the requests, the storage and the cleanup, implements this one.     *)
(***************************************************************************)
EXTENDS Naturals, FiniteSets, Bytes

CONSTANTS
    Files,       \* the identities of file rows, made by newId('f')
    Links,       \* the upload links
    FileLimit,   \* FileLimit[l]:  bytes in one file
    CountLimit,  \* CountLimit[l]: files on the link, or NoLimit
    TotalLimit,  \* TotalLimit[l]: bytes on the link, or NoLimit
    NoLimit,     \* a NULL column: the limit is not set
    NoLink       \* the link of a row that was never inserted

ASSUME LedgerConstants ==
    /\ IsFiniteSet(Files)
    /\ NoLimit \notin Nat
    /\ NoLink \notin Links
    /\ FileLimit  \in [Links -> Nat]
    /\ CountLimit \in [Links -> Nat \cup {NoLimit}]
    /\ TotalLimit \in [Links -> Nat \cup {NoLimit}]

VARIABLES
    status,  \* status[f]: "none" before the row is inserted
    link,    \* link[f]: the link that created the row
    charge   \* charge[f]: the bytes the row counts for

ledger == <<status, link, charge>>

Live   == {"uploading", "complete"}
Ended  == {"aborted", "expired", "deleted"}
Status == {"none", "missing"} \cup Live \cup Ended

\* Operators named Bug... are mistakes the code does not make; no action uses
\* them.  They show that a property tells the code from the mistake.
BugLiveIsComplete(l) == {f \in Files : link[f] = l /\ status[f] = "complete"}

LiveFiles(l) == {f \in Files : link[f] = l /\ status[f] \in Live}

Usage(l) == TotalBytes(charge, LiveFiles(l))

-----------------------------------------------------------------------------
Init ==
    /\ status = [f \in Files |-> "none"]
    /\ link   = [f \in Files |-> NoLink]
    /\ charge = [f \in Files |-> 0]

Reserve(f, l, bytes) ==
    /\ status[f] = "none"
    /\ CountLimit[l] # NoLimit => Cardinality(LiveFiles(l)) < CountLimit[l]
    /\ TotalLimit[l] # NoLimit => Usage(l) + bytes <= TotalLimit[l]
    /\ status' = [status EXCEPT ![f] = "uploading"]
    /\ link'   = [link EXCEPT ![f] = l]
    /\ charge' = [charge EXCEPT ![f] = bytes]

\* Completing may return part of the reservation, never take more.
Complete(f, bytes) ==
    /\ status[f] = "uploading"
    /\ status' = [status EXCEPT ![f] = "complete"]
    /\ charge' = [charge EXCEPT ![f] = bytes]
    /\ UNCHANGED link

\* The row leaves the live statuses and its bytes return to the link.
Retire(f, from, to) ==
    /\ status[f] \in from
    /\ status' = [status EXCEPT ![f] = to]
    /\ charge' = [charge EXCEPT ![f] = 0]
    /\ UNCHANGED link

Release(f) == \E to \in {"aborted", "expired"} : Retire(f, {"uploading"}, to)
Miss(f)    == Retire(f, {"complete"}, "missing")
Delete(f)  == Retire(f, {"complete", "missing"}, "deleted")

Next ==
    \E f \in Files :
        \/ \E l \in Links : \E bytes \in 0 .. FileLimit[l] : Reserve(f, l, bytes)
        \/ \E bytes \in 0 .. charge[f] : Complete(f, bytes)
        \/ Release(f)
        \/ Miss(f)
        \/ Delete(f)

Spec == Init /\ [][Next]_ledger

-----------------------------------------------------------------------------
TypeOK ==
    /\ status \in [Files -> Status]
    /\ link   \in [Files -> Links \cup {NoLink}]
    /\ charge \in [Files -> Nat]

\* The completed and the reserved bytes of a link never exceed its total.
WithinTotal == \A l \in Links : TotalLimit[l] # NoLimit => Usage(l) <= TotalLimit[l]

\* The completed and the unfinished files of a link never exceed its count.
WithinCount ==
    \A l \in Links :
        CountLimit[l] # NoLimit => Cardinality(LiveFiles(l)) <= CountLimit[l]

\* No row counts for more than one file of its link may hold.
WithinFile == \A f \in Files : status[f] \in Live => charge[f] <= FileLimit[link[f]]

\* Only a live row counts for anything: what ends returns all it held.
EndedHoldsNothing == \A f \in Files : status[f] \notin Live => charge[f] = 0

\* A row that ended stays as it is, a completed row never becomes an upload
\* again, and a row never moves to another link.
RowsOnlyAdvance ==
    [][\A f \in Files :
        /\ status[f] \in Ended => status'[f] = status[f]
        /\ status[f] = "complete" => status'[f] \in {"complete", "missing", "deleted"}
        /\ status[f] = "missing" => status'[f] \in {"missing", "deleted"}
        /\ status[f] # "none" => link'[f] = link[f]]_ledger
=============================================================================
