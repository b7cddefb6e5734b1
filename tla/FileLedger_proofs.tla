------------------------- MODULE FileLedger_proofs -------------------------
(***************************************************************************)
(* The limits of a link hold in every state of the ledger, for any number  *)
(* of files and links and any limits.                                      *)
(***************************************************************************)
EXTENDS FileLedger, Bytes_proofs

\* A live row is a row of some link.
LiveHasLink == \A f \in Files : status[f] \in Live => link[f] \in Links

LedgerInv == TypeOK /\ LiveHasLink /\ EndedHoldsNothing /\ WithinFile

USE LedgerConstants

LEMMA LiveFilesFinite ==
    \A l : IsFiniteSet(LiveFiles(l)) /\ Cardinality(LiveFiles(l)) \in Nat
<1>1. ASSUME NEW l
      PROVE  IsFiniteSet(LiveFiles(l)) /\ Cardinality(LiveFiles(l)) \in Nat
  <2>1. LiveFiles(l) \in SUBSET Files
    BY DEF LiveFiles
  <2>2. IsFiniteSet(LiveFiles(l))
    BY <2>1, FS_Subset
  <2> QED
    BY <2>2, FS_CardinalityType
<1> QED
  BY <1>1

\* The rows are well formed, and what a row counts for fits its status.
LEMMA LedgerInvHolds == Spec => []LedgerInv
<1> USE DEF LedgerInv, TypeOK, LiveHasLink, EndedHoldsNothing, WithinFile,
            Live, Ended, Status
<1>1. Init => LedgerInv
  BY DEF Init
<1>2. LedgerInv /\ [Next]_ledger => LedgerInv'
  <2> SUFFICES ASSUME LedgerInv, [Next]_ledger
               PROVE  LedgerInv'
    OBVIOUS
  <2>1. ASSUME NEW f \in Files, NEW l \in Links, NEW bytes \in 0 .. FileLimit[l],
               Reserve(f, l, bytes)
        PROVE  LedgerInv'
    BY <2>1 DEF Reserve
  <2>2. ASSUME NEW f \in Files, NEW bytes \in 0 .. charge[f], Complete(f, bytes)
        PROVE  LedgerInv'
    BY <2>2 DEF Complete
  <2>3. ASSUME NEW f \in Files, Release(f) \/ Miss(f) \/ Delete(f)
        PROVE  LedgerInv'
    BY <2>3 DEF Release, Miss, Delete, Retire
  <2>4. CASE UNCHANGED ledger
    BY <2>4 DEF ledger
  <2> QED
    BY <2>1, <2>2, <2>3, <2>4 DEF Next
<1> QED
  BY <1>1, <1>2, PTL DEF Spec

\* A step other than Reserve does not raise what a link uses.
LEMMA UsageOnlyFalls ==
    ASSUME TypeOK, TypeOK', NEW l,
           LiveFiles(l)' \subseteq LiveFiles(l),
           \A f \in LiveFiles(l)' : charge'[f] <= charge[f]
    PROVE  /\ Usage(l)' <= Usage(l)
           /\ Cardinality(LiveFiles(l)') <= Cardinality(LiveFiles(l))
           /\ Usage(l)' \in Nat /\ Usage(l) \in Nat
<1> DEFINE before == LiveFiles(l)
           after  == LiveFiles(l)'
<1>1. IsFiniteSet(before) /\ after \in SUBSET before /\ IsFiniteSet(after)
  BY LiveFilesFinite, FS_Subset
<1>2. /\ \A f \in before : charge[f] \in Nat
      /\ \A f \in after : charge'[f] \in Nat
  BY DEF LiveFiles, TypeOK
<1> HIDE DEF before, after
<1>3. TotalBytes(charge', after) <= TotalBytes(charge, before)
  BY <1>1, <1>2, TotalBytesLess DEF after
<1>4. TotalBytes(charge', after) \in Nat /\ TotalBytes(charge, before) \in Nat
  BY <1>1, <1>2, TotalBytesType
<1>5. Cardinality(after) <= Cardinality(before)
  BY <1>1, FS_Subset
<1> QED
  BY <1>3, <1>4, <1>5 DEF Usage, before, after, TotalBytes, ByteSet

\* The row that is inserted adds its reservation to its own link, and one file.
LEMMA ReserveAdds ==
    ASSUME LedgerInv, LedgerInv', NEW f \in Files, NEW l \in Links,
           NEW bytes \in 0 .. FileLimit[l], Reserve(f, l, bytes)
    PROVE  /\ Usage(l)' = Usage(l) + bytes
           /\ Cardinality(LiveFiles(l)') = Cardinality(LiveFiles(l)) + 1
           /\ \A k \in Links \ {l} : LiveFiles(k)' \subseteq LiveFiles(k)
           /\ \A g \in Files \ {f} : charge'[g] = charge[g]
<1> USE DEF LedgerInv, TypeOK
<1> DEFINE before == LiveFiles(l)
<1>1. f \notin before /\ LiveFiles(l)' = before \cup {f}
  BY DEF Reserve, LiveFiles, Live
<1>2. IsFiniteSet(before) /\ Cardinality(before) \in Nat
  BY LiveFilesFinite
<1>3. /\ \A g \in before : charge'[g] = charge[g] /\ charge[g] \in Nat
      /\ charge'[f] = bytes /\ charge'[f] \in Nat
  BY <1>1 DEF Reserve, LiveFiles
<1>4. \A k \in Links \ {l} : LiveFiles(k)' \subseteq LiveFiles(k)
  BY DEF Reserve, LiveFiles
<1>5. \A g \in Files \ {f} : charge'[g] = charge[g]
  BY DEF Reserve
<1> HIDE DEF before
<1>6. TotalBytes(charge', before \cup {f}) = TotalBytes(charge, before) + bytes
  BY <1>1, <1>2, <1>3, TotalBytesAdd
<1>7. Cardinality(before \cup {f}) = Cardinality(before) + 1
  BY <1>1, <1>2, FS_AddElement
<1> QED
  BY <1>1, <1>4, <1>5, <1>6, <1>7 DEF before, Usage, TotalBytes, ByteSet

LedgerSafe == LedgerInv /\ WithinTotal /\ WithinCount

\* Init and every step keep the limits: only Reserve adds to a link, and what
\* it adds was checked against the same sums.
LEMMA LimitsInductive ==
    ASSUME LedgerSafe, LedgerInv', [Next]_ledger
    PROVE  WithinTotal' /\ WithinCount'
<1> USE DEF LedgerSafe
<1> TypeOK /\ TypeOK'
  BY DEF LedgerInv
<1>1. ASSUME NEW f \in Files, NEW l \in Links, NEW bytes \in 0 .. FileLimit[l],
             Reserve(f, l, bytes)
      PROVE  WithinTotal' /\ WithinCount'
  <2>1. ASSUME NEW k \in Links, k # l
        PROVE  /\ Usage(k)' <= Usage(k)
               /\ Cardinality(LiveFiles(k)') <= Cardinality(LiveFiles(k))
               /\ Usage(k)' \in Nat /\ Usage(k) \in Nat
    <3>1. LiveFiles(k)' \subseteq LiveFiles(k)
      BY <1>1, <2>1, ReserveAdds
    <3>2. ASSUME NEW g \in LiveFiles(k)'
          PROVE  charge'[g] <= charge[g]
      <4>1. g \in LiveFiles(k) /\ g \in Files
        BY <3>1, <3>2 DEF LiveFiles
      <4>2. g # f
        BY <1>1, <4>1 DEF Reserve, LiveFiles, Live
      <4>3. charge'[g] = charge[g] /\ charge[g] \in Nat
        BY <1>1, <4>1, <4>2, ReserveAdds DEF TypeOK
      <4> QED
        BY <4>3
    <3> QED
      BY <3>1, <3>2, UsageOnlyFalls
  <2>2. TotalLimit[l] # NoLimit => Usage(l)' <= TotalLimit[l]
    BY <1>1, ReserveAdds DEF Reserve
  <2>3. CountLimit[l] # NoLimit => Cardinality(LiveFiles(l)') <= CountLimit[l]
    <3>1. Cardinality(LiveFiles(l)') = Cardinality(LiveFiles(l)) + 1
      BY <1>1, ReserveAdds
    <3>2. CountLimit[l] # NoLimit => Cardinality(LiveFiles(l)) < CountLimit[l]
      BY <1>1 DEF Reserve
    <3>3. Cardinality(LiveFiles(l)) \in Nat /\ CountLimit[l] \in Nat \cup {NoLimit}
      BY LiveFilesFinite
    <3> QED
      BY <3>1, <3>2, <3>3
  <2>4. ASSUME NEW k \in Links
        PROVE  /\ TotalLimit[k] # NoLimit => Usage(k)' <= TotalLimit[k]
               /\ CountLimit[k] # NoLimit => Cardinality(LiveFiles(k)') <= CountLimit[k]
    <3>1. CASE k = l
      BY <2>2, <2>3, <3>1
    <3>2. CASE k # l
      <4>1. TotalLimit[k] \in Nat \cup {NoLimit} /\ CountLimit[k] \in Nat \cup {NoLimit}
        OBVIOUS
      <4>2. Cardinality(LiveFiles(k)) \in Nat
        BY LiveFilesFinite
      <4>3. Cardinality(LiveFiles(k)') \in Nat
        <5>1. LiveFiles(k)' \in SUBSET LiveFiles(k)
          BY <1>1, <3>2, ReserveAdds
        <5> QED
          BY <5>1, LiveFilesFinite, FS_Subset, FS_CardinalityType
      <4> QED
        BY <2>1, <3>2, <4>1, <4>2, <4>3 DEF WithinTotal, WithinCount
    <3> QED
      BY <3>1, <3>2
  <2> QED
    BY <2>4 DEF WithinTotal, WithinCount
<1>2. ASSUME NEW k \in Links,
             LiveFiles(k)' \subseteq LiveFiles(k),
             \A g \in LiveFiles(k)' : charge'[g] <= charge[g]
      PROVE  /\ TotalLimit[k] # NoLimit => Usage(k)' <= TotalLimit[k]
             /\ CountLimit[k] # NoLimit => Cardinality(LiveFiles(k)') <= CountLimit[k]
  <2>1. TotalLimit[k] \in Nat \cup {NoLimit} /\ CountLimit[k] \in Nat \cup {NoLimit}
    OBVIOUS
  <2>2. Cardinality(LiveFiles(k)) \in Nat
    BY LiveFilesFinite
  <2>3. Cardinality(LiveFiles(k)') \in Nat
    BY <1>2, LiveFilesFinite, FS_Subset, FS_CardinalityType
  <2> QED
    BY <1>2, <2>1, <2>2, <2>3, UsageOnlyFalls DEF WithinTotal, WithinCount
<1>3. ASSUME NEW f \in Files, NEW bytes \in 0 .. charge[f], Complete(f, bytes), NEW k \in Links
      PROVE  /\ LiveFiles(k)' \subseteq LiveFiles(k)
             /\ \A g \in LiveFiles(k)' : charge'[g] <= charge[g]
  BY <1>3 DEF Complete, LiveFiles, Live, TypeOK
<1>4. ASSUME NEW f \in Files, Release(f) \/ Miss(f) \/ Delete(f), NEW k \in Links
      PROVE  /\ LiveFiles(k)' \subseteq LiveFiles(k)
             /\ \A g \in LiveFiles(k)' : charge'[g] <= charge[g]
  BY <1>4 DEF Release, Miss, Delete, Retire, LiveFiles, Live, TypeOK
<1>5. ASSUME UNCHANGED ledger, NEW k \in Links
      PROVE  /\ LiveFiles(k)' \subseteq LiveFiles(k)
             /\ \A g \in LiveFiles(k)' : charge'[g] <= charge[g]
  BY <1>5 DEF ledger, LiveFiles, TypeOK
<1> QED
  BY <1>1, <1>2, <1>3, <1>4, <1>5 DEF Next, WithinTotal, WithinCount

LEMMA LedgerSafeHolds == Spec => []LedgerSafe
<1>1. Init => WithinTotal /\ WithinCount
  <2> SUFFICES ASSUME Init, NEW l \in Links
               PROVE  /\ TotalLimit[l] # NoLimit => Usage(l) <= TotalLimit[l]
                      /\ CountLimit[l] # NoLimit =>
                             Cardinality(LiveFiles(l)) <= CountLimit[l]
    BY DEF WithinTotal, WithinCount
  <2>1. LiveFiles(l) = {}
    BY DEF Init, LiveFiles, Live
  <2>2. Usage(l) = Cardinality({})
    <3>1. ByteSet(charge, {}) = {}
      BY DEF ByteSet
    <3> QED
      BY <2>1, <3>1 DEF Usage, TotalBytes
  <2>3. Cardinality({}) = 0
    BY FS_EmptySet
  <2>4. TotalLimit[l] \in Nat \cup {NoLimit} /\ CountLimit[l] \in Nat \cup {NoLimit}
    OBVIOUS
  <2> QED
    BY <2>1, <2>2, <2>3, <2>4
<1>2. LedgerSafe /\ LedgerInv' /\ [Next]_ledger => LedgerSafe'
  BY LimitsInductive DEF LedgerSafe
<1> QED
  BY <1>1, <1>2, LedgerInvHolds, PTL DEF Spec, LedgerSafe

\* The rows are well formed.
THEOREM LedgerTypeCorrect == Spec => []TypeOK
BY LedgerInvHolds, PTL DEF LedgerInv

\* The bytes and the files of a link stay within its limits.
THEOREM LimitsHold == Spec => [](WithinTotal /\ WithinCount /\ WithinFile)
BY LedgerSafeHolds, PTL DEF LedgerSafe, LedgerInv

\* What a link's rows count for together never exceeds its total, however many
\* reservations and completions interleave.
THEOREM TotalHolds == Spec => []WithinTotal
BY LedgerSafeHolds, PTL DEF LedgerSafe

\* A link never has more completed and unfinished files than it may hold.
THEOREM CountHolds == Spec => []WithinCount
BY LedgerSafeHolds, PTL DEF LedgerSafe

\* A row that ends gives back all it held.
THEOREM EndedRowsHoldNothing == Spec => []EndedHoldsNothing
BY LedgerInvHolds, PTL DEF LedgerInv

\* A row goes forward through its statuses only, and stays with its link.
THEOREM RowsAdvance == Spec => RowsOnlyAdvance
<1>1. LedgerInv /\ [Next]_ledger =>
        [\A f \in Files :
            /\ status[f] \in Ended => status'[f] = status[f]
            /\ status[f] = "complete" => status'[f] \in {"complete", "missing", "deleted"}
            /\ status[f] = "missing" => status'[f] \in {"missing", "deleted"}
            /\ status[f] # "none" => link'[f] = link[f]]_ledger
  <2> SUFFICES ASSUME LedgerInv, Next, NEW f \in Files
               PROVE  /\ status[f] \in Ended => status'[f] = status[f]
                      /\ status[f] = "complete" =>
                             status'[f] \in {"complete", "missing", "deleted"}
                      /\ status[f] = "missing" => status'[f] \in {"missing", "deleted"}
                      /\ status[f] # "none" => link'[f] = link[f]
    BY DEF ledger
  <2> USE DEF LedgerInv, TypeOK, Ended
  <2>1. ASSUME NEW g \in Files, NEW l \in Links, NEW bytes \in 0 .. FileLimit[l],
               Reserve(g, l, bytes)
        PROVE  \/ UNCHANGED <<status[f], link[f]>>
               \/ status[f] = "none"
    BY <2>1 DEF Reserve
  <2>2. ASSUME NEW g \in Files, NEW bytes \in 0 .. charge[g], Complete(g, bytes)
        PROVE  \/ UNCHANGED <<status[f], link[f]>>
               \/ status[f] = "uploading" /\ link'[f] = link[f]
    BY <2>2 DEF Complete
  <2>3. ASSUME NEW g \in Files, Release(g)
        PROVE  \/ UNCHANGED <<status[f], link[f]>>
               \/ status[f] = "uploading" /\ link'[f] = link[f]
    BY <2>3 DEF Release, Retire
  <2>4. ASSUME NEW g \in Files, Miss(g)
        PROVE  \/ UNCHANGED <<status[f], link[f]>>
               \/ status[f] = "complete" /\ status'[f] = "missing" /\ link'[f] = link[f]
    BY <2>4 DEF Miss, Retire
  <2>5. ASSUME NEW g \in Files, Delete(g)
        PROVE  \/ UNCHANGED <<status[f], link[f]>>
               \/ /\ status[f] \in {"complete", "missing"}
                  /\ status'[f] = "deleted" /\ link'[f] = link[f]
    BY <2>5 DEF Delete, Retire
  <2> QED
    BY <2>1, <2>2, <2>3, <2>4, <2>5 DEF Next
<1> QED
  BY <1>1, LedgerInvHolds, PTL DEF Spec, RowsOnlyAdvance
=============================================================================
