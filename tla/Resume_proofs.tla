--------------------------- MODULE Resume_proofs ---------------------------
(***************************************************************************)
(* What Resume promises of the file that is sent holds for any size, chunk *)
(* size and number of attempts.                                            *)
(***************************************************************************)
EXTENDS Resume, FiniteSetTheorems, TLAPS

\* What the client works on is what it remembers, and it is never ahead of
\* the server.
Following ==
    /\ run.at \in {"head", "patch"} => run.url \in Uploads /\ remembered[Key(run.of)] = run.url
    /\ run.at = "post" => remembered[Key(run.of)] = None
    /\ run.at \in {"patch", "done"} => run.url \in Uploads /\ run.offset <= offset[run.url]
    /\ run.at = "done" => run.offset = Size

\* An upload is remembered once, under one key.
Remembering ==
    \A k \in 1 .. Versions :
        remembered[k] # None =>
            /\ status[remembered[k]] # "none"
            /\ \A j \in 1 .. Versions : remembered[j] = remembered[k] => j = k

\* Only a server that stopped leaves a full upload that is not complete.
Filled ==
    \A u \in Uploads :
        /\ status[u] = "none" => offset[u] = 0
        /\ offset[u] = Size => status[u] = "complete" \/ u \in cut
        /\ offset[u] = 0 <=> parts[u] = {}

\* A complete upload whose last answer arrived ends the run.
Heard ==
    \A u \in Uploads :
        status[u] = "complete" /\ u \notin unheard =>
            run.at \in {"patch", "done"} /\ run.url = u /\ run.offset = Size

\* The browser stores under a version's key only what comes from that version.
Sorted ==
    client = "browser" =>
        /\ \A u \in Uploads : \E v \in 1 .. Versions : parts[u] \subseteq {v}
        /\ \A k \in 1 .. Versions : remembered[k] # None => parts[remembered[k]] \subseteq {k}

IInv == TypeOK /\ Following /\ Remembering /\ Filled /\ Heard /\ Sorted /\ NothingAbandoned

USE ResumeConstants DEF ResumeConstants

-----------------------------------------------------------------------------
(* The helpers.                                                            *)

LEMMA KeyType ==
    ASSUME TypeOK
    PROVE  \A v \in 1 .. Versions : Key(v) \in 1 .. Versions
BY DEF TypeOK, Key

LEMMA KeySame ==
    ASSUME client' = client
    PROVE  \A v : Key(v)' = Key(v)
BY DEF Key

LEMMA RunFacts ==
    ASSUME TypeOK
    PROVE  /\ run.of \in 1 .. Versions /\ Key(run.of) \in 1 .. Versions
           /\ run.url \in Uploads \cup {None} /\ run.offset \in 0 .. Size
BY KeyType DEF TypeOK, Run

LEMMA GivesUpFacts ==
    ASSUME TypeOK, GivesUp
    PROVE  /\ run' \in Run /\ run'.at = "idle" /\ run'.of = run.of
           /\ run'.url = run.url /\ run'.offset = run.offset
BY DEF TypeOK, GivesUp, Run

\* What every PATCH that is accepted does, whatever comes after it.
LEMMA StoreFacts ==
    ASSUME TypeOK, Following, NEW n \in 0 .. Size, Store(n)
    PROVE  /\ run.at = "patch" /\ run.url \in Uploads /\ remembered[Key(run.of)] = run.url
           /\ status[run.url] = "uploading" /\ offset[run.url] = run.offset /\ run.offset < Size
           /\ client' = client /\ version' = version /\ remembered' = remembered
           /\ open' = open /\ refused' = refused
           /\ offset' \in [Uploads -> 0 .. Size] /\ offset'[run.url] = run.offset + n
           /\ parts' \in [Uploads -> SUBSET (1 .. Versions)]
           /\ parts'[run.url] = IF n = 0 THEN parts[run.url] ELSE parts[run.url] \cup {version}
           /\ \A u \in Uploads : u # run.url => offset'[u] = offset[u] /\ parts'[u] = parts[u]
<1>1. run.at = "patch" /\ run.url \in Uploads /\ remembered[Key(run.of)] = run.url
  BY DEF Store, Following
<1>2. run.offset \in 0 .. Size /\ run.offset + n \in 0 .. Size /\ version \in 1 .. Versions
  BY RunFacts DEF Store, TypeOK
<1> QED
  BY <1>1, <1>2 DEF Store, Accepted, Admits, More, TypeOK, source

LEMMA FinishFacts ==
    ASSUME TypeOK, NEW n \in 0 .. Size, run.url \in Uploads, Finish(n)
    PROVE  /\ status' \in [Uploads -> {"none", "uploading", "complete", "expired"}]
           /\ status'[run.url] = IF run.offset + n = Size THEN "complete" ELSE status[run.url]
           /\ \A u \in Uploads : u # run.url => status'[u] = status[u]
BY DEF TypeOK, Finish, Full

LEMMA PatchedFacts ==
    ASSUME TypeOK, NEW n \in 0 .. Size, Store(n), Patched(n)
    PROVE  /\ run' \in Run /\ run'.at = run.at /\ run'.of = run.of
           /\ run'.url = run.url /\ run'.offset = run.offset + n
BY DEF TypeOK, Patched, Store, Run

-----------------------------------------------------------------------------
(* Each conjunct of IInv, kept by each step.                               *)

LEMMA TypeKept ==
    ASSUME TypeOK, Following, Next
    PROVE  TypeOK'
<1>0. run.of \in 1 .. Versions /\ Key(run.of) \in 1 .. Versions
  BY RunFacts
<1>1. CASE Start
  <2>1. remembered[Key(version)] \in Uploads \cup {None}
    BY KeyType DEF TypeOK
  <2>2. run' \in Run
    BY <1>1, <2>1 DEF Start, TypeOK, Run
  <2> QED
    BY <1>1, <2>2 DEF TypeOK, Start, source, uploads, ghosts
<1>2. CASE Head
  <2>1. run.url \in Uploads
    BY <1>2 DEF Head, Following
  <2>2. run' \in Run
    BY <1>2, <2>1 DEF Head, TypeOK, Run
  <2> QED
    BY <1>2, <2>2 DEF TypeOK, Head, source, uploads, ghosts
<1>3. CASE HeadGone
  <2>1. run.url \in Uploads
    BY <1>3 DEF HeadGone, Following
  <2>2. run' \in Run /\ refused' \in SUBSET Uploads
    BY <1>3, <2>1 DEF HeadGone, TypeOK, Run
  <2> QED
    BY <1>0, <1>3, <2>2 DEF TypeOK, HeadGone, source, uploads
<1>4. CASE Fail
  BY <1>4, GivesUpFacts DEF TypeOK, Fail, source, uploads, ghosts
<1>5. CASE Done
  <2>1. run' \in Run
    BY <1>5 DEF Done, TypeOK, Run
  <2> QED
    BY <1>0, <1>5, <2>1 DEF TypeOK, Done, source, uploads, ghosts
<1>6. CASE Edit
  BY <1>6 DEF TypeOK, Edit, uploads, ghosts
<1>7. CASE Reopen
  BY <1>7 DEF TypeOK, Reopen, source, uploads, ghosts
<1>8. ASSUME NEW u \in Uploads, Created(u) PROVE TypeOK'
  <2>1. run' \in Run /\ remembered' \in [1 .. Versions -> Uploads \cup {None}]
    <3>1. CASE GivesUp /\ UNCHANGED remembered
      BY <3>1, GivesUpFacts DEF TypeOK
    <3>2. CASE /\ remembered' = [remembered EXCEPT ![Key(run.of)] = u]
               /\ run' = [run EXCEPT !.at = "patch", !.url = u, !.offset = 0]
      <4>1. run' \in Run
        <5>1. run \in Run /\ u \in Uploads \cup {None} /\ 0 \in 0 .. Size
          BY DEF TypeOK
        <5> QED
          BY <3>2, <5>1 DEF Run
      <4>2. remembered' \in [1 .. Versions -> Uploads \cup {None}]
        BY <3>2 DEF TypeOK
      <4> QED
        BY <4>1, <4>2
    <3> QED
      BY <1>8, <3>1, <3>2 DEF Created
  <2> QED
    BY <1>8, <2>1 DEF TypeOK, Created, source, ghosts
<1>9. ASSUME NEW u \in Uploads, Expire(u) PROVE TypeOK'
  BY <1>9 DEF TypeOK, Expire, source, ghosts
<1>10. ASSUME NEW n \in 0 .. Size, Patched(n) PROVE TypeOK'
  <2>1. Store(n) /\ Finish(n)
    BY <1>10 DEF Patched
  <2> QED
    BY <1>10, <2>1, StoreFacts, FinishFacts, PatchedFacts DEF TypeOK, Patched
<1>11. ASSUME NEW n \in 0 .. Size, PatchFails(n) PROVE TypeOK'
  <2>1. Store(n) /\ Finish(n) /\ GivesUp
    BY <1>11 DEF PatchFails
  <2> QED
    BY <1>11, <2>1, StoreFacts, FinishFacts, GivesUpFacts DEF TypeOK, PatchFails
<1>12. ASSUME NEW n \in 0 .. Size, PatchCut(n) PROVE TypeOK'
  <2>1. Store(n) /\ GivesUp
    BY <1>12 DEF PatchCut
  <2> QED
    BY <1>12, <2>1, StoreFacts, GivesUpFacts DEF TypeOK, PatchCut
<1> QED
  BY <1>1, <1>2, <1>3, <1>4, <1>5, <1>6, <1>7, <1>8, <1>9, <1>10, <1>11, <1>12 DEF Next

LEMMA FollowingKept ==
    ASSUME TypeOK, Following, Next
    PROVE  Following'
<1>0. run.of \in 1 .. Versions /\ Key(run.of) \in 1 .. Versions
  BY RunFacts
<1>1. CASE Start
  <2>1. remembered[Key(version)] \in Uploads \cup {None}
    BY KeyType DEF TypeOK
  <2> QED
    BY <1>1, <2>1, KeySame DEF Start, Following, source
<1>2. CASE Head
  <2>1. run'.at = "patch" /\ run'.url = run.url /\ run'.of = run.of /\ run'.offset = offset[run.url]
    BY <1>2 DEF Head, TypeOK, Run
  <2>2. run.url \in Uploads
    BY <1>2 DEF Head, Following
  <2>3. offset[run.url] \in Nat
    BY <2>2 DEF TypeOK
  <2> QED
    BY <1>2, <2>1, <2>2, <2>3, KeySame DEF Head, Following, source, uploads
<1>3. CASE HeadGone
  <2>1. run'.at = "post" /\ run'.of = run.of
    BY <1>3 DEF HeadGone, TypeOK, Run
  <2> QED
    BY <1>0, <1>3, <2>1, KeySame DEF HeadGone, TypeOK, Following, source
<1>4. ASSUME run'.at = "idle" PROVE Following'
  BY <1>4 DEF Following
<1>5. CASE Done
  <2>1. run'.at = "done" /\ run'.url = run.url /\ run'.offset = run.offset
    BY <1>5 DEF Done, TypeOK, Run
  <2>2. run.offset = Size
    BY <1>5, RunFacts DEF Done, More
  <2> QED
    BY <1>5, <2>1, <2>2 DEF Done, Following, uploads
<1>6. CASE UNCHANGED <<client, remembered, run, uploads>>
  BY <1>6, KeySame DEF Following, uploads
<1>8. ASSUME NEW u \in Uploads, Created(u) PROVE Following'
  <2>1. CASE GivesUp
    BY <1>4, <2>1, GivesUpFacts
  <2>2. CASE /\ remembered' = [remembered EXCEPT ![Key(run.of)] = u]
             /\ run' = [run EXCEPT !.at = "patch", !.url = u, !.offset = 0]
    <3>1. run'.at = "patch" /\ run'.url = u /\ run'.of = run.of /\ run'.offset = 0
      BY <2>2 DEF TypeOK, Run
    <3>2. remembered'[Key(run.of)] = u /\ offset'[u] >= 0
      BY <1>0, <1>8, <2>2 DEF TypeOK, Created
    <3> QED
      BY <1>8, <3>1, <3>2, KeySame DEF Created, Following, source
  <2> QED
    BY <1>8, <2>1, <2>2 DEF Created
<1>9. ASSUME NEW u \in Uploads, Expire(u) PROVE Following'
  BY <1>9, KeySame DEF Expire, Following, source
<1>10. ASSUME NEW n \in 0 .. Size, Patched(n) PROVE Following'
  <2>1. Store(n)
    BY <1>10 DEF Patched
  <2>2. run'.offset <= offset'[run'.url]
    BY <1>10, <2>1, StoreFacts, PatchedFacts, RunFacts
  <2> QED
    BY <1>10, <2>1, <2>2, StoreFacts, PatchedFacts, KeySame DEF Following
<1>11. \A n \in 0 .. Size : PatchFails(n) \/ PatchCut(n) => run'.at = "idle"
  BY GivesUpFacts DEF PatchFails, PatchCut
<1>12. Fail => run'.at = "idle"
  BY GivesUpFacts DEF Fail
<1>13. Edit \/ Reopen => UNCHANGED <<client, remembered, run, uploads>>
  BY DEF Edit, Reopen, source
<1> QED
  BY <1>1, <1>2, <1>3, <1>4, <1>5, <1>6, <1>8, <1>9, <1>10, <1>11, <1>12, <1>13 DEF Next

\* A step that starts or remembers no upload.
LEMMA StillRemembering ==
    ASSUME TypeOK, Remembering,
           \A k \in 1 .. Versions : remembered'[k] \in {remembered[k], None},
           \A u \in Uploads : status[u] # "none" => status'[u] # "none"
    PROVE  Remembering'
<1> SUFFICES ASSUME NEW k \in 1 .. Versions, remembered'[k] # None
             PROVE  /\ status'[remembered'[k]] # "none"
                    /\ \A j \in 1 .. Versions : remembered'[j] = remembered'[k] => j = k
  BY DEF Remembering
<1>1. remembered'[k] = remembered[k] /\ remembered[k] \in Uploads
  BY DEF TypeOK
<1> QED
  BY <1>1 DEF Remembering

LEMMA RememberingKept ==
    ASSUME TypeOK, Following, Remembering, Next
    PROVE  Remembering'
<1>0. run.of \in 1 .. Versions /\ Key(run.of) \in 1 .. Versions
  BY RunFacts
<1>1. CASE UNCHANGED <<remembered, status>>
  BY <1>1, StillRemembering
<1>2. CASE HeadGone
  BY <1>0, <1>2, StillRemembering DEF TypeOK, HeadGone, uploads
<1>3. CASE Done
  BY <1>0, <1>3, StillRemembering DEF TypeOK, Done, uploads
<1>4. ASSUME NEW u \in Uploads, Created(u) PROVE Remembering'
  <2>1. CASE remembered' = remembered
    BY <1>4, <2>1, StillRemembering DEF Created, TypeOK
  <2>2. CASE remembered' = [remembered EXCEPT ![Key(run.of)] = u]
    <3>1. \A k \in 1 .. Versions : remembered[k] # u
      BY <1>4 DEF Created, Remembering
    <3>2. \A k \in 1 .. Versions :
              remembered'[k] = IF k = Key(run.of) THEN u ELSE remembered[k]
      BY <1>0, <2>2 DEF TypeOK
    <3>3. \A w \in Uploads : status'[w] = IF w = u THEN "uploading" ELSE status[w]
      BY <1>4 DEF Created, TypeOK
    <3>4. \A k \in 1 .. Versions : remembered[k] \in Uploads \cup {None}
      BY DEF TypeOK
    <3> QED
      BY <1>0, <3>1, <3>2, <3>3, <3>4 DEF Remembering
  <2> QED
    BY <1>4, <2>1, <2>2 DEF Created
<1>5. ASSUME NEW u \in Uploads, Expire(u) PROVE Remembering'
  BY <1>5, StillRemembering DEF Expire, TypeOK
<1>6. ASSUME NEW n \in 0 .. Size, Patched(n) \/ PatchFails(n) PROVE Remembering'
  <2>1. Store(n) /\ Finish(n)
    BY <1>6 DEF Patched, PatchFails
  <2> QED
    BY <2>1, StoreFacts, FinishFacts, StillRemembering
<1>7. ASSUME NEW n \in 0 .. Size, PatchCut(n) PROVE Remembering'
  BY <1>1, <1>7, StoreFacts DEF PatchCut
<1>8. Start \/ Head \/ Fail \/ Edit \/ Reopen => UNCHANGED <<remembered, status>>
  BY DEF Start, Head, Fail, Edit, Reopen, uploads
<1> QED
  BY <1>1, <1>2, <1>3, <1>4, <1>5, <1>6, <1>7, <1>8 DEF Next

LEMMA FilledKept ==
    ASSUME TypeOK, Following, Filled, Next
    PROVE  Filled'
<1>1. CASE UNCHANGED <<uploads, cut>>
  BY <1>1 DEF Filled, uploads
<1>2. ASSUME NEW u \in Uploads, Created(u) PROVE Filled'
  BY <1>2 DEF Created, Filled, TypeOK, ghosts
<1>3. ASSUME NEW u \in Uploads, Expire(u) PROVE Filled'
  BY <1>3 DEF Expire, Filled, TypeOK, ghosts
<1>4. ASSUME NEW n \in 0 .. Size, Store(n)
      PROVE  \A u \in Uploads : offset'[u] = 0 <=> parts'[u] = {}
  <2>1. run.offset \in 0 .. Size /\ (offset[run.url] = 0 <=> parts[run.url] = {})
    BY <1>4, StoreFacts, RunFacts DEF Filled
  <2>2. offset'[run.url] = 0 <=> n = 0 /\ offset[run.url] = 0
    BY <1>4, <2>1, StoreFacts
  <2>3. parts'[run.url] = {} <=> n = 0 /\ parts[run.url] = {}
    BY <1>4, StoreFacts
  <2> QED
    BY <1>4, <2>1, <2>2, <2>3, StoreFacts DEF Filled
<1>5. ASSUME NEW n \in 0 .. Size, Patched(n) \/ PatchFails(n) PROVE Filled'
  <2>1. Store(n) /\ Finish(n) /\ cut' = cut
    BY <1>5 DEF Patched, PatchFails
  <2> QED
    BY <1>4, <2>1, StoreFacts, FinishFacts DEF Filled
<1>6. ASSUME NEW n \in 0 .. Size, PatchCut(n) PROVE Filled'
  <2>1. Store(n) /\ cut' = cut \cup {run.url} /\ status' = status
    BY <1>6 DEF PatchCut
  <2> QED
    BY <1>4, <2>1, StoreFacts DEF Filled
<1>7. Start \/ Head \/ HeadGone \/ Fail \/ Done \/ Edit \/ Reopen => UNCHANGED <<uploads, cut>>
  BY DEF Start, Head, HeadGone, Fail, Done, Edit, Reopen, ghosts
<1> QED
  BY <1>1, <1>2, <1>3, <1>5, <1>6, <1>7 DEF Next

LEMMA HeardKept ==
    ASSUME TypeOK, Following, Heard, Next
    PROVE  Heard'
<1>1. CASE UNCHANGED <<run, status, unheard>>
  BY <1>1 DEF Heard
<1>2. ASSUME run.at \notin {"patch", "done"} \/ run.offset # Size,
             \A u \in Uploads : status'[u] = "complete" => status[u] = "complete",
             unheard' = unheard
      PROVE  Heard'
  BY <1>2 DEF Heard
<1>3. CASE Done
  <2>1. run'.at = "done" /\ run'.url = run.url /\ run'.offset = run.offset
    BY <1>3 DEF Done, TypeOK, Run
  <2> QED
    BY <1>3, <2>1 DEF Done, Heard, uploads, ghosts
<1>4. CASE Start \/ Head \/ HeadGone
  BY <1>2, <1>4 DEF Start, Head, HeadGone, uploads, ghosts
<1>5. CASE Fail
  <2>1. run.offset # Size
    BY <1>5, RunFacts DEF Fail, More
  <2> QED
    BY <1>2, <1>5, <2>1 DEF Fail, uploads, ghosts
<1>6. ASSUME NEW u \in Uploads, Created(u) PROVE Heard'
  BY <1>2, <1>6 DEF Created, TypeOK, ghosts
<1>7. ASSUME NEW u \in Uploads, Expire(u) PROVE Heard'
  BY <1>7 DEF Expire, Heard, TypeOK, ghosts
<1>8. ASSUME NEW n \in 0 .. Size, Store(n)
      PROVE  /\ run.at = "patch" /\ run.url \in Uploads /\ run.offset < Size /\ run.offset \in Nat
             /\ \A u \in Uploads : status[u] = "complete" => u \in unheard
  BY <1>8, StoreFacts, RunFacts DEF Heard
<1>9. ASSUME NEW n \in 0 .. Size, Patched(n) PROVE Heard'
  <2>1. Store(n) /\ Finish(n) /\ unheard' = unheard
    BY <1>9 DEF Patched
  <2> QED
    BY <1>8, <1>9, <2>1, StoreFacts, FinishFacts, PatchedFacts DEF Heard
<1>10. ASSUME NEW n \in 0 .. Size, PatchFails(n) PROVE Heard'
  <2>1. Store(n) /\ Finish(n) /\ unheard' = IF run.offset + n = Size THEN unheard \cup {run.url} ELSE unheard
    BY <1>10 DEF PatchFails, Full
  <2> QED
    BY <1>8, <2>1, StoreFacts, FinishFacts DEF Heard
<1>11. ASSUME NEW n \in 0 .. Size, PatchCut(n) PROVE Heard'
  BY <1>8, <1>11 DEF PatchCut, Heard
<1>12. Edit \/ Reopen => UNCHANGED <<run, status, unheard>>
  BY DEF Edit, Reopen, uploads, ghosts
<1> QED
  BY <1>1, <1>3, <1>4, <1>5, <1>6, <1>7, <1>9, <1>10, <1>11, <1>12 DEF Next

LEMMA StillSorted ==
    ASSUME TypeOK, Sorted, client' = client, parts' = parts,
           \A k \in 1 .. Versions : remembered'[k] \in {remembered[k], None}
    PROVE  Sorted'
BY DEF Sorted

LEMMA SortedKept ==
    ASSUME TypeOK, Following, Remembering, Filled, Sorted, Next
    PROVE  Sorted'
<1>0. run.of \in 1 .. Versions /\ Key(run.of) \in 1 .. Versions
  BY RunFacts
<1>1. CASE UNCHANGED <<client, remembered, parts>>
  BY <1>1, StillSorted
<1>2. CASE HeadGone
  BY <1>0, <1>2, StillSorted DEF TypeOK, HeadGone, source, uploads
<1>3. CASE Done
  BY <1>0, <1>3, StillSorted DEF TypeOK, Done, source, uploads
<1>4. ASSUME NEW u \in Uploads, Created(u) PROVE Sorted'
  <2>1. parts[u] = {}
    BY <1>4 DEF Created, Filled
  <2>2. \A k \in 1 .. Versions : remembered'[k] = remembered[k] \/ remembered'[k] = u
    BY <1>0, <1>4 DEF Created, TypeOK
  <2> QED
    BY <1>4, <2>1, <2>2 DEF Created, Sorted, source
<1>5. ASSUME NEW n \in 0 .. Size, Store(n) PROVE Sorted'
  <2> SUFFICES ASSUME client = "browser" PROVE Sorted'
    BY <1>5, StoreFacts DEF Sorted
  <2>1. Key(run.of) = run.of /\ version = run.of
    BY <1>5 DEF Key, Store, Accepted, Readable
  <2>2. run.url \in Uploads /\ run.url # None /\ remembered[run.of] = run.url
    BY <1>5, <2>1, StoreFacts
  <2>3. parts[run.url] \subseteq {run.of}
    BY <1>0, <2>2 DEF Sorted
  <2>4. parts'[run.url] \subseteq {run.of}
    BY <1>5, <2>1, <2>3, StoreFacts
  <2>5. \A k \in 1 .. Versions : remembered[k] = run.url => k = run.of
    BY <1>0, <2>2 DEF Remembering
  <2>6. \A u \in Uploads : u # run.url => parts'[u] = parts[u]
    BY <1>5, StoreFacts
  <2>7. \A u \in Uploads : \E v \in 1 .. Versions : parts'[u] \subseteq {v}
    BY <1>0, <2>4, <2>6 DEF Sorted
  <2>8. \A k \in 1 .. Versions : remembered[k] # None => parts'[remembered[k]] \subseteq {k}
    BY <2>4, <2>5, <2>6 DEF Sorted, TypeOK
  <2> QED
    BY <1>5, <2>7, <2>8, StoreFacts DEF Sorted
<1>6. \A n \in 0 .. Size : Patched(n) \/ PatchFails(n) \/ PatchCut(n) => Store(n)
  BY DEF Patched, PatchFails, PatchCut
<1>7. Start \/ Head \/ Fail \/ Edit \/ Reopen => UNCHANGED <<client, remembered, parts>>
  BY DEF Start, Head, Fail, Edit, Reopen, source, uploads
<1>8. \A u \in Uploads : Expire(u) => UNCHANGED <<client, remembered, parts>>
  BY DEF Expire, source
<1> QED
  BY <1>1, <1>2, <1>3, <1>4, <1>5, <1>6, <1>7, <1>8 DEF Next

LEMMA NothingAbandonedKept ==
    ASSUME TypeOK, Following, Remembering, Filled, NothingAbandoned, Next
    PROVE  NothingAbandoned'
<1>0. run.of \in 1 .. Versions /\ Key(run.of) \in 1 .. Versions
  BY RunFacts
<1>1. CASE UNCHANGED <<remembered, status, offset, refused, cut>>
  BY <1>1 DEF NothingAbandoned
<1>2. CASE HeadGone
  <2>1. run.url = remembered[Key(run.of)]
    BY <1>2 DEF HeadGone, Following
  <2>2. \A k \in 1 .. Versions : remembered'[k] = IF k = Key(run.of) THEN None ELSE remembered[k]
    BY <1>2 DEF HeadGone, TypeOK
  <2>3. /\ status[run.url] = "uploading" => run.url \in refused'
        /\ refused \subseteq refused'
    BY <1>2 DEF HeadGone
  <2>4. UNCHANGED <<status, offset, cut>>
    BY <1>2 DEF HeadGone, uploads
  <2> SUFFICES ASSUME NEW u \in Uploads, status[u] = "uploading", offset[u] > 0,
                      u \notin refused', u \notin cut
               PROVE  \E k \in 1 .. Versions : remembered'[k] = u
    BY <2>4 DEF NothingAbandoned
  <2>5. PICK k \in 1 .. Versions : remembered[k] = u
    BY <2>3 DEF NothingAbandoned
  <2> QED
    BY <2>1, <2>2, <2>3, <2>5
<1>3. CASE Done
  <2>1. run.url = remembered[Key(run.of)] /\ run.url \in Uploads
    BY <1>3 DEF Done, Following
  <2>2. \A k \in 1 .. Versions : remembered'[k] = IF k = Key(run.of) THEN None ELSE remembered[k]
    BY <1>3 DEF Done, TypeOK
  <2>3. UNCHANGED <<status, offset, cut, refused>>
    BY <1>3 DEF Done, uploads, ghosts
  <2>4. status[run.url] = "complete" \/ run.url \in cut
    <3>1. run.offset = Size /\ run.offset <= offset[run.url]
      BY <1>3, RunFacts DEF Done, More, Following
    <3>2. offset[run.url] = Size
      BY <2>1, <3>1 DEF TypeOK
    <3> QED
      BY <2>1, <3>2 DEF Filled
  <2> SUFFICES ASSUME NEW u \in Uploads, status[u] = "uploading", offset[u] > 0,
                      u \notin refused, u \notin cut
               PROVE  \E k \in 1 .. Versions : remembered'[k] = u
    BY <2>3 DEF NothingAbandoned
  <2>5. PICK k \in 1 .. Versions : remembered[k] = u
    BY DEF NothingAbandoned
  <2> QED
    BY <2>1, <2>2, <2>4, <2>5
<1>4. ASSUME NEW u \in Uploads, Created(u) PROVE NothingAbandoned'
  <2>1. /\ offset' = offset /\ refused' = refused /\ cut' = cut /\ offset[u] = 0
        /\ \A w \in Uploads : w # u => status'[w] = status[w]
    BY <1>4 DEF Created, Filled, TypeOK, ghosts
  <2>2. \A k \in 1 .. Versions : remembered[k] \in Uploads => remembered'[k] = remembered[k]
    <3>1. remembered[Key(run.of)] = None
      BY <1>4 DEF Created, Following
    <3>2. \A k \in 1 .. Versions : k # Key(run.of) => remembered'[k] = remembered[k]
      BY <1>4 DEF Created, TypeOK
    <3> QED
      BY <3>1, <3>2
  <2> QED
    BY <2>1, <2>2 DEF NothingAbandoned
<1>5. ASSUME NEW u \in Uploads, Expire(u) PROVE NothingAbandoned'
  BY <1>5 DEF Expire, NothingAbandoned, TypeOK, ghosts
<1>6. ASSUME NEW n \in 0 .. Size, Store(n), cut \subseteq cut',
             \A u \in Uploads : status'[u] = "uploading" => status[u] = "uploading"
      PROVE  NothingAbandoned'
  <2>1. \E k \in 1 .. Versions : remembered'[k] = run.url
    BY <1>0, <1>6, StoreFacts
  <2> QED
    BY <1>6, <2>1, StoreFacts DEF NothingAbandoned
<1>7. ASSUME NEW n \in 0 .. Size, Patched(n) \/ PatchFails(n) \/ PatchCut(n)
      PROVE  NothingAbandoned'
  <2>1. CASE PatchCut(n)
    BY <1>6, <2>1 DEF PatchCut
  <2>2. CASE Patched(n) \/ PatchFails(n)
    <3>1. Store(n) /\ Finish(n) /\ cut' = cut
      BY <2>2 DEF Patched, PatchFails
    <3>2. \A u \in Uploads : status'[u] = "uploading" => status[u] = "uploading"
      BY <3>1, StoreFacts, FinishFacts
    <3> QED
      BY <1>6, <3>1, <3>2
  <2> QED
    BY <1>7, <2>1, <2>2
<1>8. Start \/ Head \/ Fail \/ Edit \/ Reopen => UNCHANGED <<remembered, status, offset, refused, cut>>
  BY DEF Start, Head, Fail, Edit, Reopen, uploads, ghosts
<1> QED
  BY <1>1, <1>2, <1>3, <1>4, <1>5, <1>7, <1>8 DEF Next

-----------------------------------------------------------------------------
(* The theorems.                                                           *)

\* The strengthening is an invariant: what the client remembers and is about
\* to do agrees with what the server holds of its uploads.
THEOREM Invariant == Spec => []IInv
<1>1. Init => IInv
  BY DEF Init, IInv, TypeOK, Run, Following, Remembering, Filled, Heard, Sorted, NothingAbandoned
<1>2. IInv /\ [Next]_vars => IInv'
  <2> SUFFICES ASSUME IInv, [Next]_vars PROVE IInv'
    OBVIOUS
  <2>1. CASE Next
    <3>1. TypeOK' /\ Following' /\ Remembering' /\ Filled'
      BY <2>1, TypeKept, FollowingKept, RememberingKept, FilledKept DEF IInv
    <3>2. Heard' /\ Sorted' /\ NothingAbandoned'
      BY <2>1, HeardKept, SortedKept, NothingAbandonedKept DEF IInv
    <3> QED
      BY <3>1, <3>2 DEF IInv
  <2>2. CASE UNCHANGED vars
    BY <2>2 DEF IInv, TypeOK, Following, Remembering, Filled, Heard, Sorted, NothingAbandoned, Key,
                vars, source, uploads, ghosts
  <2> QED
    BY <2>1, <2>2
<1> QED
  BY <1>1, <1>2, PTL DEF Spec

\* Every variable keeps its shape, and a complete upload holds all its bytes.
THEOREM TypeCorrect == Spec => []TypeOK
<1>1. IInv => TypeOK
  BY DEF IInv
<1> QED
  BY <1>1, Invariant, PTL

\* What the script and the page report as complete is, but for a stop of the
\* server before onUploadFinish.
THEOREM Reported == Spec => []ReportsComplete
<1>1. IInv => ReportsComplete
  <2> SUFFICES ASSUME IInv, run.at = "done" PROVE run.url \in cut \/ status[run.url] = "complete"
    BY DEF ReportsComplete
  <2>1. run.url \in Uploads /\ run.offset = Size /\ run.offset <= offset[run.url]
    BY DEF IInv, Following
  <2>2. offset[run.url] = Size
    BY <2>1 DEF IInv, TypeOK
  <2> QED
    BY <2>1, <2>2 DEF IInv, Filled
<1> QED
  BY <1>1, Invariant, PTL

\* However often the client is run, a second copy arrives only after the answer
\* to a last PATCH was lost.
THEOREM Once == Spec => []ArrivesOnce
<1>1. IInv => ArrivesOnce
  BY DEF IInv, Heard, ArrivesOnce
<1> QED
  BY <1>1, Invariant, PTL

\* The fingerprint of tus-js-client keeps the versions of a file apart.
THEOREM Unmixed == Spec => []OneVersion
<1>1. IInv => OneVersion
  <2> SUFFICES ASSUME IInv, NEW u \in Uploads, client = "browser", status[u] = "complete"
               PROVE  Cardinality(parts[u]) = 1
    BY DEF OneVersion
  <2>1. PICK v \in 1 .. Versions : parts[u] \subseteq {v}
    BY DEF IInv, Sorted
  <2>2. parts[u] # {}
    BY DEF IInv, TypeOK, Filled
  <2>3. parts[u] = {v}
    BY <2>1, <2>2
  <2> QED
    BY <2>3, FS_Singleton
<1> QED
  BY <1>1, Invariant, PTL

\* The state file and localStorage forget no upload that could be resumed,
\* unless a blocked link refused the HEAD.
THEOREM Kept == Spec => []NothingAbandoned
<1>1. IInv => NothingAbandoned
  BY DEF IInv
<1> QED
  BY <1>1, Invariant, PTL

\* Nobody but the run itself moves the upload that it sends: it is never told
\* that its offset is not the server's (409), however often it was cut off.
InStep == run.at = "patch" => run.offset = offset[run.url]

LEMMA InStepKept ==
    ASSUME IInv, InStep, Next
    PROVE  InStep'
<1>1. TypeOK /\ Following
  BY DEF IInv
<1>2. CASE Start \/ HeadGone \/ Fail \/ Done \/ Edit \/ Reopen
  <2>1. offset' = offset
    BY <1>2 DEF Start, HeadGone, Fail, Done, Edit, Reopen, uploads
  <2>2. run' = run \/ run'.at # "patch"
    <3>1. CASE Start \/ Edit \/ Reopen
      BY <3>1 DEF Start, Edit, Reopen
    <3>2. CASE HeadGone \/ Done
      BY <1>1, <3>2 DEF HeadGone, Done, TypeOK, Run
    <3> QED
      BY <1>1, <1>2, <3>1, <3>2, GivesUpFacts DEF Fail
  <2> QED
    BY <2>1, <2>2 DEF InStep
<1>6. CASE Head
  <2>1. run'.offset = offset[run.url] /\ run'.url = run.url /\ offset' = offset
    BY <1>1, <1>6 DEF Head, TypeOK, Run, uploads
  <2> QED
    BY <2>1 DEF InStep
<1>3. ASSUME NEW u \in Uploads, Created(u) PROVE InStep'
  <2>1. offset' = offset /\ offset[u] = 0
    BY <1>3 DEF Created, IInv, Filled
  <2>2. run'.at # "patch" \/ (run'.offset = 0 /\ run'.url = u)
    <3>1. CASE GivesUp
      BY <1>1, <3>1, GivesUpFacts
    <3>2. CASE run' = [run EXCEPT !.at = "patch", !.url = u, !.offset = 0]
      BY <1>1, <3>2 DEF TypeOK, Run
    <3> QED
      BY <1>3, <3>1, <3>2 DEF Created
  <2> QED
    BY <2>1, <2>2 DEF InStep
<1>4. ASSUME NEW u \in Uploads, Expire(u) PROVE InStep'
  BY <1>4 DEF Expire, InStep
<1>5. ASSUME NEW n \in 0 .. Size, Patched(n) \/ PatchFails(n) \/ PatchCut(n)
      PROVE  InStep'
  <2>1. Store(n)
    BY <1>5 DEF Patched, PatchFails, PatchCut
  <2>2. CASE Patched(n)
    BY <1>1, <2>1, <2>2, StoreFacts, PatchedFacts DEF InStep
  <2>3. CASE PatchFails(n) \/ PatchCut(n)
    BY <1>1, <2>3, GivesUpFacts DEF PatchFails, PatchCut, InStep
  <2> QED
    BY <1>5, <2>2, <2>3
<1> QED
  BY <1>2, <1>3, <1>4, <1>5, <1>6 DEF Next

\* No PATCH of the script or the page meets the 409 of a wrong Upload-Offset
\* (inletbox-upload.sh, upload.js): InStep holds in every state.
THEOREM NeverConflicts == Spec => []InStep
<1>1. Init => InStep
  BY DEF Init, InStep
<1>2. IInv /\ InStep /\ [Next]_vars => InStep'
  BY InStepKept DEF InStep, vars, uploads
<1> QED
  BY <1>1, <1>2, Invariant, PTL DEF Spec

-----------------------------------------------------------------------------
(* The server of Resume keeps the promises of TusUploads.                  *)

\* The refinement mapping, by names.
StateOf  == [u \in Uploads |-> IF status[u] = "expired" THEN "over" ELSE status[u]]
LengthOf == [u \in Uploads |-> IF status[u] = "none" THEN 0 ELSE Size]
KeptSet  == {u \in Uploads : status[u] # "none"}

\* Steps of the client alone.
LEMMA ClientSeen ==
    ASSUME UNCHANGED <<status, offset>>
    PROVE  UNCHANGED Tus!tus
BY DEF Tus!tus

LEMMA CreatedSeen ==
    ASSUME IInv, NEW u \in Uploads, Created(u)
    PROVE  Tus!Create(u, Size)
<1>1. /\ status[u] = "none" /\ status' = [status EXCEPT ![u] = "uploading"]
      /\ offset' = offset
  BY DEF Created
<1>2. Tus!Becomes(u, "none", "uploading")
  BY <1>1 DEF Tus!Becomes, IInv, TypeOK
<1>3. LengthOf' = [LengthOf EXCEPT ![u] = Size]
  BY <1>1 DEF LengthOf, IInv, TypeOK
<1>4. KeptSet' = KeptSet \cup {u}
  BY <1>1 DEF KeptSet, IInv, TypeOK
<1> QED
  BY <1>1, <1>2, <1>3, <1>4 DEF Tus!Create, LengthOf, KeptSet

LEMMA ExpireSeen ==
    ASSUME IInv, NEW u \in Uploads, Expire(u)
    PROVE  Tus!End(u)
<1>1. /\ status[u] = "uploading" /\ status' = [status EXCEPT ![u] = "expired"]
      /\ offset' = offset
  BY DEF Expire
<1>2. Tus!Becomes(u, "uploading", "over")
  BY <1>1 DEF Tus!Becomes, IInv, TypeOK
<1>3. LengthOf' = LengthOf /\ KeptSet' = KeptSet
  BY <1>1 DEF LengthOf, KeptSet, IInv, TypeOK
<1> QED
  BY <1>1, <1>2, <1>3 DEF Tus!End, LengthOf, KeptSet

\* A PATCH, cut off or not, heard or not.
LEMMA PatchSeen ==
    ASSUME IInv, NEW n \in 0 .. Size, Patched(n) \/ PatchFails(n) \/ PatchCut(n)
    PROVE  \E u \in Uploads : \E k \in 0 .. LengthOf[u] : Tus!Append(u, k)
<1>1. TypeOK /\ Following /\ Store(n)
  BY DEF IInv, Patched, PatchFails, PatchCut
<1>2. PICK u \in Uploads : u = run.url
  BY <1>1, StoreFacts
<1>3. /\ status[u] = "uploading" /\ offset[u] \in 0 .. Size
      /\ offset' = [offset EXCEPT ![u] = offset[u] + n] /\ offset[u] + n <= Size
  BY <1>1, <1>2 DEF Store, Accepted, Admits, TypeOK
<1>4. PICK k \in 0 .. Size : k = offset[u] + n
  BY <1>3
<1>5. \/ status' = status
      \/ status' = [status EXCEPT ![u] = "complete"] /\ k = Size
  BY <1>1, <1>2, <1>4 DEF Patched, PatchFails, PatchCut, Finish, Full, Store, Accepted
<1>6. LengthOf' = LengthOf /\ KeptSet' = KeptSet
  BY <1>1, <1>3, <1>5 DEF LengthOf, KeptSet, TypeOK
<1>7. StateOf' = StateOf \/ (Tus!Becomes(u, "uploading", "complete") /\ k = Size)
  <2>1. CASE status' = status
    BY <2>1 DEF StateOf
  <2>2. CASE status' = [status EXCEPT ![u] = "complete"] /\ k = Size
    BY <1>1, <1>3, <2>2 DEF Tus!Becomes, TypeOK
  <2> QED
    BY <1>5, <2>1, <2>2
<1>8. LengthOf[u] = Size /\ StateOf[u] = "uploading" /\ u \in KeptSet
  BY <1>3 DEF LengthOf, StateOf, KeptSet
<1>9. Tus!Append(u, k)
  BY <1>3, <1>4, <1>6, <1>7, <1>8 DEF Tus!Append, LengthOf, StateOf, KeptSet
<1> QED
  BY <1>4, <1>8, <1>9

\* The server that the script and tus-js-client talk to in Resume does nothing
\* that the tus endpoint, as Uploads models it, does not promise: both implement
\* the one contract (http/tus.ts).
THEOREM ResumeImplementsTus == Spec => TusSpec
<1>1. Init => Tus!Init
  BY DEF Init, Tus!Init
<1>2. IInv /\ [Next]_vars => [Tus!Next]_Tus!tus
  <2> SUFFICES ASSUME IInv, [Next]_vars PROVE [Tus!Next]_Tus!tus
    OBVIOUS
  <2>1. ASSUME NEW u \in Uploads, Created(u) PROVE Tus!Next
    BY <2>1, CreatedSeen DEF Tus!Next
  <2>2. ASSUME NEW u \in Uploads, Expire(u) PROVE Tus!Next
    BY <2>2, ExpireSeen DEF Tus!Next
  <2>3. ASSUME NEW n \in 0 .. Size, Patched(n) \/ PatchFails(n) \/ PatchCut(n) PROVE Tus!Next
    BY <2>3, PatchSeen DEF Tus!Next, LengthOf
  <2>4. CASE Start \/ Head \/ HeadGone \/ Fail \/ Done \/ Edit \/ Reopen \/ UNCHANGED vars
    <3>1. UNCHANGED <<status, offset>>
      BY <2>4 DEF Start, Head, HeadGone, Fail, Done, Edit, Reopen, vars, uploads
    <3> QED
      BY <3>1, ClientSeen
  <2> QED
    BY <2>1, <2>2, <2>3, <2>4 DEF Next
<1> QED
  BY <1>1, <1>2, Invariant, PTL DEF Spec, TusSpec, Tus!Spec
=============================================================================
