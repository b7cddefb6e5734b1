------------------------ MODULE SecondFactor_proofs ------------------------
(***************************************************************************)
(* What SecondFactor promises holds for any number of sessions, passkeys,  *)
(* codes and requests, and for any thresholds.                             *)
(***************************************************************************)
EXTENDS SecondFactor, FiniteSetTheorems, TLAPS

\* Whoever is let in as complete in session s: it is complete, or gone, or a
\* reset overtook its sign-in and no factor was added that it should prove.
StillComplete(s) ==
    row[s] = "pending" => s \in overtaken /\ (~hasSecondFactor \/ s \in spared)

\* A session waits for its second step only while there is a factor to prove,
\* unless a reset overtook it; what is complete was earned; and a request that
\* was let in as complete still has a session that may be.
SessionsInv ==
    /\ \A s \in Sessions : row[s] = "pending" => hasSecondFactor \/ s \in overtaken
    /\ \A s \in Sessions : row[s] = "verified" => s \in earned \cup spared
    /\ \A q \in inFlight : q.verified => StillComplete(q.sid)

\* No factor is added while a password is hashed.
SignInInv == signIn = "plain" => ~hasSecondFactor

\* A code that was accepted is at or before the last accepted step of its
\* secret, or gone from the unused ones.
CodesInv ==
    /\ ~enabled => lastStep = 0
    /\ \A c \in TotpCodes : uses[c] # 0 =>
           uses[c] = 1 /\ c[2] <= secrets /\ (c[2] = secret => c[3] <= lastStep)
    /\ \A c \in RecoveryCodes : uses[c] # 0 =>
           uses[c] = 1 /\ c[2] <= issues /\ c \notin unused
    /\ \A c \in unused : c[2] <= issues
    /\ unused # {} => hasSecondFactor

IInv == TypeOK /\ SessionsInv /\ SignInInv /\ CodesInv

USE SecondFactorConstants DEF SecondFactorConstants

-----------------------------------------------------------------------------
(* Lemmas.                                                                 *)

RequestType == [sid : Sessions, verified : BOOLEAN, totp : BOOLEAN,
                keys : Nat, confirmed : BOOLEAN]

LEMMA KeysAreCounted == ASSUME TypeOK PROVE Cardinality(passkeys) \in Nat
<1>1. passkeys \in SUBSET Passkeys
  BY DEF TypeOK
<1> QED
  BY <1>1, FS_Subset, FS_CardinalityType

LEMMA SnapshotType ==
    ASSUME TypeOK, NEW s \in Sessions
    PROVE  Snapshot(s) \in RequestType
<1>1. totpVerified(s) \in BOOLEAN /\ (s \in confirmed) \in BOOLEAN /\ enabled \in BOOLEAN
  BY DEF TypeOK, totpVerified, hasSecondFactor
<1> QED
  BY <1>1, KeysAreCounted DEF Snapshot, RequestType

\* What a handler may count on of its request.
LEMMA RequestFacts ==
    ASSUME TypeOK, SessionsInv, NEW q \in Requests
    PROVE  /\ q \in RequestType
           /\ q.sid \in Sessions
           /\ q.verified => StillComplete(q.sid)
<1>1. CASE q \in inFlight
  BY <1>1 DEF TypeOK, RequestType, SessionsInv
<1>2. CASE q \in {Snapshot(s) : s \in Live}
  <2>1. PICK s \in Live : q = Snapshot(s)
    BY <1>2
  <2>2. s \in Sessions /\ row[s] \in {"none", "pending", "verified"}
    BY <2>1 DEF Live, TypeOK
  <2>3. q.sid = s /\ q.verified = totpVerified(s)
    BY <2>1 DEF Snapshot
  <2>4. totpVerified(s) => StillComplete(s)
    BY <2>2 DEF totpVerified, SessionsInv, StillComplete
  <2> QED
    BY <2>1, <2>2, <2>3, <2>4, SnapshotType
<1> QED
  BY <1>1, <1>2 DEF Requests

LEMMA CodesApart ==
    /\ TotpCodes \cap RecoveryCodes = {}
    /\ TotpCodes \subseteq Codes /\ RecoveryCodes \subseteq Codes
    /\ \A c \in TotpCodes : c[2] \in 1 .. MaxSecrets /\ c[3] \in 1 .. MaxStep + 1
    /\ \A c \in RecoveryCodes : c[2] \in 1 .. MaxIssues
<1>1. \A c \in TotpCodes : c[1] = "totp"
  BY DEF TotpCodes
<1>2. \A c \in RecoveryCodes : c[1] = "recovery"
  BY DEF RecoveryCodes
<1>3. TotpCodes \cap RecoveryCodes = {}
  BY <1>1, <1>2
<1> QED
  BY <1>3 DEF TotpCodes, RecoveryCodes, Codes

-----------------------------------------------------------------------------
(* Statements.  Each is treated once; the actions say which they use.      *)

\* The sessions table as rows, typed.
RowsType ==
    /\ row \in [Sessions -> {"none", "pending", "verified"}]
    /\ attempts \in [Sessions -> 0 .. MaxAttempts - 1]
    /\ confirmed \in SUBSET Sessions
    /\ earned \in SUBSET Sessions /\ spared \in SUBSET Sessions
    /\ overtaken \in SUBSET Sessions

LEMMA KeepOnlyType ==
    ASSUME TypeOK, NEW keep, KeepOnly(keep)
    PROVE  RowsType'
BY DEF TypeOK, RowsType, KeepOnly

LEMMA CompleteType ==
    ASSUME TypeOK, NEW s \in Sessions, NEW fresh \in Sessions, completeSecondFactor(s, fresh)
    PROVE  RowsType' /\ failed' = 0 /\ lockedUntil' = 0
BY DEF TypeOK, RowsType, completeSecondFactor

LEMMA EndUnprovedType ==
    ASSUME TypeOK, NEW s \in Sessions, EndUnproved(s)
    PROVE  RowsType'
BY DEF TypeOK, RowsType, EndUnproved, Live

LEMMA SpendType ==
    ASSUME TypeOK, NEW c \in Codes, Spend(c)
    PROVE  /\ lastStep' \in 0 .. MaxStep + 1
           /\ unused' \in SUBSET RecoveryCodes
           /\ uses' \in [Codes -> Nat]
BY CodesApart DEF TypeOK, Spend, Used, TotpPasses, verifyTotp

LEMMA ReplaceType ==
    ASSUME TypeOK, replaceRecoveryCodes
    PROVE  issues' \in 0 .. MaxIssues /\ unused' \in SUBSET RecoveryCodes
BY DEF TypeOK, replaceRecoveryCodes

LEMMA ForceDisableType ==
    ASSUME TypeOK, NEW left \in SUBSET RecoveryCodes, NEW keys \in SUBSET Passkeys,
           ForceDisable(left, keys)
    PROVE  /\ secret' \in 0 .. secrets' /\ secrets' \in 0 .. MaxSecrets
           /\ enabled' = FALSE /\ lastStep' = 0
           /\ failed' = 0 /\ lockedUntil' = 0
           /\ issues' \in 0 .. MaxIssues /\ unused' \in SUBSET RecoveryCodes
BY DEF TypeOK, ForceDisable, dropRecoveryCodesIfUnused

\* The two wrong-code handlers differ in what they do when nothing locks.
LEMMA FailureType ==
    ASSUME TypeOK, NEW q \in RequestType,
           \/ recordTotpFailure(UNCHANGED sessions)
           \/ recordTotpFailure(
                  IF attempts[q.sid] + 1 >= MaxAttempts
                  THEN KeepOnly(Sessions \ {q.sid})
                  ELSE /\ attempts' = [attempts EXCEPT ![q.sid] = @ + 1]
                       /\ UNCHANGED <<row, confirmed, earned, spared, overtaken>>)
    PROVE  RowsType' /\ failed' \in 0 .. LockThreshold - 1 /\ lockedUntil' \in Nat
<1>1. q.sid \in Sessions
  BY DEF RequestType
<1> QED
  BY <1>1 DEF TypeOK, RowsType, recordTotpFailure, KeepOnly, sessions

-----------------------------------------------------------------------------
(* Types.                                                                  *)

LEMMA InitType == Init => TypeOK
<1> SUFFICES ASSUME Init PROVE TypeOK
  OBVIOUS
<1>1. enabled \in BOOLEAN
  BY Zenon DEF Init
<1>2. /\ step \in Nat /\ secret \in 0 .. secrets /\ secrets \in 0 .. MaxSecrets
      /\ lastStep \in 0 .. MaxStep + 1
      /\ failed \in 0 .. LockThreshold - 1 /\ lockedUntil \in Nat
      /\ issues \in 0 .. MaxIssues
  BY DEF Init
<1>3. row \in [Sessions -> {"none", "pending", "verified"}]
  BY DEF Init
<1>4. attempts \in [Sessions -> 0 .. MaxAttempts - 1]
  BY DEF Init
<1>5. uses \in [Codes -> Nat]
  BY DEF Init
<1> QED
  BY <1>1, <1>2, <1>3, <1>4, <1>5 DEF Init, TypeOK

LEMMA TypeStep == TypeOK /\ SessionsInv /\ [Next]_vars => TypeOK'
<1> SUFFICES ASSUME TypeOK, SessionsInv, [Next]_vars PROVE TypeOK'
  OBVIOUS
<1> signIn' \in {"none", "plain", "factor"}
  BY DEF Next, LogIn, LoggedIn, ServerStep, OtherStep, Crash, vars, TypeOK
<1>0. CASE LogIn
  BY <1>0 DEF LogIn, TypeOK, factors, lock, codes, sessions
<1>1. ASSUME NEW s \in Sessions, LoggedIn(s) PROVE TypeOK'
  BY <1>1 DEF LoggedIn, TypeOK, factors, lock, codes
<1>2. ASSUME NEW s \in Sessions, Arrive(s) PROVE TypeOK'
  <2>1. Snapshot(s) \in RequestType
    BY SnapshotType
  <2> QED
    BY <1>2, <2>1 DEF Arrive, TypeOK, RequestType, factors, lock, codes, sessions
<1>3. ASSUME NEW s \in Sessions, Expire(s) PROVE TypeOK'
  BY <1>3, KeepOnlyType DEF Expire, TypeOK, RowsType, factors, lock, codes
<1>4. ASSUME NEW s \in Sessions, ConfirmationEnds(s) PROVE TypeOK'
  <2>1. inFlight' \in SUBSET RequestType
    <3>1. ASSUME NEW q \in inFlight PROVE [q EXCEPT !.confirmed = FALSE] \in RequestType
      BY DEF TypeOK, RequestType
    <3> QED
      BY <1>4, <3>1 DEF ConfirmationEnds, TypeOK, RequestType
  <2> QED
    BY <1>4, <2>1 DEF ConfirmationEnds, TypeOK, RequestType, factors, lock, codes
<1>5. ASSUME NEW q \in Requests PROVE SignInStep(q) => TypeOK'
  <2>0. q \in RequestType /\ q.sid \in Sessions
    BY RequestFacts
  <2>1. ASSUME NEW fresh \in Sessions, PasskeyLogin(q, fresh) PROVE TypeOK'
    BY <2>0, <2>1, CompleteType
       DEF PasskeyLogin, TypeOK, RowsType, Handled, factors, codes
  <2>2. ASSUME NEW fresh \in Sessions, NEW c \in Codes, TotpLogin(q, c, fresh) PROVE TypeOK'
    <3>1. Spend(c) /\ completeSecondFactor(q.sid, fresh)
      BY <2>2 DEF TotpLogin
    <3> QED
      BY <2>0, <2>2, <3>1, SpendType, CompleteType
         DEF TotpLogin, Spend, TypeOK, RowsType, Handled
  <2>3. CASE TotpLoginWrong(q)
    <3>1. RowsType' /\ failed' \in 0 .. LockThreshold - 1 /\ lockedUntil' \in Nat
      BY <2>0, <2>3, FailureType DEF TotpLoginWrong
    <3> QED
      BY <2>3, <3>1 DEF TotpLoginWrong, TypeOK, RowsType, Handled, factors, codes
  <2>4. ASSUME NEW c \in Codes, ConfirmCode(q, c) PROVE TypeOK'
    <3>1. Spend(c)
      BY <2>4 DEF ConfirmCode
    <3> QED
      BY <2>0, <2>4, <3>1, SpendType DEF ConfirmCode, Spend, Confirm, TypeOK, Handled
  <2>5. CASE ConfirmCodeWrong(q)
    <3>1. RowsType' /\ failed' \in 0 .. LockThreshold - 1 /\ lockedUntil' \in Nat
      BY <2>0, <2>5, FailureType DEF ConfirmCodeWrong
    <3> QED
      BY <2>5, <3>1 DEF ConfirmCodeWrong, TypeOK, RowsType, Handled, factors, codes
  <2>6. CASE ConfirmOtherwise(q)
    BY <2>0, <2>6 DEF ConfirmOtherwise, Confirm, TypeOK, Handled, factors, lock, codes
  <2> QED
    BY <2>1, <2>2, <2>3, <2>4, <2>5, <2>6 DEF SignInStep
<1>6. ASSUME NEW q \in Requests PROVE SecurityStep(q) => TypeOK'
  <2>0. q \in RequestType /\ q.sid \in Sessions
    BY RequestFacts
  <2>1. CASE BeginTotp(q)
    BY <2>1 DEF BeginTotp, TypeOK, Handled, lock, codes, sessions
  <2>2. CASE Regenerate(q)
    BY <2>2, ReplaceType DEF Regenerate, TypeOK, Handled, factors, lock, sessions
  <2>3. CASE EndSessions(q)
    <3>1. RowsType'
      BY <2>3, KeepOnlyType DEF EndSessions, EndOthers
    <3> QED
      BY <2>3, <3>1 DEF EndSessions, TypeOK, RowsType, Handled, factors, lock, codes
  <2>4. ASSUME NEW c \in Codes, ConfirmTotp(q, c) PROVE TypeOK'
    <3>1. RowsType' /\ inFlight' \subseteq inFlight
      BY <2>0, <2>4, EndUnprovedType
         DEF ConfirmTotp, Stopped, Handled, TypeOK, RowsType, Live
    <3>2. issues' \in 0 .. MaxIssues /\ unused' \in SUBSET RecoveryCodes
      BY <2>4, ReplaceType DEF ConfirmTotp
    <3> QED
      BY <2>4, <3>1, <3>2, CodesApart
         DEF ConfirmTotp, verifyTotp, Used, TypeOK, RowsType, lock
  <2>5. ASSUME NEW c \in Codes, RegenerateByCode(q, c) PROVE TypeOK'
    BY <2>5, ReplaceType, CodesApart
       DEF RegenerateByCode, TotpPasses, verifyTotp, Used, TypeOK, Handled, lock, sessions
  <2>6. ASSUME NEW c \in Codes, DisableTotp(q, c) PROVE TypeOK'
    <3>1. RowsType'
      BY <2>6, KeepOnlyType DEF DisableTotp, EndOthers
    <3>2. unused \ {c} \in SUBSET RecoveryCodes /\ passkeys \in SUBSET Passkeys
      BY DEF TypeOK
    <3>3. ForceDisable(unused \ {c}, passkeys) /\ passkeys' = passkeys /\ step' = step
      BY <2>6 DEF DisableTotp
    <3>4. /\ secret' \in 0 .. secrets' /\ secrets' \in 0 .. MaxSecrets
          /\ enabled' = FALSE /\ lastStep' = 0 /\ failed' = 0 /\ lockedUntil' = 0
          /\ issues' \in 0 .. MaxIssues /\ unused' \in SUBSET RecoveryCodes
      BY <3>2, <3>3, ForceDisableType
    <3>5. uses' \in [Codes -> Nat] /\ inFlight' \subseteq inFlight
      BY <2>6 DEF DisableTotp, Used, Handled, TypeOK
    <3>6. failed' \in 0 .. LockThreshold - 1 /\ lockedUntil' \in Nat
      BY <3>4, SMT
    <3>7. enabled' \in BOOLEAN
      BY <3>4, Zenon
    <3> QED
      BY <3>1, <3>3, <3>4, <3>5, <3>6, <3>7 DEF TypeOK, RowsType
  <2>7. ASSUME NEW p \in Passkeys, AddPasskey(q, p) PROVE TypeOK'
    <3>1. RowsType' /\ inFlight' \subseteq inFlight
      BY <2>0, <2>7, EndUnprovedType
         DEF AddPasskey, Stopped, Handled, TypeOK, RowsType, Live
    <3>2. issues' \in 0 .. MaxIssues /\ unused' \in SUBSET RecoveryCodes
      BY <2>7, ReplaceType DEF AddPasskey, codes, TypeOK
    <3> QED
      BY <2>7, <3>1, <3>2 DEF AddPasskey, TypeOK, RowsType, lock
  <2>8. ASSUME NEW p \in Passkeys, RemovePasskey(q, p) PROVE TypeOK'
    <3>1. RowsType'
      BY <2>8, KeepOnlyType DEF RemovePasskey, EndOthers
    <3> QED
      BY <2>8, <3>1
         DEF RemovePasskey, dropRecoveryCodesIfUnused, TypeOK, RowsType, Handled, lock
  <2> QED
    BY <2>1, <2>2, <2>3, <2>4, <2>5, <2>6, <2>7, <2>8 DEF SecurityStep
<1>7. ASSUME NEW q \in Requests, Refuse(q) PROVE TypeOK'
  BY <1>7 DEF Refuse, TypeOK, factors, lock, codes, sessions
<1>8. CASE ResetFactors
  <2>1. RowsType'
    BY <1>8, KeepOnlyType DEF ResetFactors
  <2>2. {} \in SUBSET RecoveryCodes /\ {} \in SUBSET Passkeys
    OBVIOUS
  <2>3. ForceDisable({}, {})
    BY <1>8 DEF ResetFactors
  <2>4. /\ secret' \in 0 .. secrets' /\ secrets' \in 0 .. MaxSecrets
        /\ enabled' = FALSE /\ lastStep' = 0 /\ failed' = 0 /\ lockedUntil' = 0
        /\ issues' \in 0 .. MaxIssues /\ unused' \in SUBSET RecoveryCodes
    BY <2>2, <2>3, ForceDisableType
  <2>5. failed' \in 0 .. LockThreshold - 1 /\ lockedUntil' \in Nat
    BY <2>4, SMT
  <2>6. enabled' \in BOOLEAN
    BY <2>4, Zenon
  <2> QED
    BY <1>8, <2>1, <2>4, <2>5, <2>6 DEF ResetFactors, TypeOK, RowsType
<1>9. CASE Tick
  BY <1>9 DEF Tick, TypeOK, factors, lock, codes, sessions
<1>10. CASE Crash
  BY <1>10 DEF Crash, TypeOK, factors, lock, codes, sessions
<1>11. CASE UNCHANGED vars
  BY <1>11 DEF vars, TypeOK, factors, lock, codes, sessions
<1> QED
  BY <1>0, <1>1, <1>2, <1>3, <1>4, <1>5, <1>6, <1>7, <1>8, <1>9, <1>10, <1>11
     DEF Next, ServerStep, OtherStep

-----------------------------------------------------------------------------
(* Sessions.                                                               *)

\* Rows only went, and what is left is still accounted for.
RowsLeft ==
    \A s \in Sessions :
        /\ row'[s] \in {row[s], "none"}
        /\ row'[s] # "none" =>
               /\ s \in earned \cup spared => s \in earned' \cup spared'
               /\ s \in spared => s \in spared'
               /\ s \in overtaken => s \in overtaken'

LEMMA KeepOnlyRows ==
    ASSUME TypeOK, NEW keep, KeepOnly(keep)
    PROVE  RowsLeft
BY DEF TypeOK, KeepOnly, RowsLeft

LEMMA SameRows ==
    ASSUME TypeOK, UNCHANGED <<row, earned, spared, overtaken>>
    PROVE  RowsLeft
BY DEF TypeOK, RowsLeft

\* A session stays as complete as it was, unless a factor is added.
LEMMA StillLeft ==
    ASSUME TypeOK, RowsLeft, hasSecondFactor' => hasSecondFactor,
           NEW s \in Sessions, StillComplete(s)
    PROVE  StillComplete(s)'
BY DEF StillComplete, RowsLeft

LEMMA LeftInv ==
    ASSUME TypeOK, SessionsInv, RowsLeft, inFlight' \subseteq inFlight,
           hasSecondFactor' => hasSecondFactor,
           \A s \in Sessions : row'[s] = "pending" => hasSecondFactor' \/ s \in overtaken
    PROVE  SessionsInv'
<1>1. \A q \in inFlight' : q.verified => StillComplete(q.sid)'
  BY StillLeft DEF SessionsInv, TypeOK
<1>2. \A s \in Sessions : row'[s] = "verified" => s \in earned' \cup spared'
  BY DEF SessionsInv, RowsLeft
<1>3. \A s \in Sessions : row'[s] = "pending" => hasSecondFactor' \/ s \in overtaken'
  BY DEF RowsLeft
<1> QED
  BY <1>1, <1>2, <1>3 DEF SessionsInv

LEMMA CompleteInv ==
    ASSUME TypeOK, SessionsInv, NEW s \in Sessions, NEW fresh \in Sessions,
           completeSecondFactor(s, fresh), inFlight' \subseteq inFlight,
           hasSecondFactor' = hasSecondFactor
    PROVE  SessionsInv'
<1>1. row'[fresh] = "verified" /\ fresh \in earned' /\ row[fresh] = "none"
  BY DEF completeSecondFactor, Unheld, TypeOK
<1>2. \A t \in Sessions \ {fresh} :
          /\ row'[t] \in {row[t], "none"}
          /\ row'[t] # "none" => /\ t \in earned \cup spared => t \in earned' \cup spared'
                                 /\ t \in spared => t \in spared'
                                 /\ t \in overtaken => t \in overtaken'
  BY DEF completeSecondFactor, TypeOK
<1>3. \A q \in inFlight : q.sid \in Sessions \ {fresh}
  BY DEF completeSecondFactor, Unheld, TypeOK
<1>4. \A q \in inFlight' : q.verified => StillComplete(q.sid)'
  BY <1>2, <1>3 DEF SessionsInv, StillComplete
<1>5. \A t \in Sessions : row'[t] = "verified" => t \in earned' \cup spared'
  BY <1>1, <1>2 DEF SessionsInv
<1>6. \A t \in Sessions : row'[t] = "pending" => hasSecondFactor' \/ t \in overtaken'
  BY <1>1, <1>2 DEF SessionsInv
<1> QED
  BY <1>4, <1>5, <1>6 DEF SessionsInv

\* Whatever ended the other sessions left none that waits.
LEMMA EndedInv ==
    ASSUME \A s \in Sessions : row'[s] \in {"none", "verified"},
           \A s \in Sessions : row'[s] = "verified" => s \in earned' \cup spared',
           \A q \in inFlight' : q.sid \in Sessions
    PROVE  SessionsInv'
BY DEF SessionsInv, StillComplete

\* The session of the request is kept: it is complete, or a reset overtook it.
LEMMA EndOthersInv ==
    ASSUME TypeOK, SessionsInv, NEW q \in Requests, q.verified, EndOthers(q.sid),
           inFlight' \subseteq inFlight, hasSecondFactor' => hasSecondFactor
    PROVE  SessionsInv'
<1>1. q.sid \in Sessions /\ StillComplete(q.sid)
  BY RequestFacts
<1>2. RowsLeft
  BY KeepOnlyRows DEF EndOthers
<1>3. \A s \in Sessions : row'[s] = "pending" => s \in overtaken
  BY <1>1 DEF EndOthers, KeepOnly, StillComplete, TypeOK
<1> QED
  BY <1>2, <1>3, LeftInv

LEMMA SessionsStep == TypeOK /\ SessionsInv /\ SignInInv /\ [Next]_vars => SessionsInv'
<1> SUFFICES ASSUME TypeOK, SessionsInv, SignInInv, [Next]_vars PROVE SessionsInv'
  OBVIOUS
<1>0. \A s \in Sessions : row[s] = "pending" => hasSecondFactor \/ s \in overtaken
  BY DEF SessionsInv
<1>1. ASSUME NEW s \in Sessions, LoggedIn(s) PROVE SessionsInv'
  <2>1. hasSecondFactor' = hasSecondFactor
    BY <1>1 DEF LoggedIn, hasSecondFactor, factors
  <2>2. \A q \in inFlight' : q \in inFlight /\ q.sid \in Sessions \ {s}
    BY <1>1 DEF LoggedIn, Unheld, TypeOK
  <2>3. /\ \A t \in Sessions \ {s} : row'[t] = row[t]
        /\ row'[s] = IF signIn = "factor" THEN "pending" ELSE "verified"
    BY <1>1 DEF LoggedIn, TypeOK
  <2>4. earned \subseteq earned' /\ spared' = spared /\ overtaken \subseteq overtaken'
    BY <1>1 DEF LoggedIn
  <2>5. signIn = "factor" => hasSecondFactor \/ s \in overtaken'
    BY <1>1 DEF LoggedIn
  <2>6. signIn # "factor" => s \in earned'
    BY <1>1 DEF LoggedIn, SignInInv, TypeOK
  <2>7. \A q \in inFlight' : q.verified => StillComplete(q.sid)'
    BY <2>1, <2>2, <2>3, <2>4 DEF SessionsInv, StillComplete
  <2>8. \A t \in Sessions : row'[t] = "pending" => hasSecondFactor' \/ t \in overtaken'
    BY <1>0, <2>1, <2>3, <2>4, <2>5
  <2>9. \A t \in Sessions : row'[t] = "verified" => t \in earned' \cup spared'
    BY <2>3, <2>4, <2>6 DEF SessionsInv
  <2> QED
    BY <2>7, <2>8, <2>9 DEF SessionsInv
<1>2. ASSUME NEW s \in Sessions, Arrive(s) PROVE SessionsInv'
  <2>1. \A q \in inFlight' : q \in Requests
    BY <1>2 DEF Arrive, Requests
  <2>2. \A q \in inFlight' : q.verified => StillComplete(q.sid)
    BY <2>1, RequestFacts
  <2>3. UNCHANGED <<row, earned, spared, overtaken>> /\ hasSecondFactor' = hasSecondFactor
    BY <1>2 DEF Arrive, sessions, factors, hasSecondFactor
  <2> QED
    BY <2>2, <2>3 DEF SessionsInv, StillComplete
<1>3. ASSUME NEW s \in Sessions, Expire(s) PROVE SessionsInv'
  <2>1. RowsLeft /\ inFlight' \subseteq inFlight /\ hasSecondFactor' = hasSecondFactor
    BY <1>3, KeepOnlyRows DEF Expire, hasSecondFactor, factors
  <2> QED
    BY <1>0, <2>1, LeftInv DEF RowsLeft
<1>4. ASSUME NEW s \in Sessions, ConfirmationEnds(s) PROVE SessionsInv'
  <2>1. \A q \in inFlight' : \E r \in inFlight : q.sid = r.sid /\ q.verified = r.verified
    <3>1. \A r \in inFlight : /\ [r EXCEPT !.confirmed = FALSE].sid = r.sid
                              /\ [r EXCEPT !.confirmed = FALSE].verified = r.verified
      BY DEF TypeOK
    <3> QED
      BY <1>4, <3>1 DEF ConfirmationEnds
  <2>2. UNCHANGED <<row, earned, spared, overtaken>> /\ hasSecondFactor' = hasSecondFactor
    BY <1>4 DEF ConfirmationEnds, factors, hasSecondFactor
  <2> QED
    BY <2>1, <2>2 DEF SessionsInv, StillComplete
<1>5. ASSUME NEW q \in Requests PROVE SignInStep(q) => SessionsInv'
  <2>0. q.sid \in Sessions
    BY RequestFacts
  <2>1. ASSUME NEW fresh \in Sessions, PasskeyLogin(q, fresh) PROVE SessionsInv'
    BY <2>0, <2>1, CompleteInv DEF PasskeyLogin, Handled, factors, hasSecondFactor
  <2>2. ASSUME NEW fresh \in Sessions, NEW c \in Codes, TotpLogin(q, c, fresh) PROVE SessionsInv'
    <3>1. completeSecondFactor(q.sid, fresh) /\ inFlight' \subseteq inFlight
      BY <2>2 DEF TotpLogin, Handled
    <3>2. hasSecondFactor' = hasSecondFactor
      BY <2>2 DEF TotpLogin, Spend, hasSecondFactor
    <3> QED
      BY <2>0, <3>1, <3>2, CompleteInv
  <2>3. CASE TotpLoginWrong(q)
    <3>1. RowsLeft
      BY <2>3, KeepOnlyRows, SameRows DEF TotpLoginWrong, recordTotpFailure
    <3>2. inFlight' \subseteq inFlight /\ hasSecondFactor' = hasSecondFactor
      BY <2>3 DEF TotpLoginWrong, Handled, factors, hasSecondFactor
    <3> QED
      BY <1>0, <3>1, <3>2, LeftInv DEF RowsLeft
  <2>4. ASSUME NEW c \in Codes, ConfirmCode(q, c) PROVE SessionsInv'
    <3>1. RowsLeft /\ inFlight' \subseteq inFlight
      BY <2>4, SameRows DEF ConfirmCode, Handled
    <3>2. hasSecondFactor' = hasSecondFactor
      BY <2>4 DEF ConfirmCode, Spend, hasSecondFactor
    <3> QED
      BY <1>0, <3>1, <3>2, LeftInv DEF RowsLeft
  <2>5. CASE ConfirmCodeWrong(q)
    <3>1. RowsLeft
      BY <2>5, KeepOnlyRows, SameRows DEF ConfirmCodeWrong, recordTotpFailure, sessions
    <3>2. inFlight' \subseteq inFlight /\ hasSecondFactor' = hasSecondFactor
      BY <2>5 DEF ConfirmCodeWrong, Handled, factors, hasSecondFactor
    <3> QED
      BY <1>0, <3>1, <3>2, LeftInv DEF RowsLeft
  <2>6. CASE ConfirmOtherwise(q)
    <3>1. RowsLeft /\ inFlight' \subseteq inFlight /\ hasSecondFactor' = hasSecondFactor
      BY <2>6, SameRows DEF ConfirmOtherwise, Handled, factors, hasSecondFactor
    <3> QED
      BY <1>0, <3>1, LeftInv DEF RowsLeft
  <2> QED
    BY <2>1, <2>2, <2>3, <2>4, <2>5, <2>6 DEF SignInStep
<1>6. ASSUME NEW q \in Requests PROVE SecurityStep(q) => SessionsInv'
  <2>0. q.sid \in Sessions /\ (q.verified => StillComplete(q.sid))
    BY RequestFacts
  <2>1. CASE BeginTotp(q)
    <3>1. RowsLeft /\ inFlight' \subseteq inFlight /\ hasSecondFactor' = hasSecondFactor
      BY <2>1, SameRows DEF BeginTotp, Handled, sessions, hasSecondFactor
    <3> QED
      BY <1>0, <3>1, LeftInv DEF RowsLeft
  <2>2. CASE Regenerate(q)
    <3>1. RowsLeft /\ inFlight' \subseteq inFlight /\ hasSecondFactor' = hasSecondFactor
      BY <2>2, SameRows DEF Regenerate, Handled, sessions, factors, hasSecondFactor
    <3> QED
      BY <1>0, <3>1, LeftInv DEF RowsLeft
  <2>3. CASE EndSessions(q)
    <3>1. RowsLeft
      BY <2>3, KeepOnlyRows DEF EndSessions, EndOthers
    <3>2. inFlight' \subseteq inFlight /\ hasSecondFactor' = hasSecondFactor
      BY <2>3 DEF EndSessions, Handled, factors, hasSecondFactor
    <3> QED
      BY <1>0, <3>1, <3>2, LeftInv DEF RowsLeft
  <2>4. ASSUME NEW c \in Codes, ConfirmTotp(q, c) PROVE SessionsInv'
    <3>1. inFlight' \subseteq inFlight
      BY <2>4 DEF ConfirmTotp, Handled, Stopped
    <3>2. /\ \A s \in Sessions : row'[s] \in {"none", "verified"}
          /\ \A s \in Sessions : row'[s] = "verified" => s \in earned' \cup spared'
      BY <2>0, <2>4 DEF ConfirmTotp, EndUnproved, Stopped, Live
    <3> QED
      BY <3>1, <3>2, EndedInv DEF TypeOK
  <2>5. ASSUME NEW c \in Codes, RegenerateByCode(q, c) PROVE SessionsInv'
    <3>1. RowsLeft /\ inFlight' \subseteq inFlight /\ hasSecondFactor' = hasSecondFactor
      BY <2>5, SameRows DEF RegenerateByCode, Handled, sessions, hasSecondFactor
    <3> QED
      BY <1>0, <3>1, LeftInv DEF RowsLeft
  <2>6. ASSUME NEW c \in Codes, DisableTotp(q, c) PROVE SessionsInv'
    <3>1. q.verified /\ EndOthers(q.sid) /\ inFlight' \subseteq inFlight
      BY <2>6 DEF DisableTotp, Handled
    <3>2. hasSecondFactor
      BY <2>6 DEF DisableTotp, hasSecondFactor
    <3> QED
      BY <3>1, <3>2, EndOthersInv
  <2>7. ASSUME NEW p \in Passkeys, AddPasskey(q, p) PROVE SessionsInv'
    <3>1. q.verified /\ q.sid \in Live /\ hasSecondFactor' /\ inFlight' \subseteq inFlight
      BY <2>7 DEF AddPasskey, Handled, Stopped, hasSecondFactor
    <3>2. CASE EndUnproved(q.sid)
      <4>1. \A s \in Sessions : row'[s] \in {"none", "verified"}
        BY <3>2 DEF EndUnproved
      <4>2. \A s \in Sessions : row'[s] = "verified" => s \in earned' \cup spared'
        BY <3>2 DEF EndUnproved
      <4> QED
        BY <3>1, <4>1, <4>2, EndedInv DEF TypeOK
    <3>3. CASE Stopped(q, [row EXCEPT ![q.sid] = "verified"])
      <4>1. /\ \A s \in Sessions \ {q.sid} : row'[s] = row[s]
            /\ row'[q.sid] = "verified" /\ q.sid \in earned'
        BY <2>0, <3>1, <3>3 DEF Stopped, TypeOK
      <4>2. /\ earned \subseteq earned' /\ spared \subseteq spared' /\ overtaken' = overtaken
            /\ \A s \in Live \ {q.sid} : s \in spared'
        BY <3>3 DEF Stopped
      <4>3. \A s \in Sessions : StillComplete(s) => StillComplete(s)'
        BY <4>1, <4>2 DEF StillComplete, Live
      <4>4. \A r \in inFlight' : r.verified => StillComplete(r.sid)'
        BY <3>1, <4>3 DEF SessionsInv, TypeOK
      <4>5. \A s \in Sessions : row'[s] = "verified" => s \in earned' \cup spared'
        BY <4>1, <4>2 DEF SessionsInv
      <4> QED
        BY <3>1, <4>4, <4>5 DEF SessionsInv
    <3> QED
      BY <2>7, <3>2, <3>3 DEF AddPasskey
  <2>8. ASSUME NEW p \in Passkeys, RemovePasskey(q, p) PROVE SessionsInv'
    <3>1. q.verified /\ EndOthers(q.sid) /\ inFlight' \subseteq inFlight
      BY <2>8 DEF RemovePasskey, Handled
    <3>2. hasSecondFactor' => hasSecondFactor
      BY <2>8 DEF RemovePasskey, hasSecondFactor
    <3> QED
      BY <3>1, <3>2, EndOthersInv
  <2> QED
    BY <2>1, <2>2, <2>3, <2>4, <2>5, <2>6, <2>7, <2>8 DEF SecurityStep
<1>7. ASSUME NEW q \in Requests, Refuse(q) PROVE SessionsInv'
  <2>1. RowsLeft /\ inFlight' \subseteq inFlight /\ hasSecondFactor' = hasSecondFactor
    BY <1>7, SameRows DEF Refuse, sessions, factors, hasSecondFactor
  <2> QED
    BY <1>0, <2>1, LeftInv DEF RowsLeft
<1>8. CASE ResetFactors
  <2>1. KeepOnly({}) /\ inFlight' \subseteq inFlight
    BY <1>8 DEF ResetFactors
  <2>2. \A s \in Sessions : row'[s] = "none"
    BY <2>1 DEF KeepOnly
  <2> QED
    BY <2>1, <2>2, EndedInv DEF TypeOK
<1>9. CASE UNCHANGED <<factors, sessions>> /\ inFlight' \subseteq inFlight
  <2>1. RowsLeft /\ hasSecondFactor' = hasSecondFactor
    BY <1>9, SameRows DEF sessions, factors, hasSecondFactor
  <2> QED
    BY <1>0, <1>9, <2>1, LeftInv DEF RowsLeft
<1>10. LogIn \/ Tick \/ Crash \/ UNCHANGED vars =>
           UNCHANGED <<factors, sessions>> /\ inFlight' \subseteq inFlight
  BY DEF LogIn, Tick, Crash, vars
<1> QED
  BY <1>1, <1>2, <1>3, <1>4, <1>5, <1>6, <1>7, <1>8, <1>9, <1>10
     DEF Next, ServerStep, OtherStep

LEMMA SignInStays == SignInInv /\ [Next]_vars => SignInInv'
<1> SUFFICES ASSUME SignInInv, [Next]_vars PROVE SignInInv'
  OBVIOUS
<1>1. CASE LogIn
  BY <1>1 DEF LogIn, SignInInv, hasSecondFactor, factors
<1>2. CASE signIn' = "none"
  BY <1>2 DEF SignInInv
<1>3. CASE ResetFactors
  BY <1>3 DEF ResetFactors, ForceDisable, SignInInv, hasSecondFactor
<1>4. ASSUME UNCHANGED <<factors, signIn>> PROVE SignInInv'
  BY <1>4 DEF SignInInv, hasSecondFactor, factors
<1>5. \A s \in Sessions : LoggedIn(s) => signIn' = "none"
  BY DEF LoggedIn
<1>6. ServerStep \/ Crash => signIn' = "none"
  BY DEF ServerStep, Crash
<1>7. Tick \/ (\E s \in Sessions : Expire(s) \/ ConfirmationEnds(s)) => UNCHANGED factors
  BY DEF Tick, Expire, ConfirmationEnds
<1> QED
  BY <1>1, <1>2, <1>3, <1>4, <1>5, <1>6, <1>7 DEF Next, OtherStep, vars

-----------------------------------------------------------------------------
(* Codes.                                                                  *)

\* A code that is accepted was never accepted before.
LEMMA FreshCode ==
    ASSUME TypeOK, CodesInv, NEW c \in Codes, TotpPasses(c) \/ c \in unused
    PROVE  uses[c] = 0 /\ (TotpPasses(c) => c \in TotpCodes /\ c[2] = secret /\ c[3] > lastStep)
<1>1. CASE TotpPasses(c)
  <2>1. c \in TotpCodes /\ c[2] = secret /\ c[3] > lastStep
    BY <1>1 DEF TotpPasses, verifyTotp
  <2>2. c[3] \in Nat /\ lastStep \in Nat
    BY <2>1, CodesApart DEF TypeOK
  <2> QED
    BY <2>1, <2>2 DEF CodesInv
<1>2. CASE c \in unused
  <2>1. c \in RecoveryCodes /\ c \notin TotpCodes
    BY <1>2, CodesApart DEF TypeOK
  <2> QED
    BY <1>2, <2>1 DEF CodesInv, TotpPasses, verifyTotp
<1> QED
  BY <1>1, <1>2

LEMMA SpendInv ==
    ASSUME TypeOK, CodesInv, NEW c \in Codes, Spend(c)
    PROVE  CodesInv'
<1>1. uses[c] = 0 /\ uses \in [Codes -> Nat] /\ uses' = [uses EXCEPT ![c] = @ + 1]
  BY FreshCode DEF Spend, Used, TypeOK
<1>2. UNCHANGED <<secret, secrets, enabled, passkeys, issues>>
  BY DEF Spend
<1>3. CASE TotpPasses(c) /\ lastStep' = c[3] /\ UNCHANGED unused
  <2>1. enabled /\ c \in TotpCodes /\ c \notin RecoveryCodes /\ c[2] = secret /\ c[3] > lastStep
    BY <1>3, CodesApart DEF TotpPasses, verifyTotp
  <2>2. secret <= secrets /\ lastStep \in Nat /\ c[3] \in Nat /\ secrets \in Nat
    BY <2>1, CodesApart DEF TypeOK
  <2>3. \A d \in TotpCodes : uses'[d] # 0 =>
            uses'[d] = 1 /\ d[2] <= secrets /\ (d[2] = secret => d[3] <= lastStep')
    <3>1. SUFFICES ASSUME NEW d \in TotpCodes, uses'[d] # 0
                   PROVE  uses'[d] = 1 /\ d[2] <= secrets /\ (d[2] = secret => d[3] <= lastStep')
      OBVIOUS
    <3>2. CASE d = c
      BY <1>1, <1>3, <2>1, <2>2, <3>2
    <3>3. CASE d # c
      <4>1. uses'[d] = uses[d]
        BY <1>1, <3>3, CodesApart
      <4>2. d[3] \in Nat
        BY CodesApart
      <4> QED
        BY <1>3, <2>1, <2>2, <3>1, <4>1, <4>2 DEF CodesInv
    <3> QED
      BY <3>2, <3>3
  <2>4. \A d \in RecoveryCodes : uses'[d] = uses[d]
    BY <1>1, <2>1, CodesApart
  <2> QED
    BY <1>2, <1>3, <2>1, <2>3, <2>4 DEF CodesInv, hasSecondFactor
<1>4. CASE c \in unused /\ unused' = unused \ {c} /\ UNCHANGED lastStep
  <2>1. c \in RecoveryCodes /\ c \notin TotpCodes
    BY <1>4, CodesApart DEF TypeOK
  <2>2. \A d \in TotpCodes : uses'[d] = uses[d]
    BY <1>1, <2>1, CodesApart
  <2>3. \A d \in RecoveryCodes : uses'[d] # 0 => uses'[d] = 1 /\ d[2] <= issues /\ d \notin unused'
    <3>1. \A d \in RecoveryCodes : d # c => uses'[d] = uses[d]
      BY <1>1, CodesApart
    <3>2. uses'[c] = 1
      BY <1>1
    <3> QED
      BY <1>4, <3>1, <3>2 DEF CodesInv
  <2> QED
    BY <1>2, <1>4, <2>2, <2>3 DEF CodesInv, hasSecondFactor
<1> QED
  BY <1>3, <1>4 DEF Spend

LEMMA SameCodes ==
    ASSUME TypeOK, CodesInv, UNCHANGED <<secret, secrets, enabled, lastStep, issues, unused, uses>>,
           hasSecondFactor => hasSecondFactor'
    PROVE  CodesInv'
BY DEF CodesInv

\* A new set of recovery codes, with the uses of codes from the app settled.
LEMMA ReplaceInv ==
    ASSUME TypeOK, CodesInv, replaceRecoveryCodes, hasSecondFactor',
           \A c \in RecoveryCodes : uses'[c] = uses[c],
           \A c \in TotpCodes : uses'[c] # 0 =>
               uses'[c] = 1 /\ c[2] <= secrets' /\ (c[2] = secret' => c[3] <= lastStep'),
           ~enabled' => lastStep' = 0
    PROVE  CodesInv'
<1>1. issues \in Nat /\ issues' = issues + 1 /\ \A c \in unused' : c[2] = issues'
  BY DEF TypeOK, replaceRecoveryCodes
<1>2. \A c \in RecoveryCodes : c[2] \in Nat
  BY CodesApart
<1>3. \A c \in RecoveryCodes : uses'[c] # 0 => uses'[c] = 1 /\ c[2] <= issues' /\ c \notin unused'
  <2>1. SUFFICES ASSUME NEW c \in RecoveryCodes, uses'[c] # 0
                 PROVE  uses'[c] = 1 /\ c[2] <= issues' /\ c \notin unused'
    OBVIOUS
  <2>2. uses[c] = 1 /\ c[2] <= issues /\ uses'[c] = 1
    BY <2>1 DEF CodesInv
  <2> QED
    BY <1>1, <1>2, <2>2
<1>4. \A c \in unused' : c[2] <= issues'
  BY <1>1
<1> QED
  BY <1>3, <1>4 DEF CodesInv

\* Turning the app off.  The codes that are left are some of those there were.
LEMMA ForceDisableInv ==
    ASSUME TypeOK, CodesInv, NEW left \in SUBSET unused, NEW keys, ForceDisable(left, keys),
           keys # {} => hasSecondFactor',
           \A c \in TotpCodes : uses'[c] # 0 => uses'[c] = 1 /\ c[2] <= secrets,
           \A c \in RecoveryCodes : uses'[c] # 0 => uses'[c] = 1 /\ c[2] <= issues /\ c \notin left
    PROVE  CodesInv'
<1>1. secret' = 0 /\ lastStep' = 0 /\ secrets' = secrets /\ issues' = issues
  BY DEF ForceDisable, dropRecoveryCodesIfUnused
<1>2. unused' \subseteq left /\ (unused' # {} => keys # {})
  BY DEF ForceDisable, dropRecoveryCodesIfUnused
<1>3. \A c \in TotpCodes : c[2] # 0
  BY CodesApart
<1> QED
  BY <1>1, <1>2, <1>3 DEF CodesInv

LEMMA CodesStep == TypeOK /\ SessionsInv /\ CodesInv /\ [Next]_vars => CodesInv'
<1> SUFFICES ASSUME TypeOK, SessionsInv, CodesInv, [Next]_vars PROVE CodesInv'
  OBVIOUS
<1>1. ASSUME UNCHANGED <<factors, codes, uses>> PROVE CodesInv'
  BY <1>1, SameCodes DEF factors, codes, hasSecondFactor
<1>2. ASSUME NEW s \in Sessions
      PROVE  LoggedIn(s) \/ Arrive(s) \/ Expire(s) \/ ConfirmationEnds(s) => CodesInv'
  BY <1>1 DEF LoggedIn, Arrive, Expire, ConfirmationEnds
<1>3. ASSUME NEW q \in Requests PROVE SignInStep(q) => CodesInv'
  <2>1. \A fresh \in Sessions : PasskeyLogin(q, fresh) => CodesInv'
    BY <1>1 DEF PasskeyLogin
  <2>2. \A fresh \in Sessions, c \in Codes : TotpLogin(q, c, fresh) => CodesInv'
    BY SpendInv DEF TotpLogin
  <2>3. TotpLoginWrong(q) \/ ConfirmCodeWrong(q) \/ ConfirmOtherwise(q) => CodesInv'
    BY <1>1 DEF TotpLoginWrong, ConfirmCodeWrong, ConfirmOtherwise
  <2>4. \A c \in Codes : ConfirmCode(q, c) => CodesInv'
    BY SpendInv DEF ConfirmCode
  <2> QED
    BY <2>1, <2>2, <2>3, <2>4 DEF SignInStep
<1>4. ASSUME NEW q \in Requests PROVE SecurityStep(q) => CodesInv'
  <2>1. CASE BeginTotp(q)
    <3>1. /\ secrets \in Nat /\ secrets' = secrets + 1 /\ secret' = secrets + 1 /\ lastStep' = 0
          /\ uses' = uses /\ issues' = issues /\ unused' = unused
      BY <2>1 DEF BeginTotp, TypeOK, codes
    <3>2. hasSecondFactor' = hasSecondFactor
      BY <2>1 DEF BeginTotp, hasSecondFactor
    <3>3. \A c \in TotpCodes : uses'[c] # 0 =>
              uses'[c] = 1 /\ c[2] <= secrets' /\ (c[2] = secret' => c[3] <= lastStep')
      <4>1. \A c \in TotpCodes : c[2] \in Nat
        BY CodesApart
      <4> QED
        BY <3>1, <4>1 DEF CodesInv
    <3> QED
      BY <3>1, <3>2, <3>3 DEF CodesInv
  <2>2. CASE Regenerate(q)
    <3>1. replaceRecoveryCodes /\ UNCHANGED <<factors, uses>> /\ hasSecondFactor
      BY <2>2 DEF Regenerate
    <3>2. hasSecondFactor' /\ UNCHANGED <<secret, secrets, enabled, lastStep>>
      BY <3>1 DEF hasSecondFactor, factors
    <3> QED
      BY <3>1, <3>2, ReplaceInv DEF CodesInv
  <2>3. CASE EndSessions(q)
    BY <1>1, <2>3 DEF EndSessions
  <2>4. ASSUME NEW c \in Codes, ConfirmTotp(q, c) PROVE CodesInv'
    <3>1. /\ c \in TotpCodes /\ c[2] = secret /\ c[3] \in Nat \ {0} /\ ~enabled /\ lastStep = 0
          /\ secret' = secret /\ secrets' = secrets /\ lastStep' = c[3]
          /\ replaceRecoveryCodes /\ hasSecondFactor' /\ enabled'
      BY <2>4, CodesApart DEF ConfirmTotp, verifyTotp, hasSecondFactor, CodesInv
    <3>2. \A d \in TotpCodes : d[3] \in Nat \ {0} /\ (uses[d] # 0 => d[2] # secret)
      BY <3>1, CodesApart DEF CodesInv
    <3>3. uses \in [Codes -> Nat] /\ uses' = [uses EXCEPT ![c] = @ + 1] /\ uses[c] = 0
      BY <2>4, <3>1, <3>2 DEF ConfirmTotp, Used, TypeOK
    <3>4. secret <= secrets /\ secrets \in Nat
      BY DEF TypeOK
    <3>5. \A d \in TotpCodes : uses'[d] # 0 =>
              uses'[d] = 1 /\ d[2] <= secrets' /\ (d[2] = secret' => d[3] <= lastStep')
      <4>1. \A d \in TotpCodes : d # c => uses'[d] = uses[d]
        BY <3>3, CodesApart
      <4>2. uses'[c] = 1
        BY <3>3
      <4> QED
        BY <3>1, <3>2, <3>4, <4>1, <4>2 DEF CodesInv
    <3>6. \A d \in RecoveryCodes : uses'[d] = uses[d]
      BY <3>1, <3>3, CodesApart
    <3> QED
      BY <3>1, <3>5, <3>6, ReplaceInv
  <2>5. ASSUME NEW c \in Codes, RegenerateByCode(q, c) PROVE CodesInv'
    <3>1. /\ TotpPasses(c) /\ lastStep' = c[3] /\ Used(c) /\ replaceRecoveryCodes
          /\ secret' = secret /\ secrets' = secrets /\ enabled' = enabled
      BY <2>5 DEF RegenerateByCode
    <3>2. /\ uses[c] = 0 /\ c \in TotpCodes /\ c[2] = secret /\ c[3] > lastStep
          /\ uses \in [Codes -> Nat] /\ lastStep \in Nat /\ secret <= secrets
      BY <3>1, FreshCode DEF TypeOK
    <3>3. enabled /\ enabled' /\ hasSecondFactor'
      BY <3>1 DEF TotpPasses, hasSecondFactor
    <3>4. /\ \A d \in Codes : d # c => uses'[d] = uses[d]
          /\ uses'[c] = 1
      BY <3>1, <3>2 DEF Used
    <3>5. \A d \in TotpCodes : d[3] \in Nat
      BY CodesApart
    <3>6. \A d \in TotpCodes : uses'[d] # 0 =>
              uses'[d] = 1 /\ d[2] <= secrets' /\ (d[2] = secret' => d[3] <= lastStep')
      <4>1. \A d \in TotpCodes : d # c => uses'[d] = uses[d]
        BY <3>4, CodesApart
      <4> QED
        BY <3>1, <3>2, <3>4, <3>5, <4>1 DEF CodesInv
    <3>7. \A d \in RecoveryCodes : uses'[d] = uses[d]
      BY <3>2, <3>4, CodesApart
    <3> QED
      BY <3>1, <3>3, <3>6, <3>7, ReplaceInv
  <2>6. ASSUME NEW c \in Codes, DisableTotp(q, c) PROVE CodesInv'
    <3>1. /\ TotpPasses(c) \/ c \in unused
          /\ Used(c) /\ ForceDisable(unused \ {c}, passkeys) /\ passkeys' = passkeys
      BY <2>6 DEF DisableTotp
    <3>2. uses[c] = 0 /\ uses \in [Codes -> Nat] /\ (c \in TotpCodes => c[2] <= secrets)
      BY <3>1, FreshCode, CodesApart DEF TypeOK
    <3>3. /\ \A d \in Codes : d # c => uses'[d] = uses[d]
          /\ uses'[c] = 1
      BY <3>1, <3>2 DEF Used
    <3>4. \A d \in TotpCodes : uses'[d] # 0 => uses'[d] = 1 /\ d[2] <= secrets
      BY <3>2, <3>3, CodesApart DEF CodesInv
    <3>5. c \in RecoveryCodes => c[2] <= issues
      BY <3>1, CodesApart DEF CodesInv, TotpPasses, verifyTotp
    <3>6. \A d \in RecoveryCodes : uses'[d] # 0 => uses'[d] = 1 /\ d[2] <= issues /\ d \notin unused \ {c}
      BY <3>3, <3>5, CodesApart DEF CodesInv
    <3>7. passkeys # {} => hasSecondFactor'
      BY <3>1 DEF hasSecondFactor
    <3> QED
      BY <3>1, <3>4, <3>6, <3>7, ForceDisableInv
  <2>7. ASSUME NEW p \in Passkeys, AddPasskey(q, p) PROVE CodesInv'
    <3>1. hasSecondFactor' /\ UNCHANGED <<secret, secrets, enabled, lastStep, uses>>
      BY <2>7 DEF AddPasskey, hasSecondFactor
    <3>2. UNCHANGED codes \/ replaceRecoveryCodes
      BY <2>7 DEF AddPasskey
    <3>3. CASE UNCHANGED codes
      BY <3>1, <3>3, SameCodes DEF codes
    <3>4. CASE replaceRecoveryCodes
      BY <3>1, <3>4, ReplaceInv DEF CodesInv
    <3> QED
      BY <3>2, <3>3, <3>4
  <2>8. ASSUME NEW p \in Passkeys, RemovePasskey(q, p) PROVE CodesInv'
    <3>1. /\ UNCHANGED <<secret, secrets, enabled, lastStep, uses, issues>>
          /\ unused' \subseteq unused /\ (unused' # {} => hasSecondFactor')
      BY <2>8 DEF RemovePasskey, dropRecoveryCodesIfUnused, hasSecondFactor
    <3> QED
      BY <3>1 DEF CodesInv
  <2> QED
    BY <2>1, <2>2, <2>3, <2>4, <2>5, <2>6, <2>7, <2>8 DEF SecurityStep
<1>5. \A q \in Requests : Refuse(q) => CodesInv'
  BY <1>1 DEF Refuse
<1>6. CASE ResetFactors
  <2>1. ForceDisable({}, {}) /\ uses' = uses
    BY <1>6 DEF ResetFactors
  <2>2. {} \in SUBSET unused
    OBVIOUS
  <2> QED
    BY <2>1, <2>2, ForceDisableInv DEF CodesInv
<1>7. LogIn \/ Tick \/ Crash \/ UNCHANGED vars => CodesInv'
  BY <1>1 DEF LogIn, Tick, Crash, vars
<1> QED
  BY <1>2, <1>3, <1>4, <1>5, <1>6, <1>7 DEF Next, ServerStep, OtherStep

-----------------------------------------------------------------------------
(* The invariants.                                                         *)

LEMMA InitInv == Init => IInv
<1> SUFFICES ASSUME Init PROVE IInv
  OBVIOUS
<1>1. TypeOK
  BY InitType
<1>2. SessionsInv /\ SignInInv
  BY DEF Init, SessionsInv, SignInInv
<1>3. CodesInv
  BY CodesApart DEF Init, CodesInv
<1> QED
  BY <1>1, <1>2, <1>3 DEF IInv

\* The strengthening is an invariant: what is complete was earned, and what was
\* accepted is behind the last step or gone.
THEOREM Invariant == Spec => []IInv
<1>1. IInv /\ [Next]_vars => IInv'
  BY TypeStep, SessionsStep, SignInStays, CodesStep DEF IInv
<1> QED
  BY <1>1, InitInv, PTL DEF Spec

\* The variables keep their types: counts of failures stay under their
\* thresholds (recordTotpFailure), and recovery codes are ones that were issued.
THEOREM TypeCorrect == Spec => []TypeOK
<1>1. IInv => TypeOK
  BY DEF IInv
<1> QED
  BY <1>1, Invariant, PTL

\* Only sessions that passed what the account asked of them are complete,
\* whatever factors came and went meanwhile (getSession, confirmTotpEnrolment,
\* completeSecondFactor), with two named exceptions: the session a stopped
\* handler spared, and, until a factor is added, the session whose sign-in was
\* overtaken by a reset between authenticate and createSession.
THEOREM OnlyEarnedComplete == Spec => []CompleteIsEarned
<1>1. IInv => CompleteIsEarned
  <2> SUFFICES ASSUME IInv, NEW s \in Live, totpVerified(s)
               PROVE  s \in earned \cup spared \/ (s \in overtaken /\ ~hasSecondFactor)
    BY DEF CompleteIsEarned
  <2>1. s \in Sessions /\ row[s] \in {"pending", "verified"}
    BY DEF IInv, TypeOK, Live
  <2>2. CASE row[s] = "verified"
    BY <2>1, <2>2 DEF IInv, SessionsInv
  <2>3. CASE row[s] = "pending"
    BY <2>1, <2>3 DEF IInv, SessionsInv, totpVerified
  <2> QED
    BY <2>1, <2>2, <2>3
<1> QED
  BY <1>1, Invariant, PTL

\* No code is accepted twice, in any order of requests that read the account
\* before each other's changes (totp_last_step, consumeRecoveryCode).
THEOREM CodesOnce == Spec => []CodesCountOnce
<1>1. IInv => CodesCountOnce
  <2> SUFFICES ASSUME IInv, NEW c \in Codes PROVE uses[c] <= 1
    BY DEF CodesCountOnce
  <2>1. uses[c] \in Nat /\ c \in TotpCodes \cup RecoveryCodes
    BY DEF IInv, TypeOK, Codes
  <2>2. uses[c] # 0 => uses[c] = 1
    BY <2>1 DEF IInv, CodesInv
  <2> QED
    BY <2>1, <2>2
<1> QED
  BY <1>1, Invariant, PTL

\* Recovery codes go with the last factor (dropRecoveryCodesIfUnused).
THEOREM CodesNeedFactor == Spec => []CodesBackAFactor
<1>1. IInv => CodesBackAFactor
  BY DEF IInv, CodesInv, CodesBackAFactor
<1> QED
  BY <1>1, Invariant, PTL

-----------------------------------------------------------------------------
(* What a step may not do.                                                 *)

\* The id of the password step is never made the privileged one
\* (completeSecondFactor deletes it), with the exceptions above: the handler
\* that stopped after marking every session verified, and enrolment in the
\* session that a reset overtook.
THEOREM PendingIdNotKept == Spec => FreshIdOnly
<1> DEFINE Excepted(s) == s \in spared' \/ (s \in overtaken /\ ~hasSecondFactor)
<1>1. IInv /\ [Next]_vars =>
          [\A s \in Sessions : row[s] = "pending" /\ row'[s] = "verified" => Excepted(s)]_vars
  <2> SUFFICES ASSUME IInv, Next, NEW s \in Sessions, row[s] = "pending", row'[s] = "verified"
               PROVE  Excepted(s)
    OBVIOUS
  <2>0. TypeOK /\ SessionsInv
    BY DEF IInv
  <2>1. \A keep : ~KeepOnly(keep)
    BY <2>0 DEF KeepOnly
  <2>2. row' # row
    OBVIOUS
  <2>3. \A t \in Sessions : ~(LoggedIn(t) \/ Arrive(t) \/ Expire(t) \/ ConfirmationEnds(t))
    BY <2>0, <2>1, <2>2 DEF LoggedIn, Unheld, Arrive, Expire, ConfirmationEnds, TypeOK, sessions
  <2>4. ~(ResetFactors \/ LogIn \/ Tick \/ Crash)
    BY <2>1, <2>2 DEF ResetFactors, LogIn, Tick, Crash, sessions
  <2>5. PICK q \in Requests : SignInStep(q) \/ SecurityStep(q) \/ Refuse(q)
    BY <2>3, <2>4 DEF Next, ServerStep, OtherStep
  <2>6. q.sid \in Sessions /\ (q.verified => StillComplete(q.sid))
    BY <2>0, RequestFacts
  <2>7. \A fresh \in Sessions : ~completeSecondFactor(q.sid, fresh)
    BY <2>0, <2>6 DEF completeSecondFactor, Unheld, TypeOK
  <2>8. ~SignInStep(q) /\ ~Refuse(q)
    BY <2>1, <2>2, <2>7
       DEF SignInStep, PasskeyLogin, TotpLogin, TotpLoginWrong, recordTotpFailure, ConfirmCode,
           ConfirmCodeWrong, ConfirmOtherwise, Refuse, sessions
  <2>9. q.verified /\ (EndUnproved(q.sid) \/ \E r : Stopped(q, r))
    BY <2>1, <2>2, <2>5, <2>8
       DEF SecurityStep, BeginTotp, Regenerate, EndSessions, EndOthers, ConfirmTotp,
           RegenerateByCode, DisableTotp, AddPasskey, RemovePasskey, sessions
  <2>10. s \in Live
    BY DEF Live
  <2>11. CASE EndUnproved(q.sid)
    BY <2>0, <2>6, <2>9, <2>11 DEF EndUnproved, StillComplete
  <2>12. ASSUME NEW r, Stopped(q, r) PROVE Excepted(s)
    BY <2>6, <2>9, <2>10, <2>12 DEF Stopped, StillComplete
  <2> QED
    BY <2>9, <2>11, <2>12
<1> QED
  BY <1>1, Invariant, PTL DEF Spec, FreshIdOnly

\* While totp_locked_until lies ahead, no code completes a session and none
\* confirms (verifySessionTotp, verifyConfirmCode).
THEOREM LockedOut == Spec => LockHolds
<1>1. [Next]_vars => [isTotpLocked /\ ~(confirmed' \subseteq confirmed) => uses' = uses]_vars
  <2> SUFFICES ASSUME Next, isTotpLocked, ~(confirmed' \subseteq confirmed)
               PROVE  uses' = uses
    OBVIOUS
  <2>1. \A keep : ~KeepOnly(keep)
    BY DEF KeepOnly
  <2>2. \A s : ~EndUnproved(s)
    BY DEF EndUnproved
  <2>3. \A q \in Requests : SignInStep(q) => uses' = uses
    BY DEF SignInStep, PasskeyLogin, TotpLogin, TotpLoginWrong, ConfirmCode, ConfirmCodeWrong,
           ConfirmOtherwise, CodesAllowed
  <2>4. \A q \in Requests : SecurityStep(q) => uses' = uses
    BY <2>1, <2>2
       DEF SecurityStep, BeginTotp, Regenerate, EndSessions, ConfirmTotp, RegenerateByCode,
           DisableTotp, AddPasskey, RemovePasskey, Stopped, EndOthers, sessions
  <2> QED
    BY <2>3, <2>4
       DEF Next, ServerStep, OtherStep, LogIn, LoggedIn, Arrive, Expire, ConfirmationEnds, Refuse,
           ResetFactors, Tick, Crash
<1> QED
  BY <1>1, PTL DEF Spec, LockHolds

\* With ADMIN_REQUIRE_TOTP the last factor goes by a reset only, or by the
\* handler of a request whose reading of the factors had grown old (the guards
\* of the two removal routes).
THEOREM LastFactorStays == Spec => LastFactorKept
<1> DEFINE Overtaken == \E q \in inFlight \ inFlight' :
               q.totp # enabled \/ q.keys # Cardinality(passkeys)
<1>1. IInv /\ [Next]_vars =>
          [AdminRequireTotp /\ hasSecondFactor /\ ~hasSecondFactor' =>
              ResetFactors \/ Overtaken]_vars
  <2> SUFFICES ASSUME IInv, Next, AdminRequireTotp, hasSecondFactor, ~hasSecondFactor'
               PROVE  ResetFactors \/ Overtaken
    OBVIOUS
  <2>1. ~UNCHANGED <<enabled, passkeys>>
    BY DEF hasSecondFactor
  <2>2. CASE ResetFactors
    BY <2>2
  <2>3. ASSUME NEW q \in Requests, NEW c \in Codes, DisableTotp(q, c) PROVE Overtaken
    <3>1. q.keys > 0 /\ passkeys' = passkeys /\ Handled(q)
      BY <2>3 DEF DisableTotp, MayDisable
    <3>2. Cardinality(passkeys) = 0
      BY <3>1, FS_EmptySet DEF hasSecondFactor
    <3>3. \A s \in Live : q = Snapshot(s) => q.keys = Cardinality(passkeys)
      BY DEF Snapshot
    <3> QED
      BY <3>1, <3>2, <3>3 DEF Requests, Handled
  <2>4. ASSUME NEW q \in Requests, NEW p \in Passkeys, RemovePasskey(q, p) PROVE Overtaken
    <3>1. /\ (q.totp \/ q.keys > 1) /\ Handled(q)
          /\ passkeys' = passkeys \ {p} /\ p \in passkeys /\ enabled' = enabled
      BY <2>4 DEF RemovePasskey, MayRemove
    <3>2. ~enabled /\ passkeys = {p}
      BY <3>1 DEF hasSecondFactor
    <3>3. Cardinality(passkeys) = 1
      BY <3>2, FS_Singleton
    <3>4. \A s \in Live : q = Snapshot(s) => q.keys = Cardinality(passkeys) /\ q.totp = enabled
      BY DEF Snapshot
    <3> QED
      BY <3>1, <3>2, <3>3, <3>4 DEF Requests, Handled
  <2>5. ASSUME NEW q \in Requests, SecurityStep(q) PROVE Overtaken
    <3>1. ~BeginTotp(q) /\ ~Regenerate(q) /\ ~EndSessions(q)
      BY <2>1 DEF BeginTotp, Regenerate, EndSessions, factors
    <3>2. \A c \in Codes : ~ConfirmTotp(q, c) /\ ~RegenerateByCode(q, c)
      BY <2>1 DEF ConfirmTotp, RegenerateByCode, hasSecondFactor
    <3>3. \A p \in Passkeys : ~AddPasskey(q, p)
      BY DEF AddPasskey, hasSecondFactor
    <3> QED
      BY <2>3, <2>4, <2>5, <3>1, <3>2, <3>3 DEF SecurityStep
  <2>6. \A q \in Requests : ~SignInStep(q) /\ ~Refuse(q)
    BY <2>1
       DEF SignInStep, PasskeyLogin, TotpLogin, Spend, TotpLoginWrong, ConfirmCode, ConfirmCodeWrong,
           ConfirmOtherwise, Refuse, factors
  <2>7. \A s \in Sessions : ~(LoggedIn(s) \/ Arrive(s) \/ Expire(s) \/ ConfirmationEnds(s))
    BY <2>1 DEF LoggedIn, Arrive, Expire, ConfirmationEnds, factors
  <2>8. ~LogIn /\ ~Tick /\ ~Crash
    BY <2>1 DEF LogIn, Tick, Crash, factors
  <2> QED
    BY <2>2, <2>5, <2>6, <2>7, <2>8 DEF Next, ServerStep, OtherStep
<1> QED
  BY <1>1, Invariant, PTL DEF Spec, LastFactorKept
=============================================================================
