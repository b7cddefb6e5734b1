---------------------------- MODULE SecondFactor ----------------------------
(***************************************************************************)
(* One account's second factors and its sessions: the sign-in in two       *)
(* steps, codes from an app, recovery codes, passkeys, the confirmation of *)
(* sensitive actions, enrolment and removal (services/auth.ts,             *)
(* services/passkeys.ts and their routes in http/admin.ts).                *)
(*                                                                         *)
(* sessionMiddleware reads the session before the body of a POST has       *)
(* arrived, and the route works with what it read; the services read the   *)
(* database again in their own transaction.  So a handler here runs on a   *)
(* snapshot taken just now or while other handlers had yet to run.         *)
(***************************************************************************)
EXTENDS Naturals, FiniteSets

CONSTANTS
    Sessions,          \* session ids; one serves again when nobody holds it
    Passkeys,          \* credentials the owner may register
    MaxPasskeys,       \* MAX_PASSKEYS
    MaxAttempts,       \* MAX_TOTP_ATTEMPTS
    LockThreshold,     \* TOTP_ACCOUNT_LOCK_THRESHOLD
    LockSteps,         \* TOTP_ACCOUNT_LOCK_MS, in steps of the authenticator
    AdminRequireTotp,  \* cfg.adminRequireTotp
    MaxStep,           \* bounds of the model: the last step of the clock,
    MaxSecrets,        \*   secrets ever made,
    MaxIssues,         \*   sets of recovery codes ever made,
    CodesEach,         \*   codes in a set,
    MaxInFlight        \*   and requests under way that wait for their body
                       \*   or for the hash of a password

ASSUME SecondFactorConstants ==
    /\ IsFiniteSet(Passkeys)
    /\ MaxPasskeys \in Nat \ {0} /\ MaxAttempts \in Nat \ {0}
    /\ LockThreshold \in Nat \ {0} /\ LockSteps \in Nat \ {0}
    /\ AdminRequireTotp \in BOOLEAN
    /\ MaxStep \in Nat /\ MaxSecrets \in Nat /\ MaxIssues \in Nat
    /\ CodesEach \in Nat \ {0} /\ MaxInFlight \in Nat

VARIABLES
    step,         \* totpStep(now)
    secret,       \* admins.totp_secret, as the number of its making; 0: NULL
    secrets,      \* how many were made
    enabled,      \* admins.totp_enabled_at is set
    lastStep,     \* admins.totp_last_step; 0: NULL
    failed,       \* admins.totp_failed_count
    lockedUntil,  \* admins.totp_locked_until, in steps; 0: NULL
    passkeys,     \* rows of admin_passkeys
    issues,       \* how many sets of recovery codes were made
    unused,       \* rows of admin_recovery_codes with no used_at
    row,          \* sessions: "none", or "pending"/"verified" by totp_verified
    attempts,     \* sessions.totp_attempts
    confirmed,    \* sessions whose confirmed_until lies ahead
    signIn,       \* what authenticate read of the account whose password is
                  \*   being hashed: "factor" or "plain"; "none" otherwise
    inFlight,     \* snapshots of requests that wait for their body
    \* History, for the properties only:
    uses,         \* how often a code was accepted
    earned,       \* sessions that passed what the account asked of them
    spared,       \* sessions that a stopped handler was about to end
    overtaken     \* sessions made pending after a reset took the factors,
                  \*   with nothing proved since

factors == <<secret, secrets, enabled, lastStep, passkeys>>
lock    == <<failed, lockedUntil>>
codes   == <<issues, unused>>
sessions == <<row, attempts, confirmed, earned, spared, overtaken>>
vars    == <<step, factors, lock, codes, sessions, signIn, inFlight, uses>>

TotpCodes     == {"totp"} \X (1 .. MaxSecrets) \X (1 .. MaxStep + 1)
RecoveryCodes == {"recovery"} \X (1 .. MaxIssues) \X (1 .. CodesEach)
Codes         == TotpCodes \cup RecoveryCodes

hasSecondFactor == enabled \/ passkeys # {}

Live == {s \in Sessions : row[s] # "none"}

\* getSession: complete if there is nothing to prove or it was proved.
totpVerified(s) == ~hasSecondFactor \/ row[s] = "verified"

-----------------------------------------------------------------------------
(* Requests.                                                               *)

\* What sessionMiddleware reads and the routes go by.
Snapshot(s) ==
    [sid |-> s, verified |-> totpVerified(s), totp |-> enabled,
     keys |-> Cardinality(passkeys), confirmed |-> s \in confirmed]

\* The requests a handler may run for, one at a time.
Requests == inFlight \cup {Snapshot(s) : s \in Live}

HadFactor(q) == q.totp \/ q.keys > 0

Arrive(s) ==
    /\ s \in Live /\ Cardinality(inFlight) < MaxInFlight
    /\ inFlight' = inFlight \cup {Snapshot(s)}
    /\ UNCHANGED <<step, factors, lock, codes, sessions, uses>>

\* One under way is done, or one that arrived just now and read the same.
Handled(q) ==
    \/ inFlight' = inFlight \ {q}
    \/ q \in inFlight /\ q.sid \in Live /\ q = Snapshot(q.sid) /\ UNCHANGED inFlight

\* Refused, answered without a change, or given up by the client.
Refuse(q) ==
    /\ q \in inFlight /\ inFlight' = inFlight \ {q}
    /\ UNCHANGED <<step, factors, lock, codes, sessions, uses>>

\* newSessionId makes an id that nobody holds, no request under way either.
Unheld(s) == row[s] = "none" /\ \A q \in inFlight : q.sid # s

-----------------------------------------------------------------------------
(* Rows of the sessions table.                                             *)

\* DELETE FROM sessions of all but those in `keep`.
KeepOnly(keep) ==
    /\ row'       = [s \in Sessions |-> IF s \in keep THEN row[s] ELSE "none"]
    /\ attempts'  = [s \in Sessions |-> IF s \in keep THEN attempts[s] ELSE 0]
    /\ confirmed' = confirmed \cap keep
    /\ earned'    = earned \cap keep
    /\ spared'    = spared \cap keep
    /\ overtaken' = overtaken \cap keep

BugEndVerifiedOthers(s) == KeepOnly({s} \cup {t \in Sessions : row[t] = "pending"})

\* destroyOtherSessions, and endSessions with a session to keep
EndOthers(s) == KeepOnly({s})

\* markConfirmed
Confirm(s) == confirmed' = IF s \in Live THEN confirmed \cup {s} ELSE confirmed

BugCompleteInPlace(s, fresh) ==
    /\ failed' = 0 /\ lockedUntil' = 0
    /\ row'       = [row EXCEPT ![s] = "verified"]
    /\ attempts'  = [attempts EXCEPT ![s] = 0]
    /\ confirmed' = confirmed \cup {s}
    /\ earned'    = earned \cup {s}
    /\ UNCHANGED <<spared, overtaken>>

\* completeSecondFactor, then signedIn of the route: the pending session goes,
\* a fresh one stands in for it and counts as confirmed.
completeSecondFactor(s, fresh) ==
    /\ Unheld(fresh)
    /\ failed' = 0 /\ lockedUntil' = 0
    /\ row'       = [row EXCEPT ![s] = "none", ![fresh] = "verified"]
    /\ attempts'  = [attempts EXCEPT ![s] = 0]
    /\ confirmed' = (confirmed \ {s}) \cup {fresh}
    /\ earned'    = (earned \ {s}) \cup {fresh}
    /\ spared'    = spared \ {s}
    /\ overtaken' = overtaken \ {s}

-----------------------------------------------------------------------------
(* Codes.                                                                  *)

isTotpLocked == lockedUntil > step

\* verifyTotp: the code of a step at most one away, after the last accepted.
verifyTotp(c, minStep) ==
    /\ c \in TotpCodes /\ c[2] = secret
    /\ c[3] \in (step - 1) .. (step + 1)
    /\ c[3] > minStep

BugTotpPassesTwice(c) == enabled /\ verifyTotp(c, 0)

TotpPasses(c) == enabled /\ verifyTotp(c, lastStep)

BugCodesWhileLocked == TRUE

\* Login and confirmation look at the lock first.
CodesAllowed == ~isTotpLocked

Used(c) == uses' = [uses EXCEPT ![c] = @ + 1]

\* A code from the app moves totp_last_step on, or a recovery code is consumed.
Spend(c) ==
    /\ \/ TotpPasses(c) /\ lastStep' = c[3] /\ UNCHANGED unused
       \/ c \in unused /\ unused' = unused \ {c} /\ UNCHANGED lastStep
    /\ Used(c)
    /\ UNCHANGED <<secret, secrets, enabled, passkeys, issues>>

BugLockOneLate(otherwise) ==
    IF failed > LockThreshold
    THEN /\ failed' = 0 /\ lockedUntil' = step + LockSteps
         /\ KeepOnly({t \in Sessions : row[t] = "verified"})
    ELSE /\ failed' = failed + 1
         /\ otherwise
         /\ UNCHANGED lockedUntil

\* recordTotpFailure; `otherwise` is what the caller does when it does not lock.
recordTotpFailure(otherwise) ==
    IF failed + 1 >= LockThreshold
    THEN /\ failed' = 0 /\ lockedUntil' = step + LockSteps
         /\ KeepOnly({t \in Sessions : row[t] = "verified"})
    ELSE /\ failed' = failed + 1
         /\ otherwise
         /\ UNCHANGED lockedUntil

replaceRecoveryCodes ==
    /\ issues < MaxIssues
    /\ issues' = issues + 1
    /\ unused' = {c \in RecoveryCodes : c[2] = issues + 1}

BugKeepRecoveryCodes(left, remains) == unused' = left /\ UNCHANGED issues

\* Of the codes left, when a factor remains or not.
dropRecoveryCodesIfUnused(left, remains) ==
    /\ unused' = IF remains THEN left ELSE {}
    /\ UNCHANGED issues

-----------------------------------------------------------------------------
(* Signing in.                                                             *)

\* POST /login: authenticate reads the account and hashes the password.
LogIn ==
    /\ signIn = "none" /\ Cardinality(inFlight) < MaxInFlight
    /\ \E s \in Sessions : Unheld(s)
    /\ signIn' = IF hasSecondFactor THEN "factor" ELSE "plain"
    /\ UNCHANGED <<step, factors, lock, codes, sessions, inFlight, uses>>

\* The password is right: createSession goes by what authenticate read, and
\* the session is complete and confirmed at once if that showed no factor.
LoggedIn(s) ==
    /\ signIn # "none" /\ signIn' = "none"
    /\ Unheld(s)
    /\ row' = [row EXCEPT ![s] = IF signIn = "factor" THEN "pending" ELSE "verified"]
    /\ confirmed' = IF signIn = "factor" THEN confirmed ELSE confirmed \cup {s}
    /\ earned'    = IF signIn = "plain" /\ ~hasSecondFactor THEN earned \cup {s} ELSE earned
    /\ overtaken' = IF signIn = "factor" /\ ~hasSecondFactor THEN overtaken \cup {s} ELSE overtaken
    /\ UNCHANGED <<step, factors, lock, codes, attempts, spared, inFlight, uses>>

\* POST /totp: verifySessionTotp
TotpLogin(q, c, fresh) ==
    /\ ~q.verified /\ q.sid \in Live /\ hasSecondFactor
    /\ CodesAllowed
    /\ Spend(c)
    /\ completeSecondFactor(q.sid, fresh)
    /\ Handled(q)
    /\ UNCHANGED step

TotpLoginWrong(q) ==
    /\ ~q.verified /\ q.sid \in Live /\ hasSecondFactor
    /\ CodesAllowed
    /\ recordTotpFailure(
           IF attempts[q.sid] + 1 >= MaxAttempts
           THEN KeepOnly(Sessions \ {q.sid})
           ELSE /\ attempts' = [attempts EXCEPT ![q.sid] = @ + 1]
                /\ UNCHANGED <<row, confirmed, earned, spared, overtaken>>)
    /\ Handled(q)
    /\ UNCHANGED <<step, factors, codes, uses>>

\* POST /webauthn/login: the challenge is on the session's row, so the row
\* must still be there; the lock is about codes only.
PasskeyLogin(q, fresh) ==
    /\ ~q.verified /\ q.sid \in Live /\ passkeys # {}
    /\ completeSecondFactor(q.sid, fresh)
    /\ Handled(q)
    /\ UNCHANGED <<step, factors, codes, uses>>

-----------------------------------------------------------------------------
(* Confirming a sensitive action.                                          *)

\* POST /confirm/code: verifyConfirmCode, by the account and not the session.
\* Only a code from the app clears the count of failures.
ConfirmCode(q, c) ==
    /\ q.verified /\ CodesAllowed
    /\ Spend(c)
    /\ failed' = IF TotpPasses(c) THEN 0 ELSE failed
    /\ Confirm(q.sid)
    /\ Handled(q)
    /\ UNCHANGED <<step, lockedUntil, row, attempts, earned, spared, overtaken>>

ConfirmCodeWrong(q) ==
    /\ q.verified /\ CodesAllowed
    /\ recordTotpFailure(UNCHANGED sessions)
    /\ Handled(q)
    /\ UNCHANGED <<step, factors, codes, uses>>

\* POST /confirm/password, for who had no second factor when the request was
\* read, and /confirm/passkey.
ConfirmOtherwise(q) ==
    /\ q.verified
    /\ ~HadFactor(q) \/ (passkeys # {} /\ q.sid \in Live)
    /\ Confirm(q.sid)
    /\ Handled(q)
    /\ UNCHANGED <<step, factors, lock, codes, row, attempts, earned, spared, overtaken, uses>>

-----------------------------------------------------------------------------
(* The security page.  A handler that changes the factors ends the other   *)
(* sessions in a second statement where the code has it in a second one:   *)
(* the process may stop, or the database refuse, in between.               *)

\* POST /security/totp/begin
BeginTotp(q) ==
    /\ q.verified /\ q.confirmed
    /\ ~enabled /\ secrets < MaxSecrets
    /\ secrets' = secrets + 1
    /\ secret' = secrets + 1 /\ lastStep' = 0
    /\ Handled(q)
    /\ UNCHANGED <<step, enabled, passkeys, lock, codes, sessions, uses>>

\* What a stopped handler leaves: the sessions as its first statement left
\* them, and no request under way if the process went down.
Stopped(q, r) ==
    /\ row' = r
    /\ earned' = earned \cup ({q.sid} \cap Live)
    /\ spared' = spared \cup (Live \ {q.sid})
    /\ inFlight' = {} \/ Handled(q)
    /\ UNCHANGED <<attempts, confirmed, overtaken>>

\* EndOthers, with the session of the request complete by what it proved.
EndUnproved(s) ==
    /\ row'       = [t \in Sessions |-> IF t = s /\ s \in Live THEN "verified" ELSE "none"]
    /\ attempts'  = [t \in Sessions |-> IF t = s THEN attempts[s] ELSE 0]
    /\ confirmed' = confirmed \cap {s}
    /\ earned'    = {s} \cap Live
    /\ spared'    = spared \cap {s}
    /\ overtaken' = {}

\* POST /security/totp/confirm: confirmTotpEnrolment marks every session of
\* the account verified, then destroyOtherSessions.
ConfirmTotp(q, c) ==
    /\ q.verified
    /\ secret # 0 /\ ~enabled /\ verifyTotp(c, 0)
    /\ enabled' = TRUE /\ lastStep' = c[3]
    /\ Used(c)
    /\ replaceRecoveryCodes
    /\ \/ EndUnproved(q.sid) /\ Handled(q)
       \/ Stopped(q, [s \in Sessions |-> IF s \in Live THEN "verified" ELSE "none"])
    /\ UNCHANGED <<step, secret, secrets, passkeys, lock>>

\* POST /security/totp/recovery: a code from the app, lock or no lock
RegenerateByCode(q, c) ==
    /\ q.verified /\ TotpPasses(c)
    /\ lastStep' = c[3] /\ Used(c)
    /\ replaceRecoveryCodes
    /\ Handled(q)
    /\ UNCHANGED <<step, secret, secrets, enabled, passkeys, lock, sessions>>

\* POST /security/recovery/regenerate
Regenerate(q) ==
    /\ q.verified /\ q.confirmed /\ hasSecondFactor
    /\ replaceRecoveryCodes
    /\ Handled(q)
    /\ UNCHANGED <<step, factors, lock, sessions, uses>>

\* forceDisableTotp, with the recovery codes and the passkeys that are left
ForceDisable(left, keys) ==
    /\ secret' = 0 /\ enabled' = FALSE /\ lastStep' = 0
    /\ failed' = 0 /\ lockedUntil' = 0
    /\ dropRecoveryCodesIfUnused(left, keys # {})
    /\ UNCHANGED secrets

BugMayAlwaysRemove(q) == TRUE

\* With ADMIN_REQUIRE_TOTP the routes keep the last factor, by what was read.
MayDisable(q) == AdminRequireTotp => q.keys > 0
MayRemove(q)  == AdminRequireTotp => q.totp \/ q.keys > 1

\* POST /security/totp/disable: disableTotp, one transaction
DisableTotp(q, c) ==
    /\ q.verified /\ MayDisable(q)
    /\ enabled
    /\ TotpPasses(c) \/ c \in unused
    /\ Used(c)
    /\ ForceDisable(unused \ {c}, passkeys)
    /\ EndOthers(q.sid)
    /\ Handled(q)
    /\ UNCHANGED <<step, passkeys>>

\* POST /security/passkeys: registerPasskey, then destroyOtherSessions, then
\* recovery codes if the account had no factor when the request was read.
AddPasskey(q, p) ==
    /\ q.verified /\ q.confirmed /\ q.sid \in Live
    /\ Cardinality(passkeys) < MaxPasskeys /\ p \notin passkeys
    /\ passkeys' = passkeys \cup {p}
    /\ \/ /\ EndUnproved(q.sid)
          /\ IF HadFactor(q) THEN UNCHANGED codes ELSE replaceRecoveryCodes
          /\ Handled(q)
       \/ /\ Stopped(q, [row EXCEPT ![q.sid] = "verified"])
          /\ UNCHANGED codes
    /\ UNCHANGED <<step, secret, secrets, enabled, lastStep, lock, uses>>

\* POST /security/passkeys/:id/remove: removePasskey, one transaction
RemovePasskey(q, p) ==
    /\ q.verified /\ q.confirmed /\ MayRemove(q)
    /\ p \in passkeys
    /\ passkeys' = passkeys \ {p}
    /\ dropRecoveryCodesIfUnused(unused, enabled \/ passkeys \ {p} # {})
    /\ EndOthers(q.sid)
    /\ Handled(q)
    /\ UNCHANGED <<step, secret, secrets, enabled, lastStep, lock, uses>>

\* POST /logout, /security/sessions/:id/revoke and /revoke-others
EndSessions(q) ==
    /\ \/ KeepOnly(Sessions \ {q.sid})
       \/ q.verified /\ EndOthers(q.sid)
       \/ q.verified /\ \E t \in Live \ {q.sid} : KeepOnly(Sessions \ {t})
    /\ Handled(q)
    /\ UNCHANGED <<step, factors, lock, codes, uses>>

\* resetSecondFactors, by the operator's CLI or another administrator
ResetFactors ==
    /\ passkeys' = {}
    /\ ForceDisable({}, {})
    /\ KeepOnly({})
    /\ UNCHANGED <<step, inFlight, uses>>

-----------------------------------------------------------------------------
(* Time, and the process.                                                  *)

Tick ==
    /\ step < MaxStep /\ step' = step + 1
    /\ UNCHANGED <<factors, lock, codes, sessions, inFlight, uses>>

\* expires_at passes; getSession or purgeExpiredSessions deletes the row.
Expire(s) ==
    /\ s \in Live
    /\ KeepOnly(Sessions \ {s})
    /\ UNCHANGED <<step, factors, lock, codes, inFlight, uses>>

\* confirmed_until passes, for requests that read it as well.
ConfirmationEnds(s) ==
    /\ s \in confirmed
    /\ confirmed' = confirmed \ {s}
    /\ inFlight'  = {IF q.sid = s THEN [q EXCEPT !.confirmed = FALSE] ELSE q : q \in inFlight}
    /\ UNCHANGED <<step, factors, lock, codes, row, attempts, earned, spared, overtaken, uses>>

\* With the process go its requests, the one that signs in as well.
Crash ==
    /\ inFlight # {} \/ signIn # "none"
    /\ inFlight' = {} /\ signIn' = "none"
    /\ UNCHANGED <<step, factors, lock, codes, sessions, uses>>

-----------------------------------------------------------------------------
Init ==
    /\ step = 2 /\ secret = 0 /\ secrets = 0 /\ enabled = FALSE /\ lastStep = 0
    /\ failed = 0 /\ lockedUntil = 0
    /\ passkeys = {}
    /\ issues = 0 /\ unused = {}
    /\ row = [s \in Sessions |-> "none"]
    /\ attempts = [s \in Sessions |-> 0]
    /\ confirmed = {} /\ inFlight = {}
    /\ uses = [c \in Codes |-> 0]
    /\ signIn = "none"
    /\ earned = {} /\ spared = {} /\ overtaken = {}

SignInStep(q) ==
    \/ \E fresh \in Sessions :
           PasskeyLogin(q, fresh) \/ \E c \in Codes : TotpLogin(q, c, fresh)
    \/ TotpLoginWrong(q)
    \/ \E c \in Codes : ConfirmCode(q, c)
    \/ ConfirmCodeWrong(q)
    \/ ConfirmOtherwise(q)

SecurityStep(q) ==
    \/ BeginTotp(q) \/ Regenerate(q) \/ EndSessions(q)
    \/ \E c \in Codes : ConfirmTotp(q, c) \/ RegenerateByCode(q, c) \/ DisableTotp(q, c)
    \/ \E p \in Passkeys : AddPasskey(q, p) \/ RemovePasskey(q, p)

\* scryptSync holds up the event loop: while it hashes, no other request of
\* the server is read or handled.
ServerStep ==
    /\ signIn = "none"
    /\ \/ \E s \in Sessions : Arrive(s)
       \/ \E q \in Requests : SignInStep(q) \/ SecurityStep(q) \/ Refuse(q)
    /\ UNCHANGED signIn

\* Other processes (the CLI's reset and its purge of sessions) and the clock
\* do not wait for it.
OtherStep ==
    /\ ResetFactors \/ Tick \/ \E s \in Sessions : Expire(s) \/ ConfirmationEnds(s)
    /\ UNCHANGED signIn

Next ==
    \/ LogIn \/ \E s \in Sessions : LoggedIn(s)
    \/ ServerStep \/ OtherStep \/ Crash

Spec == Init /\ [][Next]_vars

-----------------------------------------------------------------------------
TypeOK ==
    /\ step \in Nat /\ secret \in 0 .. secrets /\ secrets \in 0 .. MaxSecrets
    /\ enabled \in BOOLEAN /\ lastStep \in 0 .. MaxStep + 1
    /\ failed \in 0 .. LockThreshold - 1 /\ lockedUntil \in Nat
    /\ passkeys \in SUBSET Passkeys
    /\ issues \in 0 .. MaxIssues /\ unused \in SUBSET RecoveryCodes
    /\ row \in [Sessions -> {"none", "pending", "verified"}]
    /\ attempts \in [Sessions -> 0 .. MaxAttempts - 1]
    /\ confirmed \in SUBSET Sessions
    /\ inFlight \in SUBSET [sid : Sessions, verified : BOOLEAN, totp : BOOLEAN,
                            keys : Nat, confirmed : BOOLEAN]
    /\ uses \in [Codes -> Nat]
    /\ signIn \in {"none", "plain", "factor"}
    /\ earned \in SUBSET Sessions /\ spared \in SUBSET Sessions
    /\ overtaken \in SUBSET Sessions

\* Whoever is let in as complete proved the second factor in that session, or
\* signed in when there was none to prove: neither a factor going away nor one
\* being added ever completes a session that waits for its second step.  Two
\* exceptions: what a handler stopped between its two statements was about to
\* end; and, while there is no factor, a session whose sign-in the CLI's reset
\* overtook, made to wait for the factor that authenticate had read.
CompleteIsEarned ==
    \A s \in Live : totpVerified(s) =>
        s \in earned \cup spared \/ (s \in overtaken /\ ~hasSecondFactor)

\* The cookie of the password step never becomes the privileged one, with the
\* same two exceptions: an overtaken session may enrol a factor and keep its id.
FreshIdOnly ==
    [][\A s \in Sessions : row[s] = "pending" /\ row'[s] = "verified" =>
           s \in spared' \/ (s \in overtaken /\ ~hasSecondFactor)]_vars

\* A code is worth one use, whatever it is used for: signing in, confirming,
\* enrolling, replacing recovery codes, turning the app off.
CodesCountOnce == \A c \in Codes : uses[c] <= 1

\* Recovery codes never outlive the factor they stand in for.
CodesBackAFactor == unused # {} => hasSecondFactor

\* While the account is locked, no code signs anybody in and none confirms,
\* however many sessions and requests there are.
LockHolds ==
    [][isTotpLocked /\ ~(confirmed' \subseteq confirmed) => uses' = uses]_vars

\* Where a second factor is required, an account loses its last one only by
\* a reset, or by the handler of a request that the factors changed under while
\* it was on its way.
LastFactorKept ==
    [][AdminRequireTotp /\ hasSecondFactor /\ ~hasSecondFactor' =>
           \/ ResetFactors
           \/ \E q \in inFlight \ inFlight' :
                  q.totp # enabled \/ q.keys # Cardinality(passkeys)]_vars
=============================================================================
