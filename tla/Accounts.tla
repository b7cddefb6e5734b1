------------------------------ MODULE Accounts ------------------------------
(***************************************************************************)
(* The accounts of the panel, their roles, passwords and sessions, and who *)
(* works on which case (services/users.ts, the password half of            *)
(* services/auth.ts, their routes in http/admin.ts, and cli.ts).           *)
(*                                                                         *)
(* Two processes share the database.  The server runs one handler at a     *)
(* time, but hashes passwords between its statements; the operator's CLI   *)
(* may step in there.  A request goes by the role its account had when the *)
(* session was read, which may be before the body arrived.                 *)
(***************************************************************************)
EXTENDS Naturals, FiniteSets

CONSTANTS
    Accounts,       \* account ids, never used twice
    FirstAdmins,    \* the administrators of a fresh instance
    Sessions,       \* session ids; one serves again when nobody holds it
    Cases,
    MaxInFlight,    \* bound of the model: requests whose body is on its way
    NoAccount, NoSession, Idle

Roles == {"admin", "user"}

\* A handler between two statements: what it has done, for which account, in
\* which session, and whether the password it was given is still the account's.
Handlers == [at : {"login", "change", "changed"}, who : Accounts,
             sid : Sessions \cup {NoSession}, valid : BOOLEAN]

ASSUME AccountsConstants ==
    /\ FirstAdmins \subseteq Accounts /\ FirstAdmins # {}
    /\ NoAccount \notin Accounts /\ NoSession \notin Sessions /\ Idle \notin Handlers
    /\ MaxInFlight \in Nat

VARIABLES
    role,      \* admins.role; "none" before the account exists, "deleted" after
    disabled,  \* accounts with disabled_at
    owner,     \* sessions.admin_id; NoAccount: no row
    members,   \* case_members
    opened,    \* cases that exist
    inFlight,  \* requests read by sessionMiddleware that wait for their body
    handler,   \* the handler of the server that is between two statements
    operator,  \* whose password the CLI has set, sessions not ended yet
    \* History, for the properties only:
    outdated,  \* sessions whose password is no longer the account's
    missed     \* of these, those that no DELETE will reach

accounts == <<role, disabled>>
sessions == <<owner, outdated, missed>>
cases    == <<members, opened>>
vars     == <<accounts, sessions, cases, inFlight, handler, operator>>

Exists(a) == role[a] \in Roles
Active(a) == Exists(a) /\ a \notin disabled

Live          == {s \in Sessions : owner[s] # NoAccount}
SessionsOf(a) == {s \in Sessions : owner[s] = a}

-----------------------------------------------------------------------------
(* Requests and rows.                                                      *)

Snapshot(s) == [sid |-> s, who |-> owner[s], role |-> role[owner[s]]]

Requests == inFlight \cup {Snapshot(s) : s \in Live}

\* The server does nothing else while a handler is between its statements.
Free == handler = Idle

Arrive(s) ==
    /\ Free /\ s \in Live /\ Cardinality(inFlight) < MaxInFlight
    /\ inFlight' = inFlight \cup {Snapshot(s)}
    /\ UNCHANGED <<accounts, sessions, cases, handler, operator>>

\* One under way is done, or one that arrived just now and read the same.
Done(q) ==
    \/ inFlight' = inFlight \ {q}
    \/ q \in inFlight /\ q.sid \in Live /\ q = Snapshot(q.sid) /\ UNCHANGED inFlight

Handled(q) == Free /\ Done(q) /\ UNCHANGED <<handler, operator>>

\* Refused, or given up by the client.
Refuse(q) ==
    /\ Free /\ q \in inFlight /\ inFlight' = inFlight \ {q}
    /\ UNCHANGED <<accounts, sessions, cases, handler, operator>>

\* newSessionId makes an id that nobody holds.
Unheld(s) ==
    /\ owner[s] = NoAccount /\ \A q \in inFlight : q.sid # s
    /\ handler # Idle => handler.sid # s

\* DELETE FROM sessions
End(ended) ==
    /\ owner'    = [s \in Sessions |-> IF s \in ended THEN NoAccount ELSE owner[s]]
    /\ outdated' = outdated \ ended
    /\ missed'   = missed \ ended

\* UPDATE admins SET password_hash, by someone in session `keep` or in none:
\* every other session was made with a password that is no longer the account's.
NewPassword(a, keep) ==
    /\ outdated' = (outdated \ {keep}) \cup (SessionsOf(a) \ {keep})
    /\ missed'   = missed \ {keep}

-----------------------------------------------------------------------------
(* Signing in and out, passwords.                                          *)

\* POST /login: authenticate read the row of an active account and hashes the
\* password.
LogIn(a) ==
    /\ Free /\ Active(a)
    /\ handler' = [at |-> "login", who |-> a, sid |-> NoSession, valid |-> TRUE]
    /\ UNCHANGED <<accounts, sessions, cases, inFlight, operator>>

\* createSession, whatever became of the password meanwhile
LoggedIn(s) ==
    /\ handler # Idle /\ handler.at = "login" /\ Unheld(s)
    /\ owner' = [owner EXCEPT ![s] = handler.who]
    /\ outdated' = IF handler.valid THEN outdated ELSE outdated \cup {s}
    /\ missed'   = IF handler.valid THEN missed ELSE missed \cup {s}
    /\ handler'  = Idle
    /\ UNCHANGED <<accounts, cases, inFlight, operator>>

\* POST /security/password: changeAdminPassword checked the current password ...
ChangePassword(q) ==
    /\ Free /\ Exists(q.who)
    /\ Done(q)
    /\ handler'  = [at |-> "change", who |-> q.who, sid |-> q.sid, valid |-> TRUE]
    /\ UNCHANGED <<accounts, sessions, cases, operator>>

\* ... sets the new one, even over one that the operator set meanwhile ...
PasswordChanged ==
    /\ handler # Idle /\ handler.at = "change"
    /\ NewPassword(handler.who, handler.sid)
    /\ handler' = [handler EXCEPT !.at = "changed"]
    /\ UNCHANGED <<accounts, owner, cases, inFlight, operator>>

\* ... and the route ends the other sessions.
OthersEnded ==
    /\ handler # Idle /\ handler.at = "changed"
    /\ End(SessionsOf(handler.who) \ {handler.sid})
    /\ handler' = Idle
    /\ UNCHANGED <<accounts, cases, inFlight, operator>>

\* Logout, revocation from the list of sessions, expiry.
EndSession(s) ==
    /\ Free /\ s \in Live
    /\ End({s})
    /\ UNCHANGED <<accounts, cases, inFlight, handler, operator>>

\* The CLI's reset-password, two statements: setAdminPassword
OperatorSets(a) ==
    /\ operator = NoAccount /\ Exists(a)
    /\ operator' = a
    /\ NewPassword(a, NoSession)
    /\ handler' = IF handler # Idle /\ handler.who = a
                  THEN [handler EXCEPT !.valid = FALSE] ELSE handler
    /\ UNCHANGED <<accounts, owner, cases, inFlight>>

OperatorEnds ==
    /\ operator # NoAccount /\ operator' = NoAccount
    /\ End(SessionsOf(operator))
    /\ UNCHANGED <<accounts, cases, inFlight, handler>>

\* The CLI is interrupted before its second statement.
OperatorStops ==
    /\ operator # NoAccount /\ operator' = NoAccount
    /\ missed' = missed \cup (SessionsOf(operator) \cap outdated)
    /\ UNCHANGED <<accounts, owner, outdated, cases, inFlight, handler>>

-----------------------------------------------------------------------------
(* Accounts, by an administrator.                                          *)

BugActiveAdmins(a) == {b \in Accounts : role[b] = "admin"}

activeAdminsOtherThan(a) == {b \in Accounts \ {a} : role[b] = "admin" /\ b \notin disabled}

BugMayBeSelf(q, a) == Exists(a)

\* requireUser: the account is there and not the one asking.
requireUser(q, a) == Exists(a) /\ a # q.who

\* adminsOnly, by what the request read; a recent confirmation is taken as given.
Manages(q, a) == q.role = "admin" /\ requireUser(q, a)

\* POST /users; the CLI's create-admin
CreateUser(q, a, r) ==
    /\ q.role = "admin" /\ role[a] = "none"
    /\ role' = [role EXCEPT ![a] = r]
    /\ Handled(q)
    /\ UNCHANGED <<disabled, sessions, cases>>

OperatorCreates(a) ==
    /\ role[a] = "none" /\ role' = [role EXCEPT ![a] = "admin"]
    /\ UNCHANGED <<disabled, sessions, cases, inFlight, handler, operator>>

setUserRole(q, a, r) ==
    /\ Manages(q, a)
    /\ role[a] = "admin" /\ r # "admin" => activeAdminsOtherThan(a) # {}
    /\ role' = [role EXCEPT ![a] = r]
    /\ Handled(q)
    /\ UNCHANGED <<disabled, sessions, cases>>

\* setUserDisabled, one transaction
Disable(q, a) ==
    /\ Manages(q, a)
    /\ role[a] = "admin" => activeAdminsOtherThan(a) # {}
    /\ disabled' = disabled \cup {a}
    /\ End(SessionsOf(a))
    /\ Handled(q)
    /\ UNCHANGED <<role, cases>>

Enable(q, a) ==
    /\ Manages(q, a)
    /\ disabled' = disabled \ {a}
    /\ Handled(q)
    /\ UNCHANGED <<role, sessions, cases>>

BugResetKeepsSessions(q, a) ==
    /\ Manages(q, a)
    /\ NewPassword(a, NoSession)
    /\ Handled(q)
    /\ UNCHANGED <<accounts, owner, cases>>

\* One transaction: no session survives that could be outdated.
resetUserPassword(q, a) ==
    /\ Manages(q, a)
    /\ End(SessionsOf(a))
    /\ Handled(q)
    /\ UNCHANGED <<accounts, cases>>

BugDeleteKeepsSessions(q, a) ==
    /\ Manages(q, a)
    /\ role[a] = "admin" => activeAdminsOtherThan(a) # {}
    /\ role'     = [role EXCEPT ![a] = "deleted"]
    /\ disabled' = disabled \ {a}
    /\ members'  = [c \in Cases |-> members[c] \ {a}]
    /\ Handled(q)
    /\ UNCHANGED <<sessions, opened>>

\* Sessions and memberships go with the row.
deleteUser(q, a) ==
    /\ Manages(q, a)
    /\ role[a] = "admin" => activeAdminsOtherThan(a) # {}
    /\ role'     = [role EXCEPT ![a] = "deleted"]
    /\ disabled' = disabled \ {a}
    /\ End(SessionsOf(a))
    /\ members'  = [c \in Cases |-> members[c] \ {a}]
    /\ Handled(q)
    /\ UNCHANGED opened

-----------------------------------------------------------------------------
(* Cases.                                                                  *)

BugAnyCase(q, c) == c \in opened

\* caseFor with canAccessCase: the role as it was read, the membership as it is.
caseFor(q, c) == c \in opened /\ (q.role = "admin" \/ q.who \in members[c])

BugAddAnyway(q, c) == members' = [members EXCEPT ![c] = IF q.role = "admin" THEN {} ELSE {q.who}]

\* A user who opens a case works on it.  An account that is gone is refused by
\* the foreign key.
AddOpener(q, c) ==
    members' = [members EXCEPT ![c] = IF q.role = "admin" \/ ~Exists(q.who) THEN {} ELSE {q.who}]

\* POST /cases, two statements
OpenCase(q, c) ==
    /\ Free /\ c \notin opened /\ opened' = opened \cup {c}
    /\ \/ AddOpener(q, c) /\ Done(q)
       \/ UNCHANGED members /\ (inFlight' = {} \/ Done(q))
    /\ UNCHANGED <<accounts, sessions, handler, operator>>

\* POST /cases/:id/members
AddMember(q, c, a) ==
    /\ caseFor(q, c)
    /\ role[a] = "user" /\ a \notin disabled
    /\ members' = [members EXCEPT ![c] = @ \cup {a}]
    /\ Handled(q)
    /\ UNCHANGED <<accounts, sessions, opened>>

\* POST /cases/:id/members/:uid/remove
RemoveMember(q, c, a) ==
    /\ caseFor(q, c)
    /\ a # q.who /\ a \in members[c]
    /\ members' = [members EXCEPT ![c] = @ \ {a}]
    /\ Handled(q)
    /\ UNCHANGED <<accounts, sessions, opened>>

\* The server goes down and comes back.
Crash ==
    /\ inFlight' = {} /\ handler' = Idle
    /\ missed' = IF handler # Idle /\ handler.at = "changed"
                 THEN missed \cup ((SessionsOf(handler.who) \ {handler.sid}) \cap outdated)
                 ELSE missed
    /\ UNCHANGED <<accounts, owner, outdated, cases, operator>>

-----------------------------------------------------------------------------
Init ==
    /\ role = [a \in Accounts |-> IF a \in FirstAdmins THEN "admin" ELSE "none"]
    /\ disabled = {}
    /\ owner = [s \in Sessions |-> NoAccount]
    /\ outdated = {} /\ missed = {}
    /\ members = [c \in Cases |-> {}] /\ opened = {}
    /\ inFlight = {} /\ handler = Idle /\ operator = NoAccount

AccountStep(q, a) ==
    \/ \E r \in Roles : CreateUser(q, a, r) \/ setUserRole(q, a, r)
    \/ Disable(q, a) \/ Enable(q, a)
    \/ resetUserPassword(q, a) \/ deleteUser(q, a)
    \/ \E c \in Cases : AddMember(q, c, a) \/ RemoveMember(q, c, a)

Next ==
    \/ \E s \in Sessions : Arrive(s) \/ LoggedIn(s) \/ EndSession(s)
    \/ \E a \in Accounts : LogIn(a) \/ OperatorSets(a) \/ OperatorCreates(a)
    \/ PasswordChanged \/ OthersEnded \/ OperatorEnds \/ OperatorStops \/ Crash
    \/ \E q \in Requests :
           \/ ChangePassword(q) \/ Refuse(q)
           \/ \E c \in Cases : OpenCase(q, c)
           \/ \E a \in Accounts : AccountStep(q, a)

Spec == Init /\ [][Next]_vars

-----------------------------------------------------------------------------
TypeOK ==
    /\ role \in [Accounts -> Roles \cup {"none", "deleted"}]
    /\ disabled \in SUBSET Accounts
    /\ owner \in [Sessions -> Accounts \cup {NoAccount}]
    /\ members \in [Cases -> SUBSET Accounts] /\ opened \in SUBSET Cases
    /\ inFlight \in SUBSET [sid : Sessions, who : Accounts, role : Roles]
    /\ handler \in Handlers \cup {Idle}
    /\ operator \in Accounts \cup {NoAccount}
    /\ outdated \in SUBSET Sessions /\ missed \in SUBSET Sessions

\* However administrators demote, disable and delete each other, acting on what
\* they read earlier, one who may sign in remains.
AdministratorRemains == \E a \in Accounts : role[a] = "admin" /\ a \notin disabled

\* Whoever takes the rights of an administrator away is signed in as one and
\* could give them back; but for a request that was itself overtaken by the end
\* of its session or by a change of role.
UndoPossible ==
    [][(\E a \in Accounts : role[a] = "admin" /\ Active(a) /\ ~(role[a] = "admin" /\ Active(a))') =>
           \/ \E s \in Live : role'[owner[s]] = "admin" /\ owner'[s] = owner[s]
           \/ \E q \in inFlight \ inFlight' :
                  owner[q.sid] # q.who \/ role[q.who] # "admin"]_vars

\* Disabling and deleting end every session at once and for good, and nobody is
\* a member of a case after the account was deleted.
NothingLeftBehind ==
    /\ \A s \in Live : Active(owner[s])
    /\ \A c \in Cases : \A a \in members[c] : Exists(a)

\* A session outlives the password it was made with only while the sessions are
\* about to be ended, if that never came to pass, or if its sign-in was overtaken
\* by the operator's CLI.
SessionsKnowPassword ==
    \A s \in outdated :
        \/ s \in missed
        \/ operator = owner[s]
        \/ handler # Idle /\ handler.at = "changed" /\ handler.who = owner[s] /\ handler.sid # s

MayWork(a, c) == Exists(a) /\ c \in opened /\ (role[a] = "admin" \/ a \in members[c])

\* Nobody lets themselves into a case that was there before: someone else adds
\* or promotes them.  The exception is a request that left while its account was
\* an administrator and arrives after it was demoted.
LetInByAnother ==
    [][\A c \in opened, a \in Accounts : ~MayWork(a, c) /\ MayWork(a, c)' =>
           \/ OperatorCreates(a)
           \/ \E q \in Requests : q.who # a /\ AccountStep(q, a)
           \/ \E q \in inFlight \ inFlight' : q.who = a /\ q.role # role[a]]_vars
=============================================================================
