-------------------------- MODULE Accounts_proofs --------------------------
(***************************************************************************)
(* What Accounts promises holds for any number of accounts, sessions,      *)
(* cases and requests on their way.                                        *)
(***************************************************************************)
EXTENDS Accounts, TLAPS

\* A sign-in under way is that of an active account: no handler comes between
\* its two statements, and the CLI neither disables nor deletes.
SigningIn == handler # Idle /\ handler.at = "login" => Active(handler.who)

\* History is kept of rows only.
OutdatedLive == outdated \subseteq Live /\ missed \subseteq outdated

IInv ==
    /\ TypeOK /\ AdministratorRemains
    /\ SigningIn /\ NothingLeftBehind
    /\ OutdatedLive /\ SessionsKnowPassword

USE AccountsConstants DEF AccountsConstants, Roles

-----------------------------------------------------------------------------
(* Requests and statements.                                                *)

RequestType == [sid : Sessions, who : Accounts, role : Roles]

\* What a handler may count on of its request.
LEMMA RequestFacts ==
    ASSUME TypeOK, NothingLeftBehind, NEW q \in Requests
    PROVE  /\ q \in RequestType
           /\ q \in inFlight \/ (q.sid \in Live /\ q.who = owner[q.sid] /\ q.role = role[q.who] /\ Exists(q.who))
<1>1. CASE q \in inFlight
  BY <1>1 DEF TypeOK, RequestType
<1>2. CASE q \in {Snapshot(s) : s \in Live}
  <2>1. PICK s \in Live : q = Snapshot(s)
    BY <1>2
  <2>2. s \in Sessions /\ owner[s] \in Accounts /\ Exists(owner[s])
    BY <2>1 DEF Live, TypeOK, NothingLeftBehind, Active
  <2> QED
    BY <2>1, <2>2 DEF Snapshot, RequestType, Exists
<1> QED
  BY <1>1, <1>2 DEF Requests

\* A request that reads otherwise now is one that was under way, and is done.
LEMMA StaleIsDone ==
    ASSUME NEW q \in Requests, Done(q), ~(q.sid \in Live /\ q = Snapshot(q.sid))
    PROVE  q \in inFlight \ inFlight'
<1>1. \A s \in Live : q # Snapshot(s)
  BY DEF Snapshot
<1> QED
  BY <1>1 DEF Requests, Done

\* DELETE FROM sessions only takes away.
LEMMA EndFacts ==
    ASSUME TypeOK, OutdatedLive, NEW ended \in SUBSET Sessions, End(ended)
    PROVE  /\ owner' \in [Sessions -> Accounts \cup {NoAccount}]
           /\ outdated' \in SUBSET Sessions /\ missed' \in SUBSET Sessions
           /\ OutdatedLive'
           /\ \A s \in Sessions : owner'[s] # NoAccount => s \notin ended /\ owner'[s] = owner[s]
           /\ \A s \in outdated' : s \in outdated /\ s \notin ended
           /\ \A s \in outdated' : s \in missed => s \in missed'
           /\ \A s \in outdated' : owner'[s] = owner[s]
BY DEF TypeOK, OutdatedLive, Live, End

LEMMA NewPasswordFacts ==
    ASSUME TypeOK, OutdatedLive, NEW a \in Accounts, NEW keep \in Sessions \cup {NoSession},
           NewPassword(a, keep), owner' = owner
    PROVE  /\ outdated' \in SUBSET Sessions /\ missed' \in SUBSET Sessions
           /\ OutdatedLive'
           /\ \A s \in outdated' : s # keep /\ (s \in outdated \/ owner[s] = a)
           /\ \A s \in outdated' : s \in missed => s \in missed'
BY DEF TypeOK, OutdatedLive, Live, SessionsOf, NewPassword

-----------------------------------------------------------------------------
(* Each conjunct of IInv, kept by each step.                               *)

\* Most requests leave the sessions and what is under way as they are ...
LEMMA SessionsAsTheyWere ==
    ASSUME OutdatedLive, SessionsKnowPassword, UNCHANGED sessions, UNCHANGED operator,
           UNCHANGED handler
    PROVE  OutdatedLive' /\ SessionsKnowPassword'
BY DEF OutdatedLive, SessionsKnowPassword, sessions, Live

\* ... or end some, while no other handler is between its statements.
LEMMA ServerEnds ==
    ASSUME TypeOK, OutdatedLive, SessionsKnowPassword, Free, NEW ended \in SUBSET Sessions,
           End(ended), UNCHANGED operator, UNCHANGED handler
    PROVE  OutdatedLive' /\ SessionsKnowPassword'
<1>1. OutdatedLive' /\ \A s \in outdated' : owner'[s] = owner[s] /\ (s \in missed => s \in missed')
  BY EndFacts
<1>2. \A s \in outdated' : s \in outdated
  BY EndFacts
<1> QED
  BY <1>1, <1>2 DEF SessionsKnowPassword, Free

LEMMA AccountSessions == \A a : SessionsOf(a) \in SUBSET Sessions
BY DEF SessionsOf

LEMMA SessionsKept ==
    ASSUME IInv, Next
    PROVE  OutdatedLive' /\ SessionsKnowPassword'
<1>0. TypeOK /\ OutdatedLive /\ SessionsKnowPassword /\ NothingLeftBehind
  BY DEF IInv
<1>1. ASSUME NEW s \in Sessions, LoggedIn(s) PROVE OutdatedLive' /\ SessionsKnowPassword'
  <2>1. /\ owner[s] = NoAccount /\ handler.who \in Accounts
        /\ owner' = [owner EXCEPT ![s] = handler.who]
        /\ outdated' \subseteq outdated \cup {s} /\ missed' \subseteq outdated'
        /\ missed \subseteq missed' /\ (s \in outdated' => s \in missed')
    BY <1>0, <1>1 DEF LoggedIn, Unheld, TypeOK, OutdatedLive, Live, Handlers
  <2>2. OutdatedLive'
    BY <1>0, <2>1 DEF OutdatedLive, Live, TypeOK
  <2>3. SessionsKnowPassword'
    <3> SUFFICES ASSUME NEW t \in outdated', t \notin missed' PROVE operator' = owner'[t]
      BY DEF SessionsKnowPassword
    <3>1. t \in outdated /\ t \notin missed /\ t # s /\ t \in Sessions
      BY <1>0, <2>1 DEF TypeOK
    <3>2. operator = owner[t]
      BY <1>0, <1>1, <3>1 DEF SessionsKnowPassword, LoggedIn
    <3> QED
      BY <1>0, <1>1, <2>1, <3>1, <3>2 DEF LoggedIn, TypeOK
  <2> QED
    BY <2>2, <2>3
<1>2. CASE PasswordChanged
  <2>1. handler \in Handlers /\ handler.at = "change" /\ owner' = owner /\ operator' = operator
        /\ NewPassword(handler.who, handler.sid)
        /\ handler' = [handler EXCEPT !.at = "changed"]
    BY <1>0, <1>2 DEF PasswordChanged, TypeOK
  <2>2. handler' \in Handlers /\ handler'.at = "changed" /\ handler'.who = handler.who
        /\ handler'.sid = handler.sid /\ handler' # Idle
    BY <2>1 DEF Handlers
  <2>3. OutdatedLive' /\ \A s \in outdated' : s # handler.sid /\ (s \in outdated \/ owner[s] = handler.who)
        /\ (s \in missed => s \in missed')
    BY <1>0, <2>1, NewPasswordFacts DEF Handlers
  <2> QED
    BY <1>0, <2>1, <2>2, <2>3 DEF SessionsKnowPassword
<1>3. CASE OthersEnded
  <2> DEFINE ended == SessionsOf(handler.who) \ {handler.sid}
  <2>1. End(ended) /\ operator' = operator /\ ended \in SUBSET Sessions
    BY <1>3, AccountSessions DEF OthersEnded
  <2>2. OutdatedLive' /\ \A s \in outdated' : owner'[s] = owner[s] /\ (s \in missed => s \in missed')
        /\ s \in outdated /\ s \notin ended
    BY <1>0, <2>1, EndFacts
  <2>3. \A s \in outdated' : s \in Sessions
    BY <1>0, <2>2 DEF TypeOK
  <2> QED
    BY <1>0, <2>1, <2>2, <2>3 DEF SessionsKnowPassword, SessionsOf
<1>4. ASSUME NEW a \in Accounts, OperatorSets(a) PROVE OutdatedLive' /\ SessionsKnowPassword'
  <2>1. /\ operator = NoAccount /\ operator' = a /\ owner' = owner
        /\ NewPassword(a, NoSession)
    BY <1>4 DEF OperatorSets
  <2>2. OutdatedLive' /\ \A s \in outdated' : (s \in outdated \/ owner[s] = a)
        /\ (s \in missed => s \in missed')
    BY <1>0, <2>1, NewPasswordFacts
  <2>3. \A s \in outdated : owner[s] # operator
    BY <1>0, <2>1 DEF OutdatedLive, Live
  <2>4. handler # Idle => /\ handler' # Idle /\ handler'.at = handler.at
                          /\ handler'.who = handler.who /\ handler'.sid = handler.sid
    <3>1. CASE handler # Idle /\ handler.who = a
      <4>1. handler \in Handlers /\ handler' = [handler EXCEPT !.valid = FALSE]
        BY <1>0, <1>4, <3>1 DEF OperatorSets, TypeOK
      <4>2. handler' \in Handlers
        BY <4>1 DEF Handlers
      <4> QED
        BY <4>1, <4>2 DEF Handlers
    <3>2. CASE ~(handler # Idle /\ handler.who = a)
      BY <1>4, <3>2 DEF OperatorSets
    <3> QED
      BY <3>1, <3>2
  <2> QED
    BY <1>0, <2>1, <2>2, <2>3, <2>4 DEF SessionsKnowPassword
<1>5. CASE OperatorEnds
  <2>1. End(SessionsOf(operator)) /\ handler' = handler
    BY <1>5 DEF OperatorEnds
  <2>2. OutdatedLive' /\ \A s \in outdated' : owner'[s] = owner[s] /\ (s \in missed => s \in missed')
        /\ s \in outdated /\ s \notin SessionsOf(operator)
    BY <1>0, <2>1, EndFacts, AccountSessions
  <2>3. \A s \in outdated' : s \in Sessions
    BY <1>0, <2>2 DEF TypeOK
  <2> QED
    BY <1>0, <2>1, <2>2, <2>3 DEF SessionsKnowPassword, SessionsOf
<1>6. CASE OperatorStops
  BY <1>0, <1>6 DEF OperatorStops, SessionsKnowPassword, SessionsOf, OutdatedLive, Live
<1>7. CASE Crash
  <2>1. OutdatedLive'
    BY <1>0, <1>7 DEF Crash, OutdatedLive, Live
  <2>2. SessionsKnowPassword'
    <3> SUFFICES ASSUME NEW s \in outdated', s \notin missed' PROVE operator' = owner'[s]
      BY DEF SessionsKnowPassword
    <3>1. s \in outdated /\ s \in Sessions /\ s \notin missed
      BY <1>0, <1>7 DEF Crash, TypeOK
    <3>2. ~(handler # Idle /\ handler.at = "changed" /\ handler.who = owner[s] /\ handler.sid # s)
      BY <1>7, <3>1 DEF Crash, SessionsOf
    <3> QED
      BY <1>0, <1>7, <3>1, <3>2 DEF SessionsKnowPassword, Crash
  <2> QED
    BY <2>1, <2>2
<1>8. ASSUME NEW s \in Sessions, EndSession(s) PROVE OutdatedLive' /\ SessionsKnowPassword'
  <2>1. Free /\ End({s}) /\ UNCHANGED operator /\ UNCHANGED handler
    BY <1>8 DEF EndSession
  <2> QED
    BY <1>0, <2>1, ServerEnds
<1>9. ASSUME NEW s \in Sessions, Arrive(s) PROVE OutdatedLive' /\ SessionsKnowPassword'
  BY <1>0, <1>9, SessionsAsTheyWere DEF Arrive
<1>10. CASE \E a \in Accounts : LogIn(a)
  BY <1>0, <1>10 DEF LogIn, Free, OutdatedLive, SessionsKnowPassword, sessions, Live
<1>11. CASE \E a \in Accounts : OperatorCreates(a)
  BY <1>0, <1>11, SessionsAsTheyWere DEF OperatorCreates
<1>12. ASSUME NEW q \in Requests, ChangePassword(q) \/ Refuse(q) \/ \E c \in Cases : OpenCase(q, c)
       PROVE  OutdatedLive' /\ SessionsKnowPassword'
  <2>1. CASE ChangePassword(q)
    BY <1>0, <2>1 DEF ChangePassword, Free, OutdatedLive, SessionsKnowPassword, sessions, Live
  <2>2. CASE Refuse(q)
    BY <1>0, <2>2, SessionsAsTheyWere DEF Refuse
  <2>3. CASE \E c \in Cases : OpenCase(q, c)
    BY <1>0, <2>3, SessionsAsTheyWere DEF OpenCase
  <2> QED
    BY <1>12, <2>1, <2>2, <2>3
<1>13. ASSUME NEW q \in Requests, NEW a \in Accounts, AccountStep(q, a)
       PROVE  OutdatedLive' /\ SessionsKnowPassword'
  <2>1. Free /\ UNCHANGED operator /\ UNCHANGED handler
    BY <1>13 DEF AccountStep, CreateUser, setUserRole, Disable, Enable, resetUserPassword,
                 deleteUser, AddMember, RemoveMember, Handled
  <2>2. UNCHANGED sessions \/ End(SessionsOf(a))
    BY <1>13 DEF AccountStep, CreateUser, setUserRole, Disable, Enable, resetUserPassword,
                 deleteUser, AddMember, RemoveMember
  <2> QED
    BY <1>0, <2>1, <2>2, ServerEnds, SessionsAsTheyWere, AccountSessions
<1> QED
  BY <1>1, <1>2, <1>3, <1>4, <1>5, <1>6, <1>7, <1>8, <1>9, <1>10, <1>11, <1>12, <1>13 DEF Next

LEMMA TypeKept == ASSUME IInv, Next PROVE TypeOK'
<1>0. TypeOK /\ OutdatedLive /\ NothingLeftBehind
  BY DEF IInv
<1>1. ASSUME NEW s \in Sessions, Arrive(s) PROVE TypeOK'
  <2>1. Snapshot(s) \in RequestType
    BY <1>0, <1>1, RequestFacts DEF Arrive, Requests
  <2> QED
    BY <1>0, <1>1, <2>1 DEF Arrive, TypeOK, RequestType, accounts, sessions, cases
<1>2. ASSUME NEW s \in Sessions, LoggedIn(s) PROVE TypeOK'
  <2>1. handler \in Handlers
    BY <1>0, <1>2 DEF LoggedIn, TypeOK
  <2> QED
    BY <1>0, <1>2, <2>1 DEF LoggedIn, TypeOK, Handlers, accounts, cases
<1>3. ASSUME NEW s \in Sessions, EndSession(s) PROVE TypeOK'
  <2>1. End({s}) /\ {s} \in SUBSET Sessions
    BY <1>3 DEF EndSession
  <2> QED
    BY <1>0, <1>3, <2>1, EndFacts DEF EndSession, TypeOK, accounts, cases
<1>4. ASSUME NEW a \in Accounts, LogIn(a) PROVE TypeOK'
  BY <1>0, <1>4 DEF LogIn, TypeOK, Handlers, accounts, sessions, cases
<1>5. ASSUME NEW a \in Accounts, OperatorSets(a) PROVE TypeOK'
  <2>1. NewPassword(a, NoSession) /\ owner' = owner
    BY <1>5 DEF OperatorSets
  <2>2. outdated' \in SUBSET Sessions /\ missed' \in SUBSET Sessions
    BY <1>0, <2>1, NewPasswordFacts
  <2>3. handler' \in Handlers \cup {Idle}
    <3>1. CASE handler # Idle /\ handler.who = a
      <4>1. handler \in Handlers /\ handler' = [handler EXCEPT !.valid = FALSE]
        BY <1>0, <1>5, <3>1 DEF OperatorSets, TypeOK
      <4> QED
        BY <4>1 DEF Handlers
    <3>2. CASE ~(handler # Idle /\ handler.who = a)
      BY <1>0, <1>5, <3>2 DEF OperatorSets, TypeOK
    <3> QED
      BY <3>1, <3>2
  <2> QED
    BY <1>0, <1>5, <2>1, <2>2, <2>3 DEF OperatorSets, TypeOK, accounts, cases
<1>6. ASSUME NEW a \in Accounts, OperatorCreates(a) PROVE TypeOK'
  BY <1>0, <1>6 DEF OperatorCreates, TypeOK, sessions, cases
<1>7. CASE PasswordChanged
  <2>1. handler \in Handlers /\ handler' = [handler EXCEPT !.at = "changed"]
    BY <1>0, <1>7 DEF PasswordChanged, TypeOK
  <2>2. handler' \in Handlers
    BY <2>1 DEF Handlers
  <2>3. NewPassword(handler.who, handler.sid) /\ owner' = owner
    BY <1>7 DEF PasswordChanged
  <2>4. outdated' \in SUBSET Sessions /\ missed' \in SUBSET Sessions
    BY <1>0, <2>1, <2>3, NewPasswordFacts DEF Handlers
  <2> QED
    BY <1>0, <1>7, <2>2, <2>4 DEF PasswordChanged, TypeOK, accounts, cases
<1>8. CASE OthersEnded
  <2>1. End(SessionsOf(handler.who) \ {handler.sid}) /\ SessionsOf(handler.who) \ {handler.sid} \in SUBSET Sessions
    BY <1>8, AccountSessions DEF OthersEnded
  <2> QED
    BY <1>0, <1>8, <2>1, EndFacts DEF OthersEnded, TypeOK, accounts, cases
<1>9. CASE OperatorEnds
  <2>1. End(SessionsOf(operator))
    BY <1>9 DEF OperatorEnds
  <2> QED
    BY <1>0, <1>9, <2>1, EndFacts, AccountSessions DEF OperatorEnds, TypeOK, accounts, cases
<1>10. CASE OperatorStops
  BY <1>0, <1>10 DEF OperatorStops, TypeOK, SessionsOf, accounts, cases
<1>11. CASE Crash
  BY <1>0, <1>11 DEF Crash, TypeOK, SessionsOf, accounts, cases
<1>12. ASSUME NEW q \in Requests, ChangePassword(q) \/ Refuse(q) \/ \E c \in Cases : OpenCase(q, c)
       PROVE  TypeOK'
  <2>1. q \in RequestType
    BY <1>0, RequestFacts
  <2>2. CASE ChangePassword(q)
    BY <1>0, <2>1, <2>2
       DEF ChangePassword, Done, TypeOK, Handlers, RequestType, accounts, sessions, cases
  <2>3. CASE Refuse(q)
    BY <1>0, <2>3 DEF Refuse, TypeOK, accounts, sessions, cases
  <2>4. ASSUME NEW c \in Cases, OpenCase(q, c) PROVE TypeOK'
    <3>1. members' \in [Cases -> SUBSET Accounts]
      BY <1>0, <2>1, <2>4 DEF OpenCase, AddOpener, TypeOK, RequestType
    <3>2. inFlight' \in SUBSET RequestType
      BY <1>0, <2>4 DEF OpenCase, Done, TypeOK, RequestType
    <3> QED
      BY <1>0, <2>4, <3>1, <3>2 DEF OpenCase, TypeOK, RequestType, accounts, sessions
  <2> QED
    BY <1>12, <2>2, <2>3, <2>4
<1>13. ASSUME NEW q \in Requests, NEW a \in Accounts, AccountStep(q, a) PROVE TypeOK'
  <2>1. ASSUME UNCHANGED sessions \/ End(SessionsOf(a))
        PROVE  /\ owner' \in [Sessions -> Accounts \cup {NoAccount}]
               /\ outdated' \in SUBSET Sessions /\ missed' \in SUBSET Sessions
    <3>1. CASE UNCHANGED sessions
      BY <1>0, <3>1 DEF TypeOK, sessions
    <3> QED
      BY <1>0, <2>1, <3>1, EndFacts, AccountSessions
  <2>2. Handled(q) => /\ inFlight' \in SUBSET RequestType
                      /\ handler' \in Handlers \cup {Idle}
                      /\ operator' \in Accounts \cup {NoAccount}
    BY <1>0 DEF Handled, Done, TypeOK, RequestType
  <2>3. ASSUME NEW r \in Roles, CreateUser(q, a, r) \/ setUserRole(q, a, r) PROVE TypeOK'
    BY <1>0, <2>1, <2>2, <2>3 DEF CreateUser, setUserRole, TypeOK, RequestType, cases
  <2>4. CASE Disable(q, a)
    BY <1>0, <2>1, <2>2, <2>4 DEF Disable, TypeOK, RequestType, cases
  <2>5. CASE Enable(q, a)
    BY <1>0, <2>1, <2>2, <2>5 DEF Enable, TypeOK, RequestType, cases
  <2>6. CASE resetUserPassword(q, a)
    BY <1>0, <2>1, <2>2, <2>6 DEF resetUserPassword, TypeOK, RequestType, accounts, cases
  <2>7. CASE deleteUser(q, a)
    BY <1>0, <2>1, <2>2, <2>7 DEF deleteUser, TypeOK, RequestType
  <2>8. ASSUME NEW c \in Cases, AddMember(q, c, a) \/ RemoveMember(q, c, a) PROVE TypeOK'
    BY <1>0, <2>1, <2>2, <2>8 DEF AddMember, RemoveMember, TypeOK, RequestType, accounts
  <2> QED
    BY <1>13, <2>3, <2>4, <2>5, <2>6, <2>7, <2>8 DEF AccountStep
<1> QED
  BY <1>1, <1>2, <1>3, <1>4, <1>5, <1>6, <1>7, <1>8, <1>9, <1>10, <1>11, <1>12, <1>13 DEF Next

\* An account changes by the operator, who only adds administrators, or by one
\* of these five requests.
LEMMA AccountsChange ==
    ASSUME Next, ~UNCHANGED accounts
    PROVE  \/ \E a \in Accounts : OperatorCreates(a)
           \/ \E q \in Requests, a \in Accounts :
                  \/ \E r \in Roles : CreateUser(q, a, r) \/ setUserRole(q, a, r)
                  \/ Disable(q, a) \/ Enable(q, a) \/ deleteUser(q, a)
<1>1. \A s \in Sessions : ~(Arrive(s) \/ LoggedIn(s) \/ EndSession(s))
  BY DEF Arrive, LoggedIn, EndSession
<1>2. \A a \in Accounts : ~(LogIn(a) \/ OperatorSets(a))
  BY DEF LogIn, OperatorSets
<1>3. ~(PasswordChanged \/ OthersEnded \/ OperatorEnds \/ OperatorStops \/ Crash)
  BY DEF PasswordChanged, OthersEnded, OperatorEnds, OperatorStops, Crash
<1>4. \A q \in Requests : ~(ChangePassword(q) \/ Refuse(q) \/ \E c \in Cases : OpenCase(q, c))
  BY DEF ChangePassword, Refuse, OpenCase
<1>5. \A q \in Requests, a \in Accounts :
          ~(resetUserPassword(q, a) \/ \E c \in Cases : AddMember(q, c, a) \/ RemoveMember(q, c, a))
  BY DEF resetUserPassword, AddMember, RemoveMember
<1> QED
  BY <1>1, <1>2, <1>3, <1>4, <1>5 DEF Next, AccountStep

LEMMA AdministratorKept == ASSUME IInv, Next PROVE AdministratorRemains'
<1>0. TypeOK /\ \E a \in Accounts : role[a] = "admin" /\ a \notin disabled
  BY DEF IInv, AdministratorRemains
<1>1. CASE UNCHANGED accounts
  BY <1>0, <1>1 DEF accounts, AdministratorRemains
<1>2. ASSUME NEW a \in Accounts, OperatorCreates(a) PROVE AdministratorRemains'
  BY <1>0, <1>2 DEF OperatorCreates, AdministratorRemains, TypeOK
<1>3. ASSUME NEW q \in Requests, NEW a \in Accounts, NEW r \in Roles,
             CreateUser(q, a, r) \/ setUserRole(q, a, r)
      PROVE  AdministratorRemains'
  BY <1>0, <1>3 DEF CreateUser, setUserRole, activeAdminsOtherThan, AdministratorRemains, TypeOK
<1>4. ASSUME NEW q \in Requests, NEW a \in Accounts, Disable(q, a) \/ Enable(q, a) \/ deleteUser(q, a)
      PROVE  AdministratorRemains'
  BY <1>0, <1>4 DEF Disable, Enable, deleteUser, activeAdminsOtherThan, AdministratorRemains, TypeOK
<1> QED
  BY <1>1, <1>2, <1>3, <1>4, AccountsChange

\* The server's handlers that change accounts run while nobody signs in.
LEMMA SigningInKept == ASSUME IInv, Next PROVE SigningIn'
<1>0. TypeOK /\ SigningIn
  BY DEF IInv
<1>1. CASE UNCHANGED accounts
  <2>1. CASE handler' = handler
    BY <1>0, <1>1, <2>1 DEF SigningIn, Active, Exists, accounts
  <2>2. ASSUME NEW a \in Accounts, LogIn(a) PROVE SigningIn'
    BY <1>1, <2>2 DEF LogIn, SigningIn, Active, Exists, accounts
  <2>3. ASSUME NEW a \in Accounts, OperatorSets(a) PROVE SigningIn'
    <3>1. CASE handler' = handler
      BY <2>1, <3>1
    <3>2. CASE handler' # handler
      <4>1. handler # Idle /\ handler' = [handler EXCEPT !.valid = FALSE]
        BY <2>3, <3>2 DEF OperatorSets
      <4>2. handler \in Handlers
        BY <1>0, <4>1 DEF TypeOK
      <4>3. handler'.at = handler.at /\ handler'.who = handler.who
        BY <4>1, <4>2 DEF Handlers
      <4> QED
        BY <1>0, <1>1, <4>1, <4>3 DEF SigningIn, Active, Exists, accounts
    <3> QED
      BY <3>1, <3>2
  <2>4. CASE PasswordChanged
    <3>1. handler \in Handlers /\ handler' = [handler EXCEPT !.at = "changed"]
      BY <1>0, <2>4 DEF PasswordChanged, TypeOK
    <3>2. handler'.at = "changed"
      BY <3>1 DEF Handlers
    <3> QED
      BY <3>2 DEF SigningIn
  <2>5. ASSUME NEW q \in Requests, ChangePassword(q) PROVE SigningIn'
    BY <2>5 DEF ChangePassword, SigningIn
  <2>6. \A s \in Sessions : LoggedIn(s) => handler' = Idle
    BY DEF LoggedIn
  <2>7. OthersEnded \/ Crash => handler' = Idle
    BY DEF OthersEnded, Crash
  <2>8. handler' = Idle => SigningIn'
    BY DEF SigningIn
  <2>9. \A s \in Sessions : Arrive(s) \/ EndSession(s) => handler' = handler
    BY DEF Arrive, EndSession
  <2>10. OperatorEnds \/ OperatorStops \/ (\E a \in Accounts : OperatorCreates(a)) => handler' = handler
    BY DEF OperatorEnds, OperatorStops, OperatorCreates
  <2>11. \A q \in Requests : Refuse(q) \/ (\E c \in Cases : OpenCase(q, c)) => handler' = handler
    BY DEF Refuse, OpenCase
  <2>12. \A q \in Requests, a \in Accounts : AccountStep(q, a) => handler' = handler
    BY DEF AccountStep, CreateUser, setUserRole, Disable, Enable, resetUserPassword,
           deleteUser, AddMember, RemoveMember, Handled
  <2> QED
    BY <2>1, <2>2, <2>3, <2>4, <2>5, <2>6, <2>7, <2>8, <2>9, <2>10, <2>11, <2>12 DEF Next
<1>2. ASSUME NEW a \in Accounts, OperatorCreates(a) PROVE SigningIn'
  <2>1. handler # Idle => handler.who \in Accounts
    BY <1>0 DEF TypeOK, Handlers
  <2> QED
    BY <1>0, <1>2, <2>1 DEF OperatorCreates, SigningIn, Active, Exists, TypeOK
<1>3. ASSUME NEW q, Handled(q) PROVE SigningIn'
  BY <1>3 DEF Handled, Free, SigningIn
<1> QED
  BY <1>1, <1>2, <1>3, AccountsChange DEF CreateUser, setUserRole, Disable, Enable, deleteUser

LEMMA NothingLeft == ASSUME IInv, Next PROVE NothingLeftBehind'
<1>0. TypeOK /\ SigningIn /\ NothingLeftBehind /\ OutdatedLive
  BY DEF IInv
<1> DEFINE SessionsFine == \A s \in Sessions : owner'[s] # NoAccount => Active(owner[s])'
           MembersFine  == \A c \in Cases : \A a \in members'[c] : Exists(a)'
<1>1. SessionsFine /\ MembersFine => NothingLeftBehind'
  BY DEF NothingLeftBehind, Live
<1>2. /\ \A s \in Sessions : owner[s] # NoAccount => Active(owner[s]) /\ owner[s] \in Accounts
      /\ \A c \in Cases : \A a \in members[c] : Exists(a) /\ a \in Accounts
  BY <1>0 DEF NothingLeftBehind, Live, TypeOK
\* Sessions end, members leave.
<1>3. ASSUME NEW ended \in SUBSET Sessions, End(ended) \/ UNCHANGED owner, UNCHANGED accounts
      PROVE  SessionsFine
  <2>1. \A s \in Sessions : owner'[s] # NoAccount => owner'[s] = owner[s]
    BY <1>0, <1>3, EndFacts
  <2> QED
    BY <1>2, <1>3, <2>1 DEF accounts, Active, Exists
<1>4. UNCHANGED accounts /\ UNCHANGED members => MembersFine
  BY <1>2 DEF accounts, Exists
<1>5. UNCHANGED accounts /\ UNCHANGED owner => SessionsFine
  BY <1>2 DEF accounts, Active, Exists
<1>6. ASSUME NEW s \in Sessions, LoggedIn(s) PROVE NothingLeftBehind'
  <2>1. /\ owner' = [owner EXCEPT ![s] = handler.who] /\ Active(handler.who)
        /\ UNCHANGED accounts /\ UNCHANGED members
    BY <1>0, <1>6 DEF LoggedIn, SigningIn, cases
  <2>2. SessionsFine
    BY <1>0, <1>2, <2>1 DEF TypeOK, accounts, Active, Exists
  <2> QED
    BY <1>1, <1>4, <2>1, <2>2
<1>7. ASSUME NEW s \in Sessions, Arrive(s) \/ EndSession(s) PROVE NothingLeftBehind'
  BY <1>1, <1>3, <1>4, <1>5, <1>7 DEF Arrive, EndSession, cases, sessions
<1>8. ASSUME NEW a \in Accounts, LogIn(a) \/ OperatorSets(a) PROVE NothingLeftBehind'
  BY <1>1, <1>4, <1>5, <1>8 DEF LogIn, OperatorSets, cases, sessions
<1>9. ASSUME NEW a \in Accounts, OperatorCreates(a) PROVE NothingLeftBehind'
  <2>1. /\ role' = [role EXCEPT ![a] = "admin"]
        /\ UNCHANGED disabled /\ UNCHANGED owner /\ UNCHANGED members
    BY <1>9 DEF OperatorCreates, sessions, cases
  <2>2. \A b \in Accounts : (Exists(b) => Exists(b)') /\ (Active(b) => Active(b)')
    BY <1>0, <2>1 DEF TypeOK, Active, Exists
  <2> QED
    BY <1>1, <1>2, <2>1, <2>2
<1>10. CASE PasswordChanged \/ OperatorStops \/ Crash
  BY <1>1, <1>4, <1>5, <1>10 DEF PasswordChanged, OperatorStops, Crash, cases
<1>11. CASE OthersEnded \/ OperatorEnds
  <2>1. \E ended \in SUBSET Sessions : End(ended)
    BY <1>11, AccountSessions DEF OthersEnded, OperatorEnds
  <2> QED
    BY <1>1, <1>3, <1>4, <1>11, <2>1 DEF OthersEnded, OperatorEnds, cases
<1>12. ASSUME NEW q \in Requests, ChangePassword(q) \/ Refuse(q) PROVE NothingLeftBehind'
  BY <1>1, <1>4, <1>5, <1>12 DEF ChangePassword, Refuse, sessions, cases
<1>13. ASSUME NEW q \in Requests, NEW c \in Cases, OpenCase(q, c) PROVE NothingLeftBehind'
  <2>1. UNCHANGED accounts /\ UNCHANGED owner
    BY <1>13 DEF OpenCase, sessions
  <2>2. \A d \in Cases : \A a \in members'[d] : Exists(a)
    BY <1>0, <1>2, <1>13 DEF OpenCase, AddOpener, TypeOK
  <2> QED
    BY <1>1, <1>5, <2>1, <2>2 DEF accounts, Exists
<1>14. ASSUME NEW q \in Requests, NEW a \in Accounts, AccountStep(q, a) PROVE NothingLeftBehind'
  <2>1. ASSUME NEW r \in Roles, CreateUser(q, a, r) \/ setUserRole(q, a, r) PROVE NothingLeftBehind'
    <3>1. /\ role' = [role EXCEPT ![a] = r] /\ UNCHANGED disabled
          /\ UNCHANGED owner /\ UNCHANGED members
      BY <2>1 DEF CreateUser, setUserRole, sessions, cases
    <3>2. \A b \in Accounts : (Exists(b) => Exists(b)') /\ (Active(b) => Active(b)')
      BY <1>0, <3>1 DEF TypeOK, Active, Exists
    <3> QED
      BY <1>1, <1>2, <3>1, <3>2
  <2>2. CASE Enable(q, a)
    <3>1. \A b \in Accounts : (Exists(b) => Exists(b)') /\ (Active(b) => Active(b)')
      BY <1>0, <2>2 DEF Enable, TypeOK, Active, Exists
    <3> QED
      BY <1>1, <1>2, <2>2, <3>1 DEF Enable, sessions, cases
  <2>3. CASE Disable(q, a) \/ deleteUser(q, a)
    <3>1. End(SessionsOf(a)) /\ \A b \in Accounts \ {a} : (Exists(b) => Exists(b)') /\ (Active(b) => Active(b)')
      BY <1>0, <2>3 DEF Disable, deleteUser, TypeOK, Active, Exists
    <3>2. \A s \in Sessions : owner'[s] # NoAccount => owner'[s] = owner[s] /\ owner[s] # a
      BY <1>0, <3>1, EndFacts, AccountSessions DEF SessionsOf
    <3>3. SessionsFine
      BY <1>2, <3>1, <3>2
    <3>4. MembersFine
      <4>1. CASE Disable(q, a)
        BY <1>2, <4>1 DEF Disable, Exists, cases
      <4>2. CASE deleteUser(q, a)
        BY <1>2, <3>1, <4>2 DEF deleteUser
      <4> QED
        BY <2>3, <4>1, <4>2
    <3> QED
      BY <1>1, <3>3, <3>4
  <2>4. CASE resetUserPassword(q, a)
    BY <1>1, <1>3, <1>4, <2>4, AccountSessions DEF resetUserPassword, cases
  <2>5. ASSUME NEW c \in Cases, AddMember(q, c, a) \/ RemoveMember(q, c, a) PROVE NothingLeftBehind'
    <3>1. UNCHANGED accounts /\ UNCHANGED owner
      BY <2>5 DEF AddMember, RemoveMember, sessions
    <3>2. \A d \in Cases : \A b \in members'[d] : Exists(b)
      BY <1>0, <1>2, <2>5 DEF AddMember, RemoveMember, TypeOK, Exists
    <3> QED
      BY <1>1, <1>5, <3>1, <3>2 DEF accounts, Exists
  <2> QED
    BY <1>14, <2>1, <2>2, <2>3, <2>4, <2>5 DEF AccountStep
<1> QED
  BY <1>6, <1>7, <1>8, <1>9, <1>10, <1>11, <1>12, <1>13, <1>14 DEF Next

-----------------------------------------------------------------------------
\* Everything below rests on this invariant; on its own none of its conjuncts
\* is kept by the sign-in that is hashing a password.
THEOREM Invariant == Spec => []IInv
<1>1. Init => IInv
  <2> SUFFICES ASSUME Init PROVE IInv
    OBVIOUS
  <2>1. TypeOK
    BY DEF Init, TypeOK
  <2>2. AdministratorRemains
    BY DEF Init, AdministratorRemains
  <2> QED
    BY <2>1, <2>2
       DEF Init, IInv, SigningIn, NothingLeftBehind, OutdatedLive, SessionsKnowPassword, Live
<1>2. IInv /\ [Next]_vars => IInv'
  <2>1. IInv /\ Next => IInv'
    BY TypeKept, AdministratorKept, SigningInKept, NothingLeft, SessionsKept DEF IInv
  <2>2. IInv /\ UNCHANGED vars => IInv'
    BY DEF IInv, vars, accounts, sessions, cases, TypeOK, AdministratorRemains, SigningIn,
           NothingLeftBehind, OutdatedLive, SessionsKnowPassword, Live, Active, Exists
  <2> QED
    BY <2>1, <2>2
<1> QED
  BY <1>1, <1>2, PTL DEF Spec

\* Every variable keeps its type.
THEOREM TypeCorrect == Spec => []TypeOK
<1>1. IInv => TypeOK
  BY DEF IInv
<1> QED
  BY <1>1, Invariant, PTL

\* "The instance always keeps an administrator": one account that is active and
\* an administrator, whoever demotes, disables and deletes whom (users.ts).
THEOREM OneRemains == Spec => []AdministratorRemains
<1>1. IInv => AdministratorRemains
  BY DEF IInv
<1> QED
  BY <1>1, Invariant, PTL

\* No session of a disabled or deleted account, no member of a case that was
\* deleted (setUserDisabled, deleteUser and the foreign keys).
THEOREM Clean == Spec => []NothingLeftBehind
<1>1. IInv => NothingLeftBehind
  BY DEF IInv
<1> QED
  BY <1>1, Invariant, PTL

\* A new password ends the sessions made with the old one, but for the three
\* gaps that the property names (setAdminPassword, POST /security/password).
THEOREM OldPasswordsOut == Spec => []SessionsKnowPassword
<1>1. IInv => SessionsKnowPassword
  BY DEF IInv
<1> QED
  BY <1>1, Invariant, PTL

-----------------------------------------------------------------------------
(* What a step may not do.                                                 *)

\* "... who is signed in and able to undo a mistake" (requireUser refuses the
\* account that asks).
THEOREM MistakesUndone == Spec => UndoPossible
<1> DEFINE Admin(a) == role[a] = "admin" /\ Active(a)
           SomeoneIn == \E s \in Live : role'[owner[s]] = "admin" /\ owner'[s] = owner[s]
           Overtaken == \E q \in inFlight \ inFlight' : owner[q.sid] # q.who \/ role[q.who] # "admin"
<1>1. IInv /\ [Next]_vars =>
          [(\E a \in Accounts : Admin(a) /\ ~Admin(a)') => SomeoneIn \/ Overtaken]_vars
  <2> SUFFICES ASSUME IInv, Next, NEW a \in Accounts, Admin(a), ~Admin(a)'
               PROVE  SomeoneIn \/ Overtaken
    OBVIOUS
  <2>0. TypeOK /\ NothingLeftBehind /\ OutdatedLive
    BY DEF IInv
  <2>1. ~UNCHANGED accounts
    BY DEF accounts, Active, Exists
  <2>2. \A b \in Accounts : ~OperatorCreates(b)
    BY <2>0 DEF OperatorCreates, TypeOK, Active, Exists
  <2>3. \A q \in Requests, b \in Accounts : ~Enable(q, b) /\ \A r \in Roles : ~CreateUser(q, b, r)
    BY <2>0 DEF Enable, CreateUser, TypeOK, Active, Exists
  <2>4. PICK q \in Requests, b \in Accounts :
            (\E r \in Roles : setUserRole(q, b, r)) \/ Disable(q, b) \/ deleteUser(q, b)
    BY <2>1, <2>2, <2>3, AccountsChange
  <2>5. q.role = "admin" /\ q.who # b /\ Done(q)
    BY <2>4 DEF setUserRole, Disable, deleteUser, Manages, requireUser, Handled
  <2>6. q \in RequestType /\ (q \in inFlight \/ (q.sid \in Live /\ q.who = owner[q.sid] /\ q.role = role[q.who]))
    BY <2>0, RequestFacts
  <2>7. CASE owner[q.sid] # q.who \/ role[q.who] # "admin"
    <3>1. q # Snapshot(q.sid)
      BY <2>5, <2>7 DEF Snapshot
    <3> QED
      BY <2>5, <2>7, <3>1, StaleIsDone
  <2>8. CASE owner[q.sid] = q.who /\ role[q.who] = "admin"
    <3>1. q.sid \in Live /\ q.who \in Accounts
      BY <2>6, <2>8 DEF Live, RequestType
    <3>2. role'[q.who] = "admin"
      BY <2>0, <2>4, <2>5, <2>8, <3>1 DEF setUserRole, Disable, deleteUser, TypeOK
    <3>3. owner'[q.sid] = owner[q.sid]
      BY <2>0, <2>4, <2>5, <2>8, <3>1
         DEF setUserRole, Disable, deleteUser, End, SessionsOf, TypeOK, sessions, Live
    <3> QED
      BY <2>8, <3>1, <3>2, <3>3
  <2> QED
    BY <2>7, <2>8
<1> QED
  BY <1>1, Invariant, PTL DEF Spec, UndoPossible

\* A case that was there before opens to an account only by someone else, or by
\* a request of its own that was overtaken by its demotion (caseFor).
THEOREM NobodyLetsThemselvesIn == Spec => LetInByAnother
<1>1. IInv /\ [Next]_vars =>
          [\A c \in opened, a \in Accounts : ~MayWork(a, c) /\ MayWork(a, c)' =>
               \/ OperatorCreates(a)
               \/ \E q \in Requests : q.who # a /\ AccountStep(q, a)
               \/ \E q \in inFlight \ inFlight' : q.who = a /\ q.role # role[a]]_vars
  <2> SUFFICES ASSUME IInv, Next, NEW c \in opened, NEW a \in Accounts,
                      ~MayWork(a, c), MayWork(a, c)', ~OperatorCreates(a),
                      ~\E q \in inFlight \ inFlight' : q.who = a /\ q.role # role[a]
               PROVE  \E q \in Requests : q.who # a /\ AccountStep(q, a)
    OBVIOUS
  <2>0. TypeOK /\ NothingLeftBehind /\ c \in Cases
    BY DEF IInv, TypeOK
  <2>1. \A q \in Requests : Done(q) /\ q.who = a => q.role = role[a]
    BY StaleIsDone DEF Snapshot
  <2>2. ~(UNCHANGED accounts /\ UNCHANGED members)
    BY DEF accounts, MayWork, Exists
  <2>3. \A b \in Accounts : OperatorCreates(b) => FALSE
    BY <2>0 DEF OperatorCreates, MayWork, Exists, cases, TypeOK
  <2>4. \A q \in Requests, d \in Cases : ~OpenCase(q, d)
    BY <2>0 DEF OpenCase, AddOpener, MayWork, Exists, accounts, TypeOK
  <2>5. PICK q \in Requests, b \in Accounts : AccountStep(q, b)
    <3>1. \A s \in Sessions : ~(Arrive(s) \/ LoggedIn(s) \/ EndSession(s))
      BY <2>2 DEF Arrive, LoggedIn, EndSession, cases
    <3>2. \A b \in Accounts : ~(LogIn(b) \/ OperatorSets(b))
      BY <2>2 DEF LogIn, OperatorSets, cases
    <3>3. ~(PasswordChanged \/ OthersEnded \/ OperatorEnds \/ OperatorStops \/ Crash)
      BY <2>2 DEF PasswordChanged, OthersEnded, OperatorEnds, OperatorStops, Crash, cases
    <3>4. \A q \in Requests : ~(ChangePassword(q) \/ Refuse(q))
      BY <2>2 DEF ChangePassword, Refuse, cases
    <3> QED
      BY <2>3, <2>4, <3>1, <3>2, <3>3, <3>4 DEF Next
  <2>6. ~Disable(q, b) /\ ~Enable(q, b) /\ ~resetUserPassword(q, b) /\ ~deleteUser(q, b)
    BY <2>0, <2>2
       DEF Disable, Enable, resetUserPassword, deleteUser, MayWork, Exists, accounts, cases, TypeOK
  <2>7. ASSUME NEW r \in Roles, CreateUser(q, b, r) PROVE b = a /\ q.who # a
    BY <2>0, <2>1, <2>7 DEF CreateUser, Handled, MayWork, Exists, cases, TypeOK
  <2>8. ASSUME NEW r \in Roles, setUserRole(q, b, r) PROVE b = a /\ q.who # a
    BY <2>0, <2>8 DEF setUserRole, Manages, requireUser, MayWork, Exists, cases, TypeOK
  <2>9. ASSUME NEW d \in Cases, AddMember(q, d, b) PROVE b = a /\ q.who # a
    <3>1. a = b /\ c = d /\ Exists(a)
      BY <2>0, <2>9 DEF AddMember, MayWork, Exists, accounts, TypeOK
    <3>2. role[a] # "admin" /\ a \notin members[c]
      BY <3>1 DEF MayWork
    <3> QED
      BY <2>1, <2>9, <3>1, <3>2 DEF AddMember, Handled, caseFor
  <2>10. \A d \in Cases : ~RemoveMember(q, d, b)
    BY <2>0 DEF RemoveMember, MayWork, Exists, accounts, TypeOK
  <2> QED
    BY <2>5, <2>6, <2>7, <2>8, <2>9, <2>10 DEF AccountStep
<1> QED
  BY <1>1, Invariant, PTL DEF Spec, LetInByAnother
=============================================================================
