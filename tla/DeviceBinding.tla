--------------------------- MODULE DeviceBinding ---------------------------
(***************************************************************************)
(* Sessions bound to a key of the device (services/sessions.ts, its routes *)
(* in http/admin.ts, sessionMiddleware), and the browser that keeps the    *)
(* key, the two cookies and the cached challenges.                         *)
(*                                                                         *)
(* The signature is taken as given: only the browser that registered can   *)
(* answer a challenge.  Cookies and challenges are random and compared     *)
(* only with the ones a binding stores, so a copy is modelled by what it   *)
(* equals there.  Time passes in ticks of Grace or less.  Requests         *)
(* overtake each other; the browser's own exchanges with /admin/dbsc come  *)
(* one at a time and may be lost on the way there or back.                 *)
(***************************************************************************)
EXTENDS Integers, FiniteSets

CONSTANTS
    Sessions,       \* complete sessions, never used twice
    CookieTTL,      \* BOUND_COOKIE_TTL_MS
    Grace,          \* GRACE_MS
    ChallengeTTL,   \* DBSC_CHALLENGE_TTL_MS
    MaxInFlight,    \* bound of the model: page requests on their way
    None

ASSUME BindingConstants ==
    /\ CookieTTL \in Nat \ {0} /\ Grace \in Nat \ {0}
    /\ ChallengeTTL \in Nat /\ ChallengeTTL > CookieTTL
    /\ MaxInFlight \in Nat
    /\ None \notin Sessions

VARIABLES
    row,       \* sessions: "none" before the sign-in, "ended" for good
    offer,     \* dbsc_offered_at, dbsc_challenge: "none", "open", "answered"
    binding,   \* session_bindings; None: no row
    \* The browser:
    sid,       \* its session cookie
    jar,       \* its bound cookie
    jarLeft,   \* what is left of the cookie's Max-Age
    cached,    \* whether it has registered a session, and holds its challenge
    \* The network:
    requests,  \* pages that it asked for
    call       \* its exchange with /admin/dbsc

server  == <<row, offer, binding>>
browser == <<sid, jar, jarLeft, cached>>
vars    == <<server, browser, requests, call>>

\* Times are what is left of them; a cookie is good for Grace after it expired.
\* Without a previous cookie prevLeft is -Grace, without a challenge its time 0.
Bindings == [left : -Grace .. CookieTTL, prevLeft : -Grace .. CookieTTL,
             challengeLeft : 0 .. ChallengeTTL]

Outlived == CookieTTL + Grace

\* A copy of a bound cookie: which of the two it is.  For the properties only, it
\* knows its age and how often the session got another cookie since; after two
\* it counts as outlived.
Copies == [of : Sessions, is : {"cookie", "prev", "neither"},
           age : 0 .. Outlived, turns : 0 .. 2]

\* No cookie is not a cookie.
ASSUME NoneIsNoCopy == None \notin Copies

Calls == [kind : {"register", "refresh", "registered", "ended", "challenge", "renewed"},
          of : Sessions, answers : BOOLEAN, waited : BOOLEAN]

\* checkBoundCookie and getSession
Accepts(s, copy) ==
    /\ row[s] = "live"
    /\ binding[s] # None =>
           /\ copy # None /\ copy.of = s
           /\ \/ copy.is = "cookie" /\ binding[s].left > -Grace
              \/ copy.is = "prev" /\ binding[s].prevLeft > -Grace

\* A call, or the answer to it: whether its challenge is the binding's.
Call(kind, s, answers) == [kind |-> kind, of |-> s, answers |-> answers, waited |-> FALSE]

-----------------------------------------------------------------------------
(* Sessions and pages.                                                     *)

SignedOut == sid # None => ~Accepts(sid, jar)

\* The bound cookie and the key of an earlier session stay with the browser.
SignIn(s) ==
    /\ SignedOut /\ row[s] = "none"
    /\ row' = [row EXCEPT ![s] = "live"] /\ sid' = s
    /\ UNCHANGED <<offer, binding, jar, jarLeft, cached, requests, call>>

Leave ==
    /\ sid # None /\ Cardinality(requests) < MaxInFlight
    /\ requests' = requests \cup {[sid |-> sid, bound |-> jar]}
    /\ UNCHANGED <<server, browser, call>>

Arrive(q) ==
    /\ requests' = requests \ {q}
    /\ UNCHANGED <<server, browser, call>>

\* offerBinding with a document, once; the browser may not know the header, or
\* may be busy.
Offer(q) ==
    /\ Accepts(q.sid, q.bound) /\ binding[q.sid] = None /\ offer[q.sid] = "none"
    /\ offer' = [offer EXCEPT ![q.sid] = "open"]
    /\ requests' = requests \ {q}
    /\ \/ UNCHANGED call
       \/ /\ call = None /\ sid = q.sid
          /\ call' = Call("register", q.sid, TRUE)
    /\ UNCHANGED <<row, binding, browser>>

BugEndKeepsBinding(s) ==
    /\ row'     = [row EXCEPT ![s] = "ended"]
    /\ UNCHANGED binding

\* The binding goes with the session (ON DELETE CASCADE).
End(s) ==
    /\ row'     = [row EXCEPT ![s] = "ended"]
    /\ binding' = [binding EXCEPT ![s] = None]

\* POST /logout; its answer takes the cookies away, if it arrives.
LogOut(q) ==
    /\ Accepts(q.sid, q.bound) /\ End(q.sid)
    /\ requests' = requests \ {q}
    /\ \/ sid' = None /\ jar' = None /\ jarLeft' = 0
       \/ UNCHANGED <<sid, jar, jarLeft>>
    /\ UNCHANGED <<offer, cached, call>>

\* Expired, revoked, ended by another session or by the CLI.
EndSession(s) ==
    /\ row[s] = "live" /\ End(s)
    /\ UNCHANGED <<offer, browser, requests, call>>

-----------------------------------------------------------------------------
(* The exchanges.                                                          *)

Register ==
    /\ call # None /\ call.kind = "register"
    /\ row[call.of] = "live" /\ binding[call.of] = None /\ offer[call.of] = "open"
    /\ binding' = [binding EXCEPT ![call.of] =
                       [left |-> CookieTTL, prevLeft |-> -Grace, challengeLeft |-> 0]]
    /\ offer' = [offer EXCEPT ![call.of] = "answered"]
    /\ call' = Call("registered", call.of, FALSE)
    /\ UNCHANGED <<row, browser, requests>>

\* The browser answers the challenge that it holds, or asks for one.
Refresh(s) ==
    /\ call = None /\ cached[s] # "unknown"
    /\ call' = Call("refresh", s, cached[s] = "current")
    /\ UNCHANGED <<server, browser, requests>>

Refreshing(s) == call # None /\ call.kind = "refresh" /\ call.of = s

RefreshEnded(s) ==
    /\ Refreshing(s) /\ binding[s] = None
    /\ call' = Call("ended", s, FALSE)
    /\ UNCHANGED <<server, browser, requests>>

\* The challenge that the browser held is no longer the one of the binding.
NewChallenge(s) ==
    cached' = [cached EXCEPT ![s] = IF @ = "current" THEN "stale" ELSE @]

\* No proof, or one for a stale challenge.
RefreshChallenged(s) ==
    /\ Refreshing(s) /\ binding[s] # None
    /\ ~(call.answers /\ binding[s].challengeLeft > 0)
    /\ binding' = [binding EXCEPT ![s].challengeLeft = ChallengeTTL]
    /\ NewChallenge(s)
    /\ call' = Call("challenge", s, TRUE)
    /\ UNCHANGED <<row, offer, sid, jar, jarLeft, requests>>

BugProlonged(b) ==
    [left |-> CookieTTL, prevLeft |-> CookieTTL, challengeLeft |-> ChallengeTTL]

BugForgotten(b) ==
    [left |-> CookieTTL, prevLeft |-> -Grace, challengeLeft |-> ChallengeTTL]

BugNotProlonged(b) ==
    [left |-> b.left, prevLeft |-> b.left, challengeLeft |-> ChallengeTTL]

\* The cookie becomes the previous one and keeps its time.
Rotated(b) ==
    [left |-> CookieTTL, prevLeft |-> b.left, challengeLeft |-> ChallengeTTL]

Turned(s, copy) ==
    IF copy = None \/ copy.of # s THEN copy
    ELSE IF copy.is = "cookie" THEN [copy EXCEPT !.is = "prev", !.turns = 1]
    ELSE [copy EXCEPT !.is = "neither", !.turns = 2, !.age = Outlived]

\* The CLI may end the session between the SELECT and the UPDATE, which then
\* changes nothing.
RefreshRenewed(s) ==
    /\ Refreshing(s) /\ binding[s] # None
    /\ call.answers /\ binding[s].challengeLeft > 0
    /\ \/ binding' = [binding EXCEPT ![s] = Rotated(@)] /\ UNCHANGED row
       \/ End(s)
    /\ jar' = Turned(s, jar)
    /\ requests' = {[q EXCEPT !.bound = Turned(s, q.bound)] : q \in requests}
    /\ NewChallenge(s)
    /\ call' = Call("renewed", s, TRUE)
    /\ UNCHANGED <<offer, sid, jarLeft>>

\* What the browser makes of the answer; a challenge it answers at once.
TakeAnswer(kind) ==
    /\ call # None /\ call.kind = kind
    /\ call' = IF kind = "challenge" THEN Call("refresh", call.of, TRUE) ELSE None
    /\ cached' = [cached EXCEPT ![call.of] =
                      IF kind = "ended" THEN "unknown"
                      ELSE IF call.answers THEN "current" ELSE "stale"]
    /\ IF kind \in {"registered", "renewed"}
       THEN /\ jarLeft' = CookieTTL
            /\ jar' = [of |-> call.of, is |-> "cookie", turns |-> 0,
                       age |-> IF call.waited THEN 1 ELSE 0]
       ELSE UNCHANGED <<jar, jarLeft>>
    /\ UNCHANGED <<server, sid, requests>>

\* The call or its answer is lost, or it is refused.
Lose ==
    /\ call # None /\ call' = None
    /\ UNCHANGED <<server, browser, requests>>

Down(left, floor) == IF left > floor THEN left - 1 ELSE left

Aged(copy) ==
    IF copy # None /\ copy.age < Outlived THEN [copy EXCEPT !.age = @ + 1] ELSE copy

\* A call takes Grace at most, and so does its answer, or they are lost.
Tick ==
    /\ binding' = [s \in Sessions |->
                      IF binding[s] = None THEN None
                      ELSE [left          |-> Down(binding[s].left, -Grace),
                            prevLeft      |-> Down(binding[s].prevLeft, -Grace),
                            challengeLeft |-> Down(binding[s].challengeLeft, 0)]]
    /\ jarLeft' = Down(jarLeft, 0)
    /\ jar' = IF jarLeft' = 0 THEN None ELSE Aged(jar)
    /\ requests' = {[q EXCEPT !.bound = Aged(q.bound)] : q \in requests}
    /\ call' = IF call = None \/ call.waited THEN None ELSE [call EXCEPT !.waited = TRUE]
    /\ UNCHANGED <<row, offer, sid, cached>>

-----------------------------------------------------------------------------
Init ==
    /\ row = [s \in Sessions |-> "none"] /\ offer = [s \in Sessions |-> "none"]
    /\ binding = [s \in Sessions |-> None]
    /\ sid = None /\ jar = None /\ jarLeft = 0
    /\ cached = [s \in Sessions |-> "unknown"]
    /\ requests = {} /\ call = None

RefreshHandled(s) == RefreshEnded(s) \/ RefreshChallenged(s) \/ RefreshRenewed(s)

AnswerKinds == {"registered", "ended", "challenge", "renewed"}

Next ==
    \/ \E s \in Sessions : SignIn(s) \/ EndSession(s) \/ Refresh(s) \/ RefreshHandled(s)
    \/ \E q \in requests : Arrive(q) \/ Offer(q) \/ LogOut(q)
    \/ \E kind \in AnswerKinds : TakeAnswer(kind)
    \/ Leave \/ Register \/ Lose \/ Tick

\* A browser without the bound cookie renews it before it asks for a page, and
\* tries again; of the exchanges that it repeats some get through.
Fairness ==
    /\ WF_vars(Tick)
    /\ SF_vars(jar = None /\ \E s \in Sessions : Refresh(s))
    /\ SF_vars(\E s \in Sessions : RefreshChallenged(s)) /\ SF_vars(TakeAnswer("challenge"))
    /\ SF_vars(\E s \in Sessions : RefreshRenewed(s)) /\ SF_vars(TakeAnswer("renewed"))

Spec     == Init /\ [][Next]_vars
FairSpec == Spec /\ Fairness

-----------------------------------------------------------------------------
\* The state has its shape, and only a live session that answered its offer is
\* bound.
TypeOK ==
    /\ row \in [Sessions -> {"none", "live", "ended"}]
    /\ offer \in [Sessions -> {"none", "open", "answered"}]
    /\ binding \in [Sessions -> Bindings \cup {None}]
    /\ sid \in Sessions \cup {None}
    /\ jar \in Copies \cup {None} /\ jarLeft \in 0 .. CookieTTL
    /\ cached \in [Sessions -> {"unknown", "stale", "current"}]
    /\ requests \in SUBSET [sid : Sessions, bound : Copies \cup {None}]
    /\ call \in Calls \cup {None}
    /\ \A s \in Sessions : binding[s] # None => row[s] = "live" /\ offer[s] = "answered"

\* The copies of a bound cookie that are somewhere, or may have been taken there.
Around == ({jar} \cup {q.bound : q \in requests}) \ {None}

\* "Good for minutes": once it is Grace past its lifetime, or the session had two
\* newer ones, a copy of the cookies opens no bound session.
CopiesExpire ==
    \A s \in Sessions, copy \in Around :
        binding[s] # None /\ Accepts(s, copy) => copy.of = s /\ copy.age < Outlived

\* One renewal does not log out a request that left before it, nor does the time
\* that the answer takes log out the browser that keeps the cookie for its
\* Max-Age.
OvertakenOnce ==
    \A copy \in Around :
        /\ row[copy.of] = "live" /\ copy.turns < 2
        /\ copy.age < Outlived \/ copy = jar
        => Accepts(copy.of, copy)

\* The browser's session lives on, and is the only one that it renews a cookie for.
OnlyOne ==
    sid # None /\ row[sid] = "live" /\ {s \in Sessions : cached[s] # "unknown"} = {sid}

\* A browser that got its registration through and has no other binding gets
\* back into a session that lives on, whatever is lost on the way.
BackIn == <>[]OnlyOne => []<>(OnlyOne /\ Accepts(sid, jar))
=============================================================================
