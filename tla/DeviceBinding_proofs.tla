----------------------- MODULE DeviceBinding_proofs -----------------------
(***************************************************************************)
(* What DeviceBinding promises of the copies of bound cookies holds for    *)
(* any number of sessions and requests, and for any times.                 *)
(***************************************************************************)
EXTENDS DeviceBinding, TLAPS

\* What a copy equals at the binding tells its age, and the other way round.
Tracked(copy) ==
    /\ offer[copy.of] = "answered"
    /\ copy.is = "cookie" =>
           /\ copy.turns = 0
           /\ binding[copy.of] # None => binding[copy.of].left = CookieTTL - copy.age
    /\ copy.is = "prev" =>
           /\ copy.turns = 1
           /\ binding[copy.of] # None => binding[copy.of].prevLeft = CookieTTL - copy.age
    /\ copy.is = "neither" => copy.turns = 2 /\ copy.age = Outlived

Tracks == \A copy \in Around : Tracked(copy)

\* A cookie on its way to the browser is still the one of the binding.
OnItsWay ==
    call # None /\ call.kind \in {"registered", "renewed"} =>
        /\ offer[call.of] = "answered"
        /\ binding[call.of] # None =>
               binding[call.of].left = CookieTTL - (IF call.waited THEN 1 ELSE 0)

\* The browser drops a cookie before Grace runs out.
JarFresh ==
    jar # None => /\ jarLeft > 0
                  /\ jar.turns < 2 => jar.age + jarLeft <= CookieTTL + 1

IInv == TypeOK /\ Tracks /\ OnItsWay /\ JarFresh

USE BindingConstants DEF BindingConstants, Outlived

-----------------------------------------------------------------------------
(* The helpers.                                                            *)

LEMMA TurnedFacts ==
    ASSUME NEW s \in Sessions, NEW copy \in Copies \cup {None}
    PROVE  Turned(s, copy) \in Copies \cup {None}
<1>1. CASE copy = None \/ copy.of # s
  BY <1>1 DEF Turned
<1>2. CASE copy \in Copies /\ copy # None /\ copy.of = s
  <2>1. 1 \in 0 .. 2 /\ 2 \in 0 .. 2 /\ Outlived \in 0 .. Outlived
    OBVIOUS
  <2>2. [copy EXCEPT !.is = "prev", !.turns = 1] \in Copies
    BY <1>2, <2>1 DEF Copies
  <2>3. [copy EXCEPT !.is = "neither", !.turns = 2, !.age = Outlived] \in Copies
    BY <1>2, <2>1 DEF Copies
  <2> QED
    BY <1>2, <2>2, <2>3 DEF Turned
<1> QED
  BY <1>1, <1>2

LEMMA AgedFacts ==
    ASSUME NEW copy \in Copies \cup {None}
    PROVE  Aged(copy) \in Copies \cup {None}
BY DEF Aged, Copies

LEMMA RotatedFacts ==
    ASSUME NEW b \in Bindings
    PROVE  Rotated(b) \in Bindings
BY DEF Rotated, Bindings

LEMMA CallFacts ==
    ASSUME NEW s \in Sessions, NEW answers \in BOOLEAN,
           NEW kind \in {"register", "refresh", "registered", "ended", "challenge", "renewed"}
    PROVE  /\ Call(kind, s, answers) \in Calls
           /\ Call(kind, s, answers).kind = kind /\ Call(kind, s, answers).of = s
           /\ Call(kind, s, answers).waited = FALSE
BY DEF Call, Calls

LEMMA EndFacts ==
    ASSUME TypeOK, NEW s \in Sessions, End(s)
    PROVE  /\ row' \in [Sessions -> {"none", "live", "ended"}]
           /\ binding' \in [Sessions -> Bindings \cup {None}]
           /\ \A t \in Sessions : binding'[t] # None =>
                  t # s /\ binding'[t] = binding[t] /\ row'[t] = row[t]
BY DEF TypeOK, End

LEMMA RequestFacts ==
    ASSUME TypeOK, NEW q \in requests
    PROVE  q.sid \in Sessions /\ q.bound \in Copies \cup {None}
BY DEF TypeOK

-----------------------------------------------------------------------------
(* Each conjunct of IInv, kept by each step.                               *)

LEMMA TypeKept ==
    ASSUME TypeOK, Next
    PROVE  TypeOK'
<1>1. ASSUME NEW s \in Sessions, SignIn(s) PROVE TypeOK'
  BY <1>1 DEF TypeOK, SignIn
<1>2. ASSUME NEW s \in Sessions, EndSession(s) PROVE TypeOK'
  BY <1>2, EndFacts DEF TypeOK, EndSession, browser
<1>3. ASSUME NEW s \in Sessions, Refresh(s) PROVE TypeOK'
  <2>1. call' \in Calls
    BY <1>3, CallFacts DEF Refresh
  <2> QED
    BY <1>3, <2>1 DEF TypeOK, Refresh, server, browser
<1>4. ASSUME NEW s \in Sessions, RefreshEnded(s) PROVE TypeOK'
  <2>1. call' \in Calls
    BY <1>4, CallFacts DEF RefreshEnded
  <2> QED
    BY <1>4, <2>1 DEF TypeOK, RefreshEnded, server, browser
<1>5. ASSUME NEW s \in Sessions, RefreshChallenged(s) PROVE TypeOK'
  <2>1. call' \in Calls
    BY <1>5, CallFacts DEF RefreshChallenged
  <2>2. cached' \in [Sessions -> {"unknown", "stale", "current"}]
    BY <1>5 DEF TypeOK, RefreshChallenged, NewChallenge
  <2>3. binding' \in [Sessions -> Bindings \cup {None}]
    BY <1>5 DEF TypeOK, RefreshChallenged, Bindings
  <2>4. \A t \in Sessions : binding'[t] # None => binding[t] # None
    BY <1>5 DEF TypeOK, RefreshChallenged
  <2> QED
    BY <1>5, <2>1, <2>2, <2>3, <2>4 DEF TypeOK, RefreshChallenged
<1>6. ASSUME NEW s \in Sessions, RefreshRenewed(s) PROVE TypeOK'
  <2>1. call' \in Calls
    BY <1>6, CallFacts DEF RefreshRenewed
  <2>2. cached' \in [Sessions -> {"unknown", "stale", "current"}]
    BY <1>6 DEF TypeOK, RefreshRenewed, NewChallenge
  <2>3. jar' \in Copies \cup {None} /\ requests' \in SUBSET [sid : Sessions, bound : Copies \cup {None}]
    <3>1. \A q \in requests : [q EXCEPT !.bound = Turned(s, q.bound)] \in [sid : Sessions, bound : Copies \cup {None}]
      BY RequestFacts, TurnedFacts DEF TypeOK
    <3> QED
      BY <1>6, <3>1, TurnedFacts DEF TypeOK, RefreshRenewed
  <2>4. /\ binding' \in [Sessions -> Bindings \cup {None}]
        /\ row' \in [Sessions -> {"none", "live", "ended"}]
        /\ \A t \in Sessions : binding'[t] # None => binding[t] # None /\ row'[t] = row[t]
    <3>1. CASE End(s)
      BY <3>1, EndFacts
    <3>2. CASE binding' = [binding EXCEPT ![s] = Rotated(@)] /\ UNCHANGED row
      <4>1. Rotated(binding[s]) \in Bindings
        BY <1>6, RotatedFacts DEF TypeOK, RefreshRenewed
      <4> QED
        BY <1>6, <3>2, <4>1 DEF TypeOK, RefreshRenewed
    <3> QED
      BY <1>6, <3>1, <3>2 DEF RefreshRenewed
  <2> QED
    BY <1>6, <2>1, <2>2, <2>3, <2>4 DEF TypeOK, RefreshRenewed
<1>7. ASSUME NEW q \in requests, Arrive(q) PROVE TypeOK'
  BY <1>7 DEF TypeOK, Arrive, server, browser
<1>8. ASSUME NEW q \in requests, Offer(q) PROVE TypeOK'
  <2>1. q.sid \in Sessions
    BY RequestFacts
  <2>2. Call("register", q.sid, TRUE) \in Calls
    BY <2>1, CallFacts
  <2>3. call' \in Calls \cup {None}
    BY <1>8, <2>2 DEF TypeOK, Offer
  <2> QED
    BY <1>8, <2>1, <2>3 DEF TypeOK, Offer, browser
<1>9. ASSUME NEW q \in requests, LogOut(q) PROVE TypeOK'
  <2>1. q.sid \in Sessions
    BY RequestFacts
  <2> QED
    BY <1>9, <2>1, EndFacts DEF TypeOK, LogOut
<1>10. ASSUME NEW kind \in AnswerKinds, TakeAnswer(kind) PROVE TypeOK'
  <2>1. call \in Calls /\ call.of \in Sessions
    BY <1>10 DEF TypeOK, TakeAnswer, Calls
  <2>2. call' \in Calls \cup {None}
    BY <1>10, <2>1, CallFacts DEF TakeAnswer
  <2>3. cached' \in [Sessions -> {"unknown", "stale", "current"}]
    BY <1>10, <2>1 DEF TypeOK, TakeAnswer
  <2>4. jar' \in Copies \cup {None} /\ jarLeft' \in 0 .. CookieTTL
    BY <1>10, <2>1 DEF TypeOK, TakeAnswer, Copies
  <2> QED
    BY <1>10, <2>2, <2>3, <2>4 DEF TypeOK, TakeAnswer, server
<1>11. CASE Leave
  BY <1>11 DEF TypeOK, Leave, server, browser
<1>12. CASE Register
  <2>1. call \in Calls /\ call.of \in Sessions
    BY <1>12 DEF TypeOK, Register, Calls
  <2>2. call' \in Calls
    BY <1>12, <2>1, CallFacts DEF Register
  <2>3. [left |-> CookieTTL, prevLeft |-> -Grace, challengeLeft |-> 0] \in Bindings
    BY DEF Bindings
  <2>4. /\ binding' \in [Sessions -> Bindings \cup {None}]
        /\ offer' \in [Sessions -> {"none", "open", "answered"}]
        /\ \A t \in Sessions : binding'[t] # None => row[t] = "live" /\ offer'[t] = "answered"
    BY <1>12, <2>1, <2>3 DEF TypeOK, Register
  <2> QED
    BY <1>12, <2>2, <2>4 DEF TypeOK, Register, browser
<1>13. CASE Lose
  BY <1>13 DEF TypeOK, Lose, server, browser
<1>14. CASE Tick
  <2>1. binding' \in [Sessions -> Bindings \cup {None}]
    BY <1>14 DEF TypeOK, Tick, Bindings, Down
  <2>2. jarLeft' \in 0 .. CookieTTL /\ jar' \in Copies \cup {None}
    BY <1>14, AgedFacts DEF TypeOK, Tick, Down
  <2>3. requests' \in SUBSET [sid : Sessions, bound : Copies \cup {None}]
    <3>1. \A q \in requests : [q EXCEPT !.bound = Aged(q.bound)] \in [sid : Sessions, bound : Copies \cup {None}]
      BY RequestFacts, AgedFacts DEF TypeOK
    <3> QED
      BY <1>14, <3>1 DEF Tick
  <2>4. call' \in Calls \cup {None}
    BY <1>14 DEF TypeOK, Tick, Calls
  <2>5. \A t \in Sessions : binding'[t] # None => binding[t] # None
    BY <1>14 DEF Tick
  <2> QED
    BY <1>14, <2>1, <2>2, <2>3, <2>4, <2>5 DEF TypeOK, Tick
<1> QED
  BY <1>1, <1>2, <1>3, <1>4, <1>5, <1>6, <1>7, <1>8, <1>9, <1>10, <1>11, <1>12, <1>13, <1>14
     DEF Next, RefreshHandled

LEMMA AroundFacts ==
    ASSUME TypeOK, NEW copy \in Around
    PROVE  copy \in Copies /\ copy # None
BY DEF TypeOK, Around

\* Most steps make no copy, and keep the cookies of the bindings that they leave.
LEMMA StillTracked ==
    ASSUME TypeOK, Tracks, Around' \subseteq Around,
           \A s \in Sessions : offer[s] = "answered" => offer'[s] = "answered",
           \A s \in Sessions : binding'[s] # None =>
               /\ binding[s] # None
               /\ binding'[s].left = binding[s].left /\ binding'[s].prevLeft = binding[s].prevLeft
    PROVE  Tracks'
<1> SUFFICES ASSUME NEW copy \in Around' PROVE Tracked(copy)'
  BY DEF Tracks
<1>1. copy \in Around /\ Tracked(copy) /\ copy.of \in Sessions
  BY AroundFacts DEF Tracks, Copies
<1> QED
  BY <1>1 DEF Tracked

LEMMA TracksKept ==
    ASSUME IInv, Next
    PROVE  Tracks'
<1>0. TypeOK /\ Tracks /\ OnItsWay
  BY DEF IInv
<1>1. ASSUME NEW s \in Sessions, SignIn(s) PROVE Tracks'
  BY <1>0, <1>1, StillTracked DEF SignIn, Around
<1>2. ASSUME NEW s \in Sessions, EndSession(s) PROVE Tracks'
  BY <1>0, <1>2, StillTracked, EndFacts DEF EndSession, browser, Around
<1>3. ASSUME NEW s \in Sessions, Refresh(s) PROVE Tracks'
  BY <1>0, <1>3, StillTracked DEF Refresh, server, browser, Around
<1>4. ASSUME NEW s \in Sessions, RefreshEnded(s) PROVE Tracks'
  BY <1>0, <1>4, StillTracked DEF RefreshEnded, server, browser, Around
<1>5. ASSUME NEW s \in Sessions, RefreshChallenged(s) PROVE Tracks'
  <2>1. Around' = Around /\ offer' = offer
    BY <1>5 DEF RefreshChallenged, Around
  <2>2. \A t \in Sessions : binding'[t] # None =>
            /\ binding[t] # None
            /\ binding'[t].left = binding[t].left /\ binding'[t].prevLeft = binding[t].prevLeft
    BY <1>0, <1>5 DEF RefreshChallenged, TypeOK, Bindings
  <2> QED
    BY <1>0, <2>1, <2>2, StillTracked
<1>6. ASSUME NEW s \in Sessions, RefreshRenewed(s) PROVE Tracks'
  <2> SUFFICES ASSUME NEW copy \in Around' PROVE Tracked(copy)'
    BY DEF Tracks
  <2>1. PICK old \in Around : copy = Turned(s, old)
    <3>1. Turned(s, None) = None
      BY DEF Turned
    <3>2. CASE copy = jar'
      BY <1>6, <3>1, <3>2 DEF RefreshRenewed, Around
    <3>3. CASE \E q \in requests' : copy = q.bound
      <4>1. PICK q \in requests : copy = [q EXCEPT !.bound = Turned(s, q.bound)].bound
        BY <1>6, <3>3 DEF RefreshRenewed
      <4>2. copy = Turned(s, q.bound)
        BY <1>0, <4>1 DEF TypeOK
      <4> QED
        BY <3>1, <4>2 DEF Around
    <3> QED
      BY <3>2, <3>3 DEF Around
  <2>2. old \in Copies /\ old # None /\ Tracked(old)
    BY <1>0, AroundFacts DEF Tracks
  <2>3. offer' = offer
    BY <1>6 DEF RefreshRenewed
  <2>4. CASE old.of # s
    <3>1. copy = old /\ old.of \in Sessions
      BY <2>1, <2>2, <2>4 DEF Turned, Copies
    <3>2. binding'[old.of] # None => binding'[old.of] = binding[old.of]
      BY <1>0, <1>6, <2>4, <3>1, EndFacts DEF RefreshRenewed, TypeOK
    <3> QED
      BY <2>2, <2>3, <3>1, <3>2 DEF Tracked
  <2>5. CASE old.of = s /\ old.is = "cookie"
    <3>1. copy = [old EXCEPT !.is = "prev", !.turns = 1]
      BY <2>1, <2>2, <2>5 DEF Turned
    <3>2. copy.of = s /\ copy.is = "prev" /\ copy.turns = 1 /\ copy.age = old.age
      BY <2>2, <2>5, <3>1 DEF Copies
    <3>3. binding'[s] # None => binding'[s].prevLeft = binding[s].left
      BY <1>0, <1>6, EndFacts DEF RefreshRenewed, TypeOK, Rotated
    <3>4. binding[s] # None
      BY <1>6 DEF RefreshRenewed
    <3> QED
      BY <2>2, <2>3, <2>5, <3>2, <3>3, <3>4 DEF Tracked
  <2>6. CASE old.of = s /\ old.is # "cookie"
    <3>1. copy = [old EXCEPT !.is = "neither", !.turns = 2, !.age = Outlived]
      BY <2>1, <2>2, <2>6 DEF Turned
    <3>2. copy.of = s /\ copy.is = "neither" /\ copy.turns = 2 /\ copy.age = Outlived
      BY <2>2, <2>6, <3>1 DEF Copies
    <3> QED
      BY <2>2, <2>3, <2>6, <3>2 DEF Tracked
  <2> QED
    BY <2>4, <2>5, <2>6
<1>7. ASSUME NEW q \in requests, Arrive(q) PROVE Tracks'
  BY <1>0, <1>7, StillTracked DEF Arrive, server, browser, Around
<1>8. ASSUME NEW q \in requests, Offer(q) PROVE Tracks'
  <2>1. \A s \in Sessions : offer[s] = "answered" => offer'[s] = "answered"
    BY <1>0, <1>8 DEF Offer, TypeOK
  <2>2. Around' \subseteq Around /\ binding' = binding
    BY <1>8 DEF Offer, browser, Around
  <2> QED
    BY <1>0, <2>1, <2>2, StillTracked
<1>9. ASSUME NEW q \in requests, LogOut(q) PROVE Tracks'
  <2>1. q.sid \in Sessions
    BY <1>0, RequestFacts
  <2> QED
    BY <1>0, <1>9, <2>1, EndFacts, StillTracked DEF LogOut, Around
<1>10. ASSUME NEW kind \in AnswerKinds, TakeAnswer(kind) PROVE Tracks'
  <2>1. server' = server /\ requests' = requests
    BY <1>10 DEF TakeAnswer, server
  <2>2. CASE jar' = jar
    BY <1>0, <2>1, <2>2, StillTracked DEF server, Around
  <2>3. CASE kind \in {"registered", "renewed"}
    <3>1. jar' = [of |-> call.of, is |-> "cookie", turns |-> 0, age |-> IF call.waited THEN 1 ELSE 0]
      BY <1>10, <2>3 DEF TakeAnswer
    <3>2. Tracked(jar')
      BY <1>0, <1>10, <2>3, <3>1 DEF OnItsWay, TakeAnswer, Tracked
    <3>3. \A copy \in Around' : copy = jar' \/ copy \in Around
      BY <2>1 DEF Around
    <3> QED
      BY <1>0, <2>1, <3>2, <3>3 DEF Tracks, Tracked, server
  <2> QED
    BY <1>10, <2>2, <2>3 DEF TakeAnswer
<1>11. CASE Leave
  <2>1. Around' \subseteq Around
    BY <1>11 DEF Leave, browser, Around
  <2> QED
    BY <1>0, <1>11, <2>1, StillTracked DEF Leave, server
<1>12. CASE Register
  <2> SUFFICES ASSUME NEW copy \in Around' PROVE Tracked(copy)'
    BY DEF Tracks
  <2>1. copy \in Around /\ Tracked(copy) /\ copy.of \in Sessions
    BY <1>0, <1>12, AroundFacts DEF Register, browser, Around, Tracks, Copies
  <2>2. copy.of # call.of
    BY <1>12, <2>1 DEF Register, Tracked
  <2>3. binding'[copy.of] = binding[copy.of] /\ offer'[copy.of] = offer[copy.of]
    BY <1>0, <1>12, <2>1, <2>2 DEF Register, TypeOK
  <2> QED
    BY <2>1, <2>3 DEF Tracked
<1>13. CASE Lose
  BY <1>0, <1>13, StillTracked DEF Lose, server, browser, Around
<1>14. CASE Tick
  <2> SUFFICES ASSUME NEW copy \in Around' PROVE Tracked(copy)'
    BY DEF Tracks
  <2>1. PICK old \in Around : copy = Aged(old)
    <3>1. Aged(None) = None
      BY DEF Aged
    <3>2. CASE copy = jar'
      BY <1>14, <3>1, <3>2 DEF Tick, Around
    <3>3. CASE \E q \in requests' : copy = q.bound
      <4>1. PICK q \in requests : copy = [q EXCEPT !.bound = Aged(q.bound)].bound
        BY <1>14, <3>3 DEF Tick
      <4>2. copy = Aged(q.bound)
        BY <1>0, <4>1 DEF TypeOK
      <4> QED
        BY <3>1, <4>2 DEF Around
    <3> QED
      BY <3>2, <3>3 DEF Around
  <2>2. old \in Copies /\ old # None /\ Tracked(old) /\ old.of \in Sessions
    BY <1>0, AroundFacts DEF Tracks, Copies
  <2>3. /\ copy.of = old.of /\ copy.is = old.is /\ copy.turns = old.turns
        /\ copy.age = IF old.age < Outlived THEN old.age + 1 ELSE old.age
    BY <2>1, <2>2 DEF Aged, Copies
  <2>4. offer' = offer
    BY <1>14 DEF Tick
  <2>5. ASSUME binding'[old.of] # None
        PROVE  /\ binding[old.of] # None /\ binding[old.of] \in Bindings
               /\ binding'[old.of].left = Down(binding[old.of].left, -Grace)
               /\ binding'[old.of].prevLeft = Down(binding[old.of].prevLeft, -Grace)
    BY <1>0, <1>14, <2>2, <2>5 DEF Tick, TypeOK
  <2>6. old.age \in 0 .. Outlived
    BY <2>2 DEF Copies
  <2>7. copy.is = "cookie" /\ binding'[copy.of] # None => binding'[copy.of].left = CookieTTL - copy.age
    BY <2>2, <2>3, <2>5, <2>6 DEF Tracked, Down, Bindings
  <2>8. copy.is = "prev" /\ binding'[copy.of] # None => binding'[copy.of].prevLeft = CookieTTL - copy.age
    BY <2>2, <2>3, <2>5, <2>6 DEF Tracked, Down, Bindings
  <2> QED
    BY <2>2, <2>3, <2>4, <2>6, <2>7, <2>8 DEF Tracked
<1> QED
  BY <1>1, <1>2, <1>3, <1>4, <1>5, <1>6, <1>7, <1>8, <1>9, <1>10, <1>11, <1>12, <1>13, <1>14
     DEF Next, RefreshHandled

\* Most steps send no cookie.
LEMMA StillOnItsWay ==
    ASSUME TypeOK, OnItsWay, call' = call, offer' = offer,
           \A s \in Sessions : binding'[s] # None =>
               binding[s] # None /\ binding'[s].left = binding[s].left
    PROVE  OnItsWay'
<1>1. call # None => call.of \in Sessions
  BY DEF TypeOK, Calls
<1> QED
  BY <1>1 DEF OnItsWay

LEMMA OnItsWayKept ==
    ASSUME IInv, Next
    PROVE  OnItsWay'
<1>0. TypeOK /\ OnItsWay
  BY DEF IInv
<1>1. ASSUME NEW s \in Sessions, SignIn(s) PROVE OnItsWay'
  BY <1>0, <1>1, StillOnItsWay DEF SignIn
<1>2. ASSUME NEW s \in Sessions, EndSession(s) PROVE OnItsWay'
  BY <1>0, <1>2, StillOnItsWay, EndFacts DEF EndSession
<1>3. ASSUME NEW s \in Sessions, Refresh(s) PROVE OnItsWay'
  BY <1>3, CallFacts DEF Refresh, OnItsWay
<1>4. ASSUME NEW s \in Sessions, RefreshEnded(s) PROVE OnItsWay'
  BY <1>4, CallFacts DEF RefreshEnded, OnItsWay
<1>5. ASSUME NEW s \in Sessions, RefreshChallenged(s) PROVE OnItsWay'
  BY <1>5, CallFacts DEF RefreshChallenged, OnItsWay
<1>6. ASSUME NEW s \in Sessions, RefreshRenewed(s) PROVE OnItsWay'
  <2>1. call'.of = s /\ call'.waited = FALSE
    BY <1>6, CallFacts DEF RefreshRenewed
  <2>2. offer'[s] = "answered"
    BY <1>0, <1>6 DEF RefreshRenewed, TypeOK
  <2>3. binding'[s] # None => binding'[s].left = CookieTTL
    BY <1>0, <1>6, EndFacts DEF RefreshRenewed, Rotated, TypeOK
  <2> QED
    BY <2>1, <2>2, <2>3 DEF OnItsWay
<1>7. ASSUME NEW q \in requests, Arrive(q) PROVE OnItsWay'
  BY <1>0, <1>7, StillOnItsWay DEF Arrive, server
<1>8. ASSUME NEW q \in requests, Offer(q) PROVE OnItsWay'
  <2>1. q.sid \in Sessions
    BY <1>0, RequestFacts
  <2>2. CASE call' = Call("register", q.sid, TRUE)
    BY <2>1, <2>2, CallFacts DEF OnItsWay
  <2>3. CASE call' = call
    <3>1. call # None => call.of \in Sessions
      BY <1>0 DEF TypeOK, Calls
    <3>2. \A s \in Sessions : offer[s] = "answered" => offer'[s] = "answered"
      BY <1>0, <1>8 DEF Offer, TypeOK
    <3> QED
      BY <1>0, <1>8, <2>3, <3>1, <3>2 DEF Offer, OnItsWay
  <2> QED
    BY <1>8, <2>2, <2>3 DEF Offer
<1>9. ASSUME NEW q \in requests, LogOut(q) PROVE OnItsWay'
  <2>1. q.sid \in Sessions
    BY <1>0, RequestFacts
  <2> QED
    BY <1>0, <1>9, <2>1, EndFacts, StillOnItsWay DEF LogOut
<1>10. ASSUME NEW kind \in AnswerKinds, TakeAnswer(kind) PROVE OnItsWay'
  <2>1. call.of \in Sessions
    BY <1>0, <1>10 DEF TypeOK, TakeAnswer, Calls
  <2> QED
    BY <1>10, <2>1, CallFacts DEF TakeAnswer, OnItsWay
<1>11. CASE Leave
  BY <1>0, <1>11, StillOnItsWay DEF Leave, server
<1>12. CASE Register
  <2>1. call.of \in Sessions
    BY <1>0, <1>12 DEF TypeOK, Register, Calls
  <2>2. call'.of = call.of /\ call'.waited = FALSE
    BY <1>12, <2>1, CallFacts DEF Register
  <2>3. offer'[call.of] = "answered"
    BY <1>0, <1>12, <2>1 DEF Register, TypeOK
  <2>4. binding'[call.of].left = CookieTTL
    BY <1>0, <1>12, <2>1 DEF Register, TypeOK
  <2> QED
    BY <2>2, <2>3, <2>4 DEF OnItsWay
<1>13. CASE Lose
  BY <1>13 DEF Lose, OnItsWay
<1>14. CASE Tick
  <2> SUFFICES ASSUME call' # None, call'.kind \in {"registered", "renewed"}
               PROVE  /\ offer'[call'.of] = "answered"
                      /\ binding'[call'.of] # None =>
                             binding'[call'.of].left = CookieTTL - (IF call'.waited THEN 1 ELSE 0)
    BY DEF OnItsWay
  <2>1. call # None /\ ~call.waited /\ call \in Calls
    BY <1>0, <1>14 DEF Tick, TypeOK, Calls
  <2>2. call'.kind = call.kind /\ call'.of = call.of /\ call'.waited /\ call.of \in Sessions
    BY <1>14, <2>1 DEF Tick, Calls
  <2>3. offer[call.of] = "answered" /\ (binding[call.of] # None => binding[call.of].left = CookieTTL)
    BY <1>0, <2>1, <2>2 DEF OnItsWay
  <2>4. binding'[call.of] # None =>
            binding[call.of] # None /\ binding'[call.of].left = Down(binding[call.of].left, -Grace)
    BY <1>14, <2>2 DEF Tick
  <2>5. Down(CookieTTL, -Grace) = CookieTTL - 1
    BY DEF Down
  <2> QED
    BY <1>14, <2>2, <2>3, <2>4, <2>5 DEF Tick
<1> QED
  BY <1>1, <1>2, <1>3, <1>4, <1>5, <1>6, <1>7, <1>8, <1>9, <1>10, <1>11, <1>12, <1>13, <1>14
     DEF Next, RefreshHandled

LEMMA JarFreshKept ==
    ASSUME IInv, Next
    PROVE  JarFresh'
<1>0. TypeOK /\ JarFresh
  BY DEF IInv
<1>1. CASE jar' = jar /\ jarLeft' = jarLeft
  BY <1>0, <1>1 DEF JarFresh
<1>2. ASSUME NEW s \in Sessions, RefreshRenewed(s) PROVE JarFresh'
  <2>1. jar' = Turned(s, jar) /\ jarLeft' = jarLeft
    BY <1>2 DEF RefreshRenewed
  <2>2. CASE jar = None
    BY <2>1, <2>2 DEF Turned, JarFresh
  <2>3. CASE jar \in Copies /\ jar # None
    <3>1. \/ jar' = jar
          \/ jar.is = "cookie" /\ jar' = [jar EXCEPT !.is = "prev", !.turns = 1]
          \/ jar' = [jar EXCEPT !.is = "neither", !.turns = 2, !.age = Outlived]
      BY <2>1 DEF Turned
    <3>2. (jar'.age = jar.age /\ jar.turns < 2) \/ jar'.turns = 2 \/ jar' = jar
      <4>1. jar.is = "cookie" => jar.turns = 0
        BY <2>3 DEF IInv, Tracks, Tracked, Around
      <4>2. CASE jar.is = "cookie" /\ jar' = [jar EXCEPT !.is = "prev", !.turns = 1]
        <5>1. jar'.age = jar.age
          BY <2>3, <4>2 DEF Copies
        <5> QED
          BY <4>1, <4>2, <5>1
      <4>3. CASE jar' = [jar EXCEPT !.is = "neither", !.turns = 2, !.age = Outlived]
        BY <2>3, <4>3 DEF Copies
      <4> QED
        BY <3>1, <4>2, <4>3
    <3> QED
      BY <1>0, <2>1, <2>3, <3>2 DEF JarFresh
  <2> QED
    BY <1>0, <2>2, <2>3 DEF TypeOK
<1>3. ASSUME NEW q \in requests, LogOut(q) PROVE JarFresh'
  BY <1>0, <1>3 DEF LogOut, JarFresh
<1>4. ASSUME NEW kind \in AnswerKinds, TakeAnswer(kind) PROVE JarFresh'
  <2>1. CASE kind \in {"registered", "renewed"}
    <3>1. jarLeft' = CookieTTL /\ jar'.age <= 1
      BY <1>4, <2>1 DEF TakeAnswer
    <3>2. jar'.age \in Int
      BY <1>4, <2>1 DEF TakeAnswer
    <3> QED
      BY <3>1, <3>2 DEF JarFresh
  <2>2. CASE kind \notin {"registered", "renewed"}
    BY <1>1, <1>4, <2>2 DEF TakeAnswer
  <2> QED
    BY <2>1, <2>2
<1>5. CASE Tick
  <2> SUFFICES ASSUME jar' # None
               PROVE  jarLeft' > 0 /\ (jar'.turns < 2 => jar'.age + jarLeft' <= CookieTTL + 1)
    BY DEF JarFresh
  <2>1. jarLeft' = Down(jarLeft, 0) /\ jarLeft' # 0 /\ jar' = Aged(jar)
    BY <1>5 DEF Tick
  <2>2. jarLeft \in 0 .. CookieTTL /\ jarLeft > 0 /\ jarLeft' = jarLeft - 1 /\ jarLeft' > 0
    BY <1>0, <2>1 DEF TypeOK, Down
  <2>3. jar # None /\ jar \in Copies
    BY <1>0, <2>1 DEF Aged, TypeOK
  <2>4. jar'.turns = jar.turns /\ (jar'.age = jar.age \/ jar'.age = jar.age + 1) /\ jar.age \in Int
    BY <2>1, <2>3 DEF Aged, Copies
  <2> QED
    BY <1>0, <2>2, <2>3, <2>4 DEF JarFresh
<1>6. \A s \in Sessions : SignIn(s) \/ EndSession(s) \/ Refresh(s) \/ RefreshEnded(s) \/ RefreshChallenged(s)
          => jar' = jar /\ jarLeft' = jarLeft
  BY DEF SignIn, EndSession, Refresh, RefreshEnded, RefreshChallenged, browser
<1>7. \A q \in requests : Arrive(q) \/ Offer(q) => jar' = jar /\ jarLeft' = jarLeft
  BY DEF Arrive, Offer, browser
<1>8. Leave \/ Register \/ Lose => jar' = jar /\ jarLeft' = jarLeft
  BY DEF Leave, Register, Lose, browser
<1> QED
  BY <1>1, <1>2, <1>3, <1>4, <1>5, <1>6, <1>7, <1>8 DEF Next, RefreshHandled

-----------------------------------------------------------------------------
(* The theorems.                                                           *)

\* The strengthening is an invariant: what the browser and the requests carry
\* agrees with what session_bindings stores.
THEOREM Invariant == Spec => []IInv
<1>1. Init => IInv
  BY DEF Init, IInv, TypeOK, Tracks, Around, OnItsWay, JarFresh
<1>2. IInv /\ [Next]_vars => IInv'
  <2> SUFFICES ASSUME IInv, [Next]_vars PROVE IInv'
    OBVIOUS
  <2>1. CASE Next
    BY <2>1, TypeKept, TracksKept, OnItsWayKept, JarFreshKept DEF IInv
  <2>2. CASE UNCHANGED vars
    BY <2>2 DEF IInv, TypeOK, Tracks, Tracked, Around, OnItsWay, JarFresh, vars, server, browser
  <2> QED
    BY <2>1, <2>2
<1> QED
  BY <1>1, <1>2, PTL DEF Spec

\* Every variable keeps its shape, and only a live session that answered its
\* offer has a row in session_bindings.
THEOREM TypeCorrect == Spec => []TypeOK
<1>1. IInv => TypeOK
  BY DEF IInv
<1> QED
  BY <1>1, Invariant, PTL

\* checkBoundCookie refuses what is Grace past its lifetime or two renewals old.
THEOREM Expire == Spec => []CopiesExpire
<1>1. IInv => CopiesExpire
  <2> SUFFICES ASSUME IInv, NEW s \in Sessions, NEW copy \in Around, binding[s] # None, Accepts(s, copy)
               PROVE  copy.of = s /\ copy.age < Outlived
    BY DEF CopiesExpire
  <2>1. TypeOK /\ Tracked(copy) /\ copy \in Copies /\ copy.of = s
    BY AroundFacts DEF IInv, Tracks, Accepts
  <2>2. binding[s] \in Bindings /\ copy.age \in 0 .. Outlived
    BY <2>1 DEF TypeOK, Copies
  <2> QED
    BY <2>1, <2>2 DEF Tracked, Accepts, Bindings
<1> QED
  BY <1>1, Invariant, PTL

\* checkBoundCookie accepts a request that one renewal overtook, and the cookie
\* of a browser that keeps it for its Max-Age.
THEOREM Overtaken == Spec => []OvertakenOnce
<1>1. IInv => OvertakenOnce
  <2> SUFFICES ASSUME IInv, NEW copy \in Around, row[copy.of] = "live", copy.turns < 2,
                      copy.age < Outlived \/ copy = jar
               PROVE  Accepts(copy.of, copy)
    BY DEF OvertakenOnce
  <2>1. TypeOK /\ Tracked(copy) /\ copy \in Copies /\ copy # None
    BY AroundFacts DEF IInv, Tracks
  <2>2. copy.of \in Sessions /\ copy.age \in 0 .. Outlived /\ copy.is \in {"cookie", "prev", "neither"}
    BY <2>1 DEF Copies
  <2>3. copy.age < Outlived
    <3>1. CASE copy = jar
      BY <2>1, <2>2, <3>1 DEF IInv, JarFresh, TypeOK
    <3> QED
      BY <3>1
  <2>4. binding[copy.of] # None => binding[copy.of] \in Bindings
    BY <2>1, <2>2 DEF TypeOK
  <2> QED
    BY <2>1, <2>2, <2>3, <2>4 DEF Tracked, Accepts, Bindings
<1> QED
  BY <1>1, Invariant, PTL

\* The cookie that the browser takes from a registration or a renewal opens the
\* session if it lives, however long the answer took and whatever else was
\* renewed, ended or asked for meanwhile: the step that BackIn turns on.
LetsIn(kind) ==
    \A s \in Sessions :
        TakeAnswer(kind) /\ call.of = s /\ row[s] = "live" => Accepts(s, jar)'

RenewalLetsIn == [][LetsIn("registered") /\ LetsIn("renewed")]_vars

LEMMA AnswerLetsIn ==
    ASSUME IInv, NEW kind \in {"registered", "renewed"}
    PROVE  LetsIn(kind)
<1> SUFFICES ASSUME NEW s \in Sessions, TakeAnswer(kind), call.of = s, row[s] = "live"
             PROVE  Accepts(s, jar)'
  BY DEF LetsIn
<1>1. /\ row' = row /\ binding' = binding
      /\ call # None /\ call.kind = kind
      /\ jar' = [of |-> s, is |-> "cookie", turns |-> 0, age |-> IF call.waited THEN 1 ELSE 0]
  BY DEF TakeAnswer, server
<1>2. jar' \in Copies /\ jar'.of = s /\ jar'.is = "cookie"
  <2>1. (IF call.waited THEN 1 ELSE 0) \in 0 .. Outlived /\ 0 \in 0 .. 2
    OBVIOUS
  <2> QED
    BY <1>1, <2>1 DEF Copies
<1>3. binding[s] # None => binding[s].left = CookieTTL \/ binding[s].left = CookieTTL - 1
  BY <1>1 DEF IInv, OnItsWay
<1>4. binding[s] # None => binding[s].left > -Grace
  BY <1>3
<1> QED
  BY <1>1, <1>2, <1>4, NoneIsNoCopy DEF Accepts

\* Both answers of /admin/dbsc that bring a cookie bring one that lets in.
THEOREM RenewalAccepted == Spec => RenewalLetsIn
<1>1. IInv => LetsIn("registered") /\ LetsIn("renewed")
  BY AnswerLetsIn
<1> QED
  BY <1>1, Invariant, PTL DEF Spec, RenewalLetsIn
=============================================================================
