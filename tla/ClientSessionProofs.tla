------------------------ MODULE ClientSessionProofs ------------------------
(***************************************************************************)
(* The session of a tab, for any number of queries, failures, logouts,     *)
(* sign-ins and reloads: no request is left waiting (HeldIsRefreshed), and *)
(* the tab never drops a session whose cookie is good (SessionKept).       *)
(*                                                                         *)
(* A 401 to a refresh is dangerous only if the cookie was replaced behind  *)
(* it.  Two refreshes can do that to each other: two of the requests share *)
(* one (Shared); the bootstrap's is alone until somebody signs in (Alone), *)
(* and then carries another token than everything sent later (Overtaken).  *)
(* So a refresh nobody overtook carries a token the server accepts, or the *)
(* cookie itself, and is refused only with it (Told).                      *)
(***************************************************************************)
EXTENDS ClientSession, TLAPS

FlightRows == {NoCall} \cup [phase : {"sent", "ok", "401", "error"}, token : Tokens \cup {None}]
ReqRows == {NoReq} \cup
           [phase : {"sent", "held"}, live : BOOLEAN, retried : BOOLEAN, fails : Nat]

InFlight(f) == refresh[f] # NoCall

SessionTypes ==
    /\ refresh \in [Flights -> FlightRows]
    /\ req \in [Queries -> ReqRows]
    /\ cookie \in Tokens \cup {None}
    /\ valid \subseteq Tokens
    /\ access \in {"none", "live", "dead"}

(* The requests share one refresh; the tab has started before that of the  *)
(* bootstrap has ended.                                                    *)
Shared ==
    /\ \A q, r \in Queries : InFlight(q) /\ InFlight(r) => q = r
    /\ InFlight("boot") => boot = "refresh"

(* A token the server has just issued is good, and nobody else has it.     *)
Fresh ==
    \A f \in Flights : refresh[f].phase = "ok" =>
        /\ refresh[f].token \in valid \ {cookie}
        /\ \A g \in Flights \ {f} : InFlight(g) => refresh[g].token # refresh[f].token

(* While bootstrap() refreshes and nobody has signed in, nothing else is   *)
(* under way.                                                              *)
Alone ==
    InFlight("boot") /\ "boot" \notin overtaken =>
        /\ ~user /\ leaving = NoCall
        /\ \A q \in Queries : req[q] = NoReq /\ ~InFlight(q)
        /\ refresh["boot"].phase = "sent" => refresh["boot"].token = cookie
        /\ refresh["boot"].phase = "401" => cookie \notin valid

(* Once somebody has, the bootstrap has another token than everybody else, *)
(* and the cookie is good as long as it is used.                           *)
Overtaken ==
    InFlight("boot") /\ "boot" \in overtaken =>
        /\ cookie \in {None} \cup (Tokens \ {refresh["boot"].token})
        /\ \A q \in Queries : InFlight(q) =>
              refresh[q].token \in {None} \cup (Tokens \ {refresh["boot"].token})
        /\ user \/ (\E r \in Queries : req[r] # NoReq) =>
              cookie \in valid \/ \E q \in Queries : refresh[q].phase = "ok"

(* A refresh that no sign-in has overtaken will be accepted, unless the    *)
(* cookie is good for nothing.                                             *)
Told ==
    \A q \in Queries \ overtaken :
        /\ refresh[q].phase = "sent" =>
              \/ refresh[q].token \in valid
              \/ refresh[q].token = cookie /\ ~InFlight("boot")
        /\ refresh[q].phase = "401" => cookie \notin valid /\ ~InFlight("boot")

SessionInv ==
    SessionTypes /\ HeldIsRefreshed /\ Shared /\ Fresh /\ Alone /\ Overtaken /\ Told /\ SessionKept

LEMMA FlightIs ==
    ASSUME SessionTypes, NEW f \in Flights
    PROVE  /\ InFlight(f) <=> refresh[f].phase \in {"sent", "ok", "401", "error"}
           /\ InFlight(f) => refresh[f] \in [phase : {"sent", "ok", "401", "error"},
                                              token : Tokens \cup {None}]
           /\ ~InFlight(f) => refresh[f].phase = "none"
BY DEF SessionTypes, FlightRows, InFlight, NoCall

LEMMA HeldTokens ==
    \A t : t \in InUse <=> \/ t = cookie
                           \/ \E f \in Flights : InFlight(f) /\ t = refresh[f].token
BY DEF InUse, InFlight

LEMMA HeldTokensLater ==
    \A t : t \in InUse' <=> \/ t = cookie'
                            \/ \E f \in Flights : InFlight(f)' /\ t = refresh'[f].token
BY DEF InUse, InFlight

(* At most three tokens are held: by the cookie, by the bootstrap and by   *)
(* the one refresh of the requests.                                        *)
LEMMA IssuedIsNew ==
    ASSUME SessionTypes, Shared
    PROVE  /\ Issued \in Tokens /\ Issued # None /\ Issued # cookie
           /\ \A f \in Flights : InFlight(f) => refresh[f].token # Issued
<1> DEFINE held(f) == IF InFlight(f) THEN refresh[f].token ELSE cookie
<1>1. cookie \in Tokens \cup {None} /\ \A f \in Flights : held(f) \in Tokens \cup {None}
  BY FlightIs DEF SessionTypes
<1>2. \E c \in Tokens \cup {None} : \A q \in Queries : InFlight(q) => refresh[q].token = c
  <2>1. CASE \A q \in Queries : ~InFlight(q)
    BY <2>1
  <2>2. ASSUME NEW q \in Queries, InFlight(q)
        PROVE  \E c \in Tokens \cup {None} : \A r \in Queries : InFlight(r) => refresh[r].token = c
    <3>1. refresh[q].token \in Tokens \cup {None}
      BY <2>2, FlightIs DEF Flights
    <3>2. \A r \in Queries : InFlight(r) => refresh[r].token = refresh[q].token
      BY <2>2 DEF Shared
    <3>3. QED
      BY <3>1, <3>2
  <2>3. QED
    BY <2>1, <2>2
<1>3. PICK c \in Tokens \cup {None} : \A q \in Queries : InFlight(q) => refresh[q].token = c
  BY <1>2
<1>4. PICK t \in Tokens : t \notin {cookie, held("boot"), c}
  <2>1. held("boot") \in Tokens \cup {None}
    BY <1>1 DEF Flights
  <2> HIDE DEF held
  <2>2. Tokens \ {cookie, held("boot"), c} # {}
    BY <1>1, <2>1, ClientSessionAssumption
  <2>3. QED
    BY <2>2
<1>5. t \notin InUse
  BY <1>3, <1>4, HeldTokens DEF Flights
<1>6. Issued \in Tokens /\ Issued \notin InUse
  BY <1>5 DEF Issued
<1>7. QED
  BY <1>6, HeldTokens, ClientSessionAssumption

LEMMA SessionAtFirst == Init => SessionInv
<1> SUFFICES ASSUME Init PROVE SessionInv
  OBVIOUS
<1> USE DEF Init, Booting
<1>1. (CHOOSE t \in Tokens : TRUE) \in Tokens
  <2>1. Tokens # {}
    BY ClientSessionAssumption
  <2>2. QED
    BY <2>1
<1>2. cookie \in Tokens \cup {None} /\ valid \subseteq Tokens
  BY <1>1
<1>3. /\ \A q \in Queries : refresh[q] = NoCall
      /\ refresh["boot"] = [phase |-> "sent", token |-> cookie]
  BY ClientSessionAssumption DEF Flights
<1>4. SessionTypes
  <2>1. \A f \in Flights : refresh[f] \in FlightRows
    BY <1>2, <1>3 DEF Flights, FlightRows
  <2>2. refresh \in [Flights -> FlightRows]
    BY <2>1
  <2>3. req \in [Queries -> ReqRows]
    BY DEF ReqRows
  <2>4. QED
    BY <1>2, <2>2, <2>3 DEF SessionTypes
<1>5. \A q \in Queries : ~InFlight(q)
  BY <1>3 DEF InFlight
<1>6. \A f \in Flights : refresh[f].phase \notin {"ok", "401"}
  BY <1>3 DEF Flights, NoCall
<1>7. HeldIsRefreshed
  BY DEF HeldIsRefreshed, NoReq
<1>8. Shared /\ Fresh
  BY <1>5, <1>6 DEF Shared, Fresh
<1>9. Alone
  BY <1>3, <1>5 DEF Alone
<1>10. Overtaken /\ Told
  BY <1>3, <1>6 DEF Overtaken, Told, Flights, NoCall
<1>11. QED
  BY <1>4, <1>7, <1>8, <1>9, <1>10 DEF SessionInv, SessionKept

(* Whatever only runs requests, ends them or shows pages.                  *)
LEMMA PagesKeep ==
    ASSUME SessionInv,
           UNCHANGED <<user, cookie, valid, refresh, boot, overtaken, thrown>>,
           access' \in {"none", "live", "dead"},
           req' \in [Queries -> ReqRows],
           \A q \in Queries : /\ req'[q].phase = "held" => req[q].phase = "held"
                              /\ req'[q] # NoReq => req[q] # NoReq \/ user,
           leaving' # NoCall => leaving # NoCall \/ user
    PROVE  SessionInv'
<1> USE DEF SessionInv
<1>1. SessionTypes'
  BY DEF SessionTypes
<1>2. HeldIsRefreshed'
  BY DEF HeldIsRefreshed, NoneRefreshing
<1>3. Shared' /\ Fresh' /\ Told' /\ SessionKept'
  BY DEF Shared, Fresh, Told, SessionKept, InFlight
<1>4. Alone'
  BY DEF Alone, InFlight
<1>5. Overtaken'
  BY DEF Overtaken, InFlight
<1>6. QED
  BY <1>1, <1>2, <1>3, <1>4, <1>5

LEMMA RequestIs ==
    ASSUME SessionTypes, NEW q \in Queries
    PROVE  /\ req[q] = NoReq <=> req[q].phase = "idle"
           /\ req[q] # NoReq => req[q] \in [phase : {"sent", "held"}, live : BOOLEAN,
                                            retried : BOOLEAN, fails : Nat]
BY DEF SessionTypes, ReqRows, NoReq

LEMMA QuietSteps ==
    ASSUME SessionInv,
           \/ SubmitLogin \/ LoginRefused \/ Challenged \/ TwoFactorChallenge \/ Logout
           \/ FollowLink \/ Redirect \/ CompleteOnboarding
    PROVE  SessionInv'
<1>1. UNCHANGED <<user, cookie, valid, refresh, boot, overtaken, thrown, access, req>>
  BY DEF SubmitLogin, LoginRefused, Challenged, TwoFactorChallenge, Logout, FollowLink,
         Redirect, CompleteOnboarding, storeVars, histVars
<1>2. leaving' # NoCall => leaving # NoCall \/ user
  BY DEF SubmitLogin, LoginRefused, Challenged, TwoFactorChallenge, Logout, FollowLink,
         Redirect, CompleteOnboarding, Authenticated
<1>3. access \in {"none", "live", "dead"} /\ req \in [Queries -> ReqRows]
  BY DEF SessionInv, SessionTypes
<1>4. QED
  BY <1>1, <1>2, <1>3, PagesKeep

LEMMA ExpireStep ==
    ASSUME SessionInv, Expire
    PROVE  SessionInv'
<1>1. UNCHANGED <<user, cookie, valid, refresh, boot, overtaken, thrown>> /\ access' = "dead"
  BY DEF Expire, histVars
<1>2. leaving' # NoCall => leaving # NoCall
  BY DEF Expire
<1>3. ASSUME NEW q \in Queries
      PROVE  /\ req'[q] \in ReqRows
             /\ req'[q].phase = "held" => req[q].phase = "held"
             /\ req'[q] # NoReq => req[q] # NoReq
  <2>1. req[q] \in ReqRows
    BY DEF SessionInv, SessionTypes
  <2>2. req'[q] = IF req[q].phase = "sent" THEN [req[q] EXCEPT !.live = FALSE] ELSE req[q]
    BY DEF Expire
  <2>3. CASE req[q].phase = "sent"
    BY <2>1, <2>2, <2>3 DEF ReqRows, NoReq
  <2>4. CASE req[q].phase # "sent"
    BY <2>1, <2>2, <2>4
  <2>5. QED
    BY <2>3, <2>4
<1>4. req' \in [Queries -> ReqRows]
  BY <1>3 DEF Expire
<1>5. QED
  BY <1>1, <1>2, <1>3, <1>4, PagesKeep

(* One request goes on.                                                    *)
LEMMA RequestStep ==
    ASSUME SessionInv, NEW q \in Queries, RunQuery(q) \/ Answer(q) \/ RequestFails(q)
    PROVE  SessionInv'
<1>1. UNCHANGED <<user, access, cookie, valid, refresh, boot, overtaken, thrown, leaving>>
  BY DEF RunQuery, Answer, RequestFails, storeVars, histVars
<1>2. access \in {"none", "live", "dead"} /\ req \in [Queries -> ReqRows]
  BY DEF SessionInv, SessionTypes
<1>3. \E row \in ReqRows : /\ req' = [req EXCEPT ![q] = row]
                           /\ row.phase # "held"
                           /\ row # NoReq => req[q] # NoReq \/ user
  <2>1. CASE RunQuery(q)
    <3> DEFINE row == Sent(access = "live", FALSE, 0)
    <3>1. row \in ReqRows /\ row.phase # "held"
      BY DEF ReqRows, Sent
    <3>2. req' = [req EXCEPT ![q] = row] /\ user
      BY <2>1 DEF RunQuery, Authenticated
    <3>3. QED
      BY <3>1, <3>2
  <2>2. CASE Answer(q)
    <3>1. req' = [req EXCEPT ![q] = NoReq]
      BY <2>2 DEF Answer
    <3>2. NoReq \in ReqRows /\ NoReq.phase # "held"
      BY DEF ReqRows, NoReq
    <3>3. QED
      BY <3>1, <3>2
  <2>3. CASE RequestFails(q)
    <3>1. req[q].phase = "sent" /\ req[q].fails \in Nat /\ req[q] # NoReq
      BY <1>2, <2>3 DEF RequestFails, ReqRows, NoReq
    <3> DEFINE row == Sent(access = "live", FALSE, req[q].fails + 1)
    <3>2. row \in ReqRows /\ row.phase # "held"
      BY <3>1 DEF ReqRows, Sent
    <3>3. NoReq \in ReqRows /\ NoReq.phase # "held"
      BY DEF ReqRows, NoReq
    <3>4. req' = [req EXCEPT ![q] = row] \/ req' = [req EXCEPT ![q] = NoReq]
      BY <2>3 DEF RequestFails
    <3> HIDE DEF row
    <3>5. QED
      BY <3>1, <3>2, <3>3, <3>4
  <2>4. QED
    BY <2>1, <2>2, <2>3
<1>4. PICK row \in ReqRows :
         /\ req' = [req EXCEPT ![q] = row]
         /\ row.phase # "held"
         /\ row # NoReq => req[q] # NoReq \/ user
  BY <1>3
<1>5. /\ req' \in [Queries -> ReqRows] /\ req'[q] = row
      /\ \A r \in Queries \ {q} : req'[r] = req[r]
  <2>1. req \in [Queries -> ReqRows]
    BY <1>2
  <2>2. req' = [req EXCEPT ![q] = row]
    BY <1>4
  <2>3. QED
    BY <2>1, <2>2
<1>6. \A r \in Queries : /\ req'[r].phase = "held" => req[r].phase = "held"
                         /\ req'[r] # NoReq => req[r] # NoReq \/ user
  BY <1>4, <1>5
<1>7. QED
  BY <1>1, <1>2, <1>5, <1>6, PagesKeep

-----------------------------------------------------------------------------
(* The server rotates the token of a refresh.                              *)
LEMMA RotationStep ==
    ASSUME SessionInv, NEW f \in Flights, RefreshView(f), refresh[f].token \in valid
    PROVE  SessionInv'
<1> USE DEF SessionInv
<1> DEFINE old == refresh[f].token
           new == Issued
<1>1. /\ refresh[f].phase = "sent" /\ InFlight(f)
      /\ UNCHANGED <<cookie, user, access, boot, req, leaving, thrown, overtaken>>
      /\ refresh' = [refresh EXCEPT ![f] = [phase |-> "ok", token |-> new]]
      /\ valid' = ((valid \ {old}) \cup {new}) \cap InUse'
  BY FlightIs DEF RefreshView, Accepts, storeVars, histVars
<1>2. /\ new \in Tokens /\ new # None /\ new # cookie
      /\ \A g \in Flights : InFlight(g) => refresh[g].token # new
  BY IssuedIsNew
<1>3. old \in Tokens
  BY DEF SessionTypes
<1> HIDE DEF new
<1>4. /\ refresh' \in [Flights -> FlightRows]
      /\ refresh'[f] = [phase |-> "ok", token |-> new]
      /\ \A g \in Flights \ {f} : refresh'[g] = refresh[g]
  BY <1>1, <1>2 DEF SessionTypes, FlightRows
<1>5. \A g \in Flights : InFlight(g)' <=> InFlight(g)
  BY <1>1, <1>4 DEF InFlight, NoCall
<1>6. \A t : t \in InUse' <=> \/ t = cookie
                              \/ \E g \in Flights : InFlight(g) /\ t = refresh'[g].token
  BY <1>1, <1>5, HeldTokensLater
<1>7. /\ new \in valid' /\ valid' \subseteq Tokens
      /\ cookie \in valid /\ cookie # old => cookie \in valid'
      /\ \A g \in Flights \ {f} :
            InFlight(g) /\ refresh[g].token \in valid /\ refresh[g].token # old =>
                refresh[g].token \in valid'
  BY <1>1, <1>2, <1>4, <1>6 DEF SessionTypes
<1>8. \A g \in Flights \ {f} : InFlight(g) => f = "boot" \/ g = "boot"
  BY <1>1 DEF Shared, Flights
<1>9. SessionTypes'
  BY <1>1, <1>4, <1>7 DEF SessionTypes
<1>10. HeldIsRefreshed' /\ Shared' /\ SessionKept'
  BY <1>1, <1>4, <1>5 DEF HeldIsRefreshed, NoneRefreshing, Shared, SessionKept, InFlight, Flights
<1>11. Fresh'
  <2> SUFFICES ASSUME NEW g \in Flights, refresh'[g].phase = "ok"
               PROVE  /\ refresh'[g].token \in valid' \ {cookie}
                      /\ \A h \in Flights \ {g} : InFlight(h) => refresh'[h].token # refresh'[g].token
    BY <1>1, <1>5 DEF Fresh
  <2>1. CASE g = f
    BY <1>2, <1>4, <1>7, <2>1
  <2>2. CASE g # f
    <3>1. refresh[g].phase = "ok" /\ InFlight(g)
      BY <1>4, <2>2, FlightIs
    <3>2. /\ refresh[g].token \in valid \ {cookie} /\ refresh[g].token # old
          /\ \A h \in Flights \ {g} : InFlight(h) => refresh[h].token # refresh[g].token
      BY <1>1, <2>2, <3>1 DEF Fresh
    <3>3. QED
      BY <1>2, <1>4, <1>7, <2>2, <3>1, <3>2
  <2>3. QED
    BY <2>1, <2>2
<1>12. Alone'
  <2> SUFFICES ASSUME InFlight("boot"), "boot" \notin overtaken PROVE Alone'
    BY <1>1, <1>5 DEF Alone, Flights
  <2>1. f = "boot"
    BY <1>1 DEF Alone, Flights
  <2>2. QED
    BY <1>1, <1>4, <1>5, <2>1 DEF Alone, Flights
<1>13. Overtaken'
  <2> SUFFICES ASSUME InFlight("boot"), "boot" \in overtaken PROVE Overtaken'
    BY <1>1, <1>5 DEF Overtaken, Flights
  <2>1. cookie \in {None} \cup (Tokens \ {refresh'["boot"].token})
    BY <1>2, <1>4 DEF Overtaken, SessionTypes, Flights
  <2>2. ASSUME NEW q \in Queries, InFlight(q)
        PROVE  refresh'[q].token \in {None} \cup (Tokens \ {refresh'["boot"].token})
    <3>1. /\ q \in Flights /\ q # "boot" /\ refresh[q].token # new
          /\ refresh[q].token \in {None} \cup (Tokens \ {refresh["boot"].token})
          /\ refresh["boot"].token # new /\ "boot" \in Flights
      BY <1>2, <2>2, ClientSessionAssumption DEF Overtaken, Flights
    <3>2. CASE f = q
      BY <1>2, <1>4, <3>1, <3>2
    <3>3. CASE f = "boot"
      BY <1>4, <3>1, <3>3
    <3>4. QED
      BY <1>8, <2>2, <3>1, <3>2, <3>3
  <2>3. user \/ (\E r \in Queries : req[r] # NoReq) =>
            cookie \in valid' \/ \E q \in Queries : refresh'[q].phase = "ok"
    <3>1. CASE f = "boot"
      BY <1>2, <1>4, <1>7, <3>1, ClientSessionAssumption DEF Overtaken, Flights, SessionTypes
    <3>2. CASE f \in Queries
      BY <1>4, <3>2
    <3>3. QED
      BY <3>1, <3>2 DEF Flights
  <2>4. QED
    BY <1>1, <1>5, <2>1, <2>2, <2>3 DEF Overtaken, Flights
<1>14. Told'
  <2> SUFFICES ASSUME NEW q \in Queries \ overtaken, q # f, InFlight(q)
               PROVE  /\ refresh[q].phase = "sent" => refresh[q].token \in valid'
                      /\ refresh[q].phase # "401"
    BY <1>1, <1>4, <1>5, FlightIs DEF Told, Flights
  <2>1. f = "boot" /\ InFlight("boot") /\ q \in Flights
    BY <1>1, <1>8, ClientSessionAssumption DEF Flights
  <2>2. "boot" \in overtaken
    BY <2>1 DEF Alone
  <2>3. /\ refresh[q].phase = "sent" => refresh[q].token \in valid /\ refresh[q].token # old
        /\ refresh[q].phase # "401"
    BY <2>1, <2>2, ClientSessionAssumption DEF Told, Overtaken, SessionTypes
  <2>4. QED
    BY <1>7, <2>1, <2>3
<1>15. QED
  BY <1>9, <1>10, <1>11, <1>12, <1>13, <1>14

(* The server refuses it, or the call fails.                               *)
LEMMA RefusalStep ==
    ASSUME SessionInv, NEW f \in Flights, RefreshView(f) \/ RefreshFails(f),
           RefreshView(f) => refresh[f].token \notin valid
    PROVE  SessionInv'
<1> USE DEF SessionInv
<1>1. PICK p \in {"401", "error"} :
         /\ refresh' = [refresh EXCEPT ![f].phase = p]
         /\ p = "401" => refresh[f].token \notin valid
  BY DEF RefreshView, RefreshFails
<1>2. /\ refresh[f].phase = "sent" /\ InFlight(f)
      /\ UNCHANGED <<valid, cookie, user, access, boot, req, leaving, thrown, overtaken>>
  BY FlightIs DEF RefreshView, RefreshFails, storeVars, histVars
<1>3. refresh[f] \in [phase : {"sent", "ok", "401", "error"}, token : Tokens \cup {None}]
  BY <1>2, FlightIs
<1>4. /\ refresh' \in [Flights -> FlightRows]
      /\ refresh'[f].phase = p /\ refresh'[f].token = refresh[f].token
      /\ \A g \in Flights \ {f} : refresh'[g] = refresh[g]
  BY <1>1, <1>3 DEF SessionTypes, FlightRows
<1>5. \A g \in Flights : /\ InFlight(g)' <=> InFlight(g)
                         /\ refresh'[g].token = refresh[g].token
                         /\ refresh'[g].phase = "ok" <=> refresh[g].phase = "ok"
  BY <1>2, <1>4 DEF InFlight, NoCall
<1>6. SessionTypes'
  BY <1>2, <1>4 DEF SessionTypes
<1>7. HeldIsRefreshed' /\ Shared' /\ SessionKept'
  BY <1>2, <1>5 DEF HeldIsRefreshed, NoneRefreshing, Shared, SessionKept, InFlight, Flights
<1>8. Fresh'
  BY <1>2, <1>5 DEF Fresh
<1>9. Alone'
  BY <1>1, <1>2, <1>4, <1>5 DEF Alone, Flights
<1>10. Overtaken'
  BY <1>2, <1>5 DEF Overtaken, Flights
<1>11. Told'
  BY <1>1, <1>2, <1>4, <1>5 DEF Told, Flights
<1>12. QED
  BY <1>6, <1>7, <1>8, <1>9, <1>10, <1>11

(* What is left of the flights when one of them has ended.                 *)
LEMMA FlightEnds ==
    ASSUME SessionInv, NEW f \in Flights, refresh' = [refresh EXCEPT ![f] = NoCall],
           valid' = valid \cap InUse'
    PROVE  /\ refresh' \in [Flights -> FlightRows] /\ ~InFlight(f)' /\ refresh'[f].phase = "none"
           /\ \A g \in Flights \ {f} : refresh'[g] = refresh[g] /\ (InFlight(g)' <=> InFlight(g))
           /\ valid' \subseteq Tokens
           /\ cookie' \in valid => cookie' \in valid'
           /\ \A g \in Flights \ {f} :
                 InFlight(g) /\ refresh[g].token \in valid => refresh[g].token \in valid'
<1>1. /\ refresh' \in [Flights -> FlightRows] /\ refresh'[f] = NoCall
      /\ \A g \in Flights \ {f} : refresh'[g] = refresh[g]
  BY DEF SessionInv, SessionTypes, FlightRows
<1>2. ~InFlight(f)' /\ \A g \in Flights \ {f} : InFlight(g)' <=> InFlight(g)
  BY <1>1 DEF InFlight
<1>3. valid \subseteq Tokens
  BY DEF SessionInv, SessionTypes
<1>4. \A g \in Flights \ {f} : InFlight(g) => refresh[g].token \in InUse'
  BY <1>1, <1>2, HeldTokensLater
<1>5. cookie' \in InUse'
  BY HeldTokensLater
<1>6. refresh'[f].phase = "none"
  BY <1>1 DEF NoCall
<1>7. QED
  BY <1>1, <1>2, <1>3, <1>4, <1>5, <1>6

LEMMA RefreshedStep ==
    ASSUME SessionInv, NEW f \in Flights, refreshAccessToken(f)
    PROVE  SessionInv'
<1> USE DEF SessionInv
<1>1. /\ f # "boot" /\ f \in Queries /\ refresh[f].phase \in {"ok", "401", "error"}
      /\ refresh' = [refresh EXCEPT ![f] = NoCall]
      /\ overtaken' = overtaken \ {f} /\ UNCHANGED <<boot, leaving>>
      /\ valid' = valid \cap InUse'
  BY DEF refreshAccessToken, Ended, Accepts, Flights
<1>2. InFlight(f) /\ \A q \in Queries \ {f} : ~InFlight(q)
  BY <1>1, FlightIs DEF Shared
<1>3. /\ refresh' \in [Flights -> FlightRows] /\ ~InFlight(f)' /\ refresh'[f].phase = "none"
      /\ \A g \in Flights \ {f} : refresh'[g] = refresh[g] /\ (InFlight(g)' <=> InFlight(g))
      /\ valid' \subseteq Tokens
      /\ cookie' \in valid => cookie' \in valid'
      /\ \A g \in Flights \ {f} :
            InFlight(g) /\ refresh[g].token \in valid => refresh[g].token \in valid'
  BY <1>1, FlightEnds
<1>4. \A q \in Queries : ~InFlight(q)' /\ refresh'[q].phase = "none"
  BY <1>2, <1>3, FlightIs DEF Flights
<1>5. "boot" \in Flights \ {f} /\ (InFlight("boot") => "boot" \in overtaken /\ "boot" \in overtaken')
  BY <1>1, <1>2 DEF Alone, Flights
<1>6. /\ \A q \in Queries : req'[q] \in ReqRows /\ req'[q].phase # "held"
      /\ refresh[f].phase # "ok" => \A q \in Queries : req'[q] # NoReq => req[q] # NoReq
      /\ DOMAIN req' = Queries
  <2>1. ASSUME NEW q \in Queries
        PROVE  /\ req'[q] \in ReqRows /\ req'[q].phase # "held"
               /\ refresh[f].phase # "ok" => (req'[q] # NoReq => req[q] # NoReq)
    <3>1. req[q] \in ReqRows
      BY DEF SessionTypes
    <3>2. CASE req[q].phase # "held"
      BY <3>1, <3>2 DEF refreshAccessToken
    <3>3. CASE req[q].phase = "held"
      <4>1. req[q].fails \in Nat
        BY <3>1, <3>3 DEF ReqRows, NoReq
      <4>2. \/ refresh[f].phase = "ok" /\ req'[q] = Sent(TRUE, TRUE, req[q].fails)
            \/ req'[q] = NoReq
        BY <3>3 DEF refreshAccessToken
      <4>3. Sent(TRUE, TRUE, req[q].fails) \in ReqRows /\ Sent(TRUE, TRUE, req[q].fails).phase = "sent"
        BY <4>1 DEF ReqRows, Sent
      <4>4. NoReq \in ReqRows /\ NoReq.phase = "idle"
        BY DEF ReqRows, NoReq
      <4>5. QED
        BY <4>2, <4>3, <4>4
    <3>4. QED
      BY <3>2, <3>3
  <2>2. DOMAIN req' = Queries
    BY DEF refreshAccessToken
  <2>3. QED
    BY <2>1, <2>2
<1>7. req' \in [Queries -> ReqRows]
  <2>1. req' = [q \in Queries |-> req'[q]]
    BY DEF refreshAccessToken
  <2>2. QED
    BY <1>6, <2>1
<1>8. HeldIsRefreshed' /\ Shared' /\ Told'
  BY <1>1, <1>3, <1>4, <1>5, <1>6 DEF HeldIsRefreshed, Shared, Told
<1>9. Alone'
  BY <1>3, <1>5 DEF Alone
<1>10. \A g \in Flights : refresh'[g].phase = "ok" => g = "boot" /\ g # f /\ refresh[g].phase = "ok"
  BY <1>3, <1>4 DEF Flights
<1>11. CASE refresh[f].phase = "ok"
  <2>1. /\ cookie' = refresh[f].token /\ access' = "live" /\ UNCHANGED <<user, thrown>>
    BY <1>11 DEF refreshAccessToken, setAccessToken
  <2>2. /\ cookie' \in valid /\ cookie' \in Tokens
        /\ \A g \in Flights \ {f} : InFlight(g) => refresh[g].token # cookie'
    BY <1>11, <2>1 DEF Fresh, SessionTypes
  <2>3. SessionTypes' /\ SessionKept'
    BY <1>3, <1>7, <2>1, <2>2 DEF SessionTypes, SessionKept
  <2>4. Fresh'
    <3> SUFFICES ASSUME NEW g \in Flights, refresh'[g].phase = "ok"
                 PROVE  /\ refresh'[g].token \in valid' \ {cookie'}
                        /\ \A h \in Flights \ {g} : InFlight(h)' => refresh'[h].token # refresh'[g].token
      BY DEF Fresh
    <3>1. g # f /\ refresh[g].phase = "ok" /\ InFlight(g) /\ refresh'[g] = refresh[g]
      BY <1>3, <1>10, FlightIs
    <3>2. /\ refresh[g].token \in valid
          /\ \A h \in Flights \ {g} : InFlight(h) => refresh[h].token # refresh[g].token
      BY <3>1 DEF Fresh
    <3>3. QED
      BY <1>3, <2>2, <3>1, <3>2
  <2>5. Overtaken'
    BY <1>3, <1>4, <1>5, <2>1, <2>2 DEF Overtaken
  <2>6. QED
    BY <1>8, <1>9, <2>3, <2>4, <2>5
<1>12. CASE refresh[f].phase # "ok"
  <2>1. UNCHANGED cookie /\ user' = FALSE /\ access' = "none" /\ Dropped(f)
    BY <1>12 DEF refreshAccessToken, clearSession
  <2>2. SessionTypes'
    BY <1>3, <1>7, <2>1 DEF SessionTypes
  <2>3. SessionKept'
    BY <1>1, <2>1 DEF SessionKept, Dropped, Told
  <2>4. Fresh'
    <3> SUFFICES ASSUME NEW g \in Flights, refresh'[g].phase = "ok"
                 PROVE  /\ refresh'[g].token \in valid' \ {cookie'}
                        /\ \A h \in Flights \ {g} : InFlight(h)' => refresh'[h].token # refresh'[g].token
      BY DEF Fresh
    <3>1. g # f /\ refresh[g].phase = "ok" /\ InFlight(g) /\ refresh'[g] = refresh[g]
      BY <1>3, <1>10, FlightIs
    <3>2. /\ refresh[g].token \in valid \ {cookie}
          /\ \A h \in Flights \ {g} : InFlight(h) => refresh[h].token # refresh[g].token
      BY <3>1 DEF Fresh
    <3>3. QED
      BY <1>3, <2>1, <3>1, <3>2
  <2>5. Overtaken'
    <3> SUFFICES ASSUME InFlight("boot"), "boot" \in overtaken PROVE Overtaken'
      BY <1>3, <1>5 DEF Overtaken
    <3>1. \A q \in Queries : refresh[q].phase # "ok"
      BY <1>2, <1>12, FlightIs DEF Flights
    <3>2. user' \/ (\E r \in Queries : req'[r] # NoReq) => cookie' \in valid'
      BY <1>3, <1>6, <1>12, <2>1, <3>1 DEF Overtaken
    <3>3. cookie' \in {None} \cup (Tokens \ {refresh'["boot"].token})
      BY <1>3, <1>5, <2>1 DEF Overtaken
    <3>4. QED
      BY <1>4, <3>2, <3>3 DEF Overtaken
  <2>6. QED
    BY <1>8, <1>9, <2>2, <2>3, <2>4, <2>5
<1>13. QED
  BY <1>11, <1>12

LEMMA BootRefreshedStep ==
    ASSUME SessionInv, BootRefreshed
    PROVE  SessionInv'
<1> USE DEF SessionInv
<1>1. /\ "boot" \in Flights /\ refresh["boot"].phase \in {"ok", "401", "error"}
      /\ refresh' = [refresh EXCEPT !["boot"] = NoCall]
      /\ overtaken' = overtaken \ {"boot"} /\ UNCHANGED <<req, leaving>>
      /\ valid' = valid \cap InUse'
  BY DEF BootRefreshed, Ended, Accepts, Flights
<1>2. InFlight("boot")
  BY <1>1, FlightIs
<1>3. /\ refresh' \in [Flights -> FlightRows] /\ ~InFlight("boot")' /\ refresh'["boot"].phase = "none"
      /\ \A g \in Flights \ {"boot"} : refresh'[g] = refresh[g] /\ (InFlight(g)' <=> InFlight(g))
      /\ valid' \subseteq Tokens
      /\ cookie' \in valid => cookie' \in valid'
      /\ \A g \in Flights \ {"boot"} :
            InFlight(g) /\ refresh[g].token \in valid => refresh[g].token \in valid'
  BY <1>1, FlightEnds
<1>4. \A q \in Queries : q \in Flights \ {"boot"} /\ refresh'[q] = refresh[q]
                         /\ (InFlight(q)' <=> InFlight(q))
  BY <1>3, ClientSessionAssumption DEF Flights
<1>5. HeldIsRefreshed' /\ Shared'
  BY <1>1, <1>3, <1>4 DEF HeldIsRefreshed, NoneRefreshing, Shared
<1>6. Alone' /\ Overtaken'
  BY <1>3 DEF Alone, Overtaken
<1>7. Told'
  <2> SUFFICES ASSUME NEW q \in Queries \ overtaken
               PROVE  /\ refresh[q].phase = "sent" => refresh[q].token \in valid'
                      /\ refresh[q].phase # "401"
    BY <1>1, <1>4 DEF Told
  <2>1. /\ refresh[q].phase = "sent" => refresh[q].token \in valid
        /\ refresh[q].phase # "401"
    BY <1>2 DEF Told
  <2>2. QED
    BY <1>3, <1>4, <2>1, FlightIs
<1>8. \A g \in Flights : refresh'[g].phase = "ok" =>
          g # "boot" /\ refresh[g].phase = "ok" /\ InFlight(g) /\ refresh'[g] = refresh[g]
  BY <1>3, FlightIs
<1>9. \A g \in Flights : refresh[g].phase = "ok" =>
          /\ refresh[g].token \in valid \ {cookie}
          /\ \A h \in Flights \ {g} : InFlight(h) => refresh[h].token # refresh[g].token
  BY DEF Fresh
<1>10. \A g \in Flights : refresh'[g].phase = "ok" =>
          /\ refresh'[g].token \in valid'
          /\ \A h \in Flights \ {g} : InFlight(h)' => refresh'[h].token # refresh'[g].token
  BY <1>3, <1>8, <1>9
<1>11. CASE refresh["boot"].phase = "ok"
  <2>1. cookie' = refresh["boot"].token /\ access' = "live" /\ UNCHANGED <<user, thrown>>
    BY <1>11 DEF BootRefreshed, setAccessToken
  <2>2. SessionTypes' /\ SessionKept'
    BY <1>1, <1>3, <1>9, <1>11, <2>1 DEF SessionTypes, SessionKept
  <2>3. Fresh'
    BY <1>1, <1>8, <1>9, <1>10, <1>11, <2>1 DEF Fresh
  <2>4. QED
    BY <1>5, <1>6, <1>7, <2>2, <2>3
<1>12. CASE refresh["boot"].phase # "ok"
  <2>1. UNCHANGED cookie /\ access' = "none" /\ Dropped("boot")
    BY <1>12 DEF BootRefreshed, clearSession
  <2>2. SessionTypes'
    BY <1>1, <1>3, <2>1 DEF SessionTypes
  <2>3. SessionKept'
    BY <1>2, <2>1 DEF SessionKept, Dropped, Alone
  <2>4. Fresh'
    BY <1>8, <1>9, <1>10, <2>1 DEF Fresh
  <2>5. QED
    BY <1>5, <1>6, <1>7, <2>2, <2>3, <2>4
<1>13. QED
  BY <1>11, <1>12

LEMMA BootEndsStep ==
    ASSUME SessionInv, BootEnds
    PROVE  SessionInv'
<1>1. /\ UNCHANGED <<valid, cookie, refresh, req, leaving, overtaken, thrown>>
      /\ access' \in {"live", "none"} /\ boot = "me"
  BY DEF BootEnds, histVars, setSession, clearSession
<1>2. ~InFlight("boot") /\ ~InFlight("boot")'
  BY <1>1 DEF SessionInv, Shared, InFlight
<1>3. SessionTypes' /\ HeldIsRefreshed' /\ Shared' /\ SessionKept'
  BY <1>1, <1>2 DEF SessionInv, SessionTypes, HeldIsRefreshed, NoneRefreshing, Shared,
                    SessionKept, InFlight
<1>4. Fresh' /\ Told'
  BY <1>1 DEF SessionInv, Fresh, Told, InFlight
<1>5. Alone' /\ Overtaken'
  BY <1>2 DEF Alone, Overtaken
<1>6. QED
  BY <1>3, <1>4, <1>5 DEF SessionInv

(* A request that is refused waits for the refresh, or starts it with the  *)
(* cookie.                                                                 *)
LEMMA HoldStep ==
    ASSUME SessionInv, NEW r \in Queries, req[r].phase = "sent", Hold(r, NoneRefreshing),
           UNCHANGED <<valid, cookie, user, access, boot, leaving, thrown, overtaken>>
    PROVE  SessionInv'
<1> USE DEF SessionInv
<1>1. req[r] # NoReq /\ req' = [req EXCEPT ![r].phase = "held"] /\ r \in Flights /\ r # "boot"
  BY RequestIs, ClientSessionAssumption DEF Hold, Flights
<1>2. /\ req' \in [Queries -> ReqRows]
      /\ \A q \in Queries : req'[q] # NoReq => req[q] # NoReq
  <2>1. [req[r] EXCEPT !.phase = "held"] \in ReqRows
    BY <1>1, RequestIs DEF ReqRows
  <2>2. QED
    BY <1>1, <2>1 DEF SessionTypes
<1>3. ~(InFlight("boot") /\ "boot" \notin overtaken)
  BY <1>1 DEF Alone
<1>4. CASE ~NoneRefreshing
  <2>1. UNCHANGED refresh
    BY <1>4 DEF Hold
  <2>2. SessionTypes' /\ HeldIsRefreshed' /\ Shared' /\ SessionKept'
    BY <1>2, <1>4, <2>1 DEF SessionTypes, HeldIsRefreshed, NoneRefreshing, Shared, SessionKept,
                            InFlight
  <2>3. Fresh' /\ Told' /\ Alone'
    BY <1>3, <2>1 DEF Fresh, Told, Alone, InFlight
  <2>4. Overtaken'
    BY <1>2, <2>1 DEF Overtaken, InFlight
  <2>5. QED
    BY <2>2, <2>3, <2>4
<1>5. CASE NoneRefreshing
  <2>1. refresh' = [refresh EXCEPT ![r] = [phase |-> "sent", token |-> cookie]]
    BY <1>5 DEF Hold
  <2>2. /\ refresh' \in [Flights -> FlightRows]
        /\ refresh'[r] = [phase |-> "sent", token |-> cookie]
        /\ \A g \in Flights \ {r} : refresh'[g] = refresh[g]
    BY <1>1, <2>1 DEF SessionTypes, FlightRows
  <2>3. /\ InFlight(r)' /\ ~InFlight(r)
        /\ \A g \in Flights \ {r} : InFlight(g)' <=> InFlight(g)
        /\ \A q \in Queries : ~InFlight(q) /\ refresh[q].phase = "none"
    BY <1>1, <1>5, <2>2 DEF InFlight, NoneRefreshing, NoCall
  <2>4. \A q \in Queries \ {r} : ~InFlight(q)' /\ refresh'[q].phase = "none"
    BY <2>2, <2>3 DEF Flights
  <2>5. SessionTypes' /\ SessionKept'
    BY <1>2, <2>2 DEF SessionTypes, SessionKept
  <2>6. HeldIsRefreshed' /\ Shared'
    BY <1>1, <2>3, <2>4 DEF HeldIsRefreshed, NoneRefreshing, Shared, InFlight, Flights
  <2>7. Fresh'
    <3> SUFFICES ASSUME NEW g \in Flights, refresh'[g].phase = "ok"
                 PROVE  /\ refresh'[g].token \in valid \ {cookie}
                        /\ \A h \in Flights \ {g} : InFlight(h)' => refresh'[h].token # refresh'[g].token
      BY DEF Fresh
    <3>1. g # r /\ refresh'[g] = refresh[g]
      BY <2>2
    <3>2. /\ refresh[g].token \in valid \ {cookie}
          /\ \A h \in Flights \ {g} : InFlight(h) => refresh[h].token # refresh[g].token
      BY <3>1 DEF Fresh
    <3>3. QED
      BY <2>2, <2>3, <3>1, <3>2
  <2>8. Alone'
    BY <1>1, <1>3, <2>3 DEF Alone, Flights
  <2>9. InFlight("boot") => /\ cookie \in valid
                            /\ cookie \in {None} \cup (Tokens \ {refresh["boot"].token})
    BY <1>1, <1>3, <2>3 DEF Overtaken
  <2>10. Overtaken'
    <3> SUFFICES ASSUME InFlight("boot") PROVE Overtaken'
      BY <1>1, <2>3 DEF Overtaken, Flights
    <3>1. "boot" \in Flights \ {r}
      BY <1>1 DEF Flights
    <3>2. QED
      BY <2>2, <2>4, <2>9, <3>1 DEF Overtaken
  <2>11. Told'
    BY <1>1, <2>2, <2>3, <2>4, <2>9 DEF Told, Flights
  <2>12. QED
    BY <2>5, <2>6, <2>7, <2>8, <2>10, <2>11
<1>6. QED
  BY <1>4, <1>5

LEMMA UnauthorizedStep ==
    ASSUME SessionInv, NEW r \in Queries, Unauthorized(r)
    PROVE  SessionInv'
<1>1. /\ req[r].phase = "sent"
      /\ UNCHANGED <<valid, cookie, user, access, boot, leaving, thrown, overtaken>>
  BY DEF Unauthorized, storeVars, histVars
<1>2. CASE Hold(r, NoneRefreshing)
  BY <1>1, <1>2, HoldStep
<1>3. CASE req' = [req EXCEPT ![r] = NoReq] /\ UNCHANGED refresh
  <2>1. NoReq \in ReqRows /\ NoReq.phase = "idle"
    BY DEF ReqRows, NoReq
  <2>2. /\ req' \in [Queries -> ReqRows]
        /\ \A q \in Queries : /\ req'[q].phase = "held" => req[q].phase = "held"
                              /\ req'[q] # NoReq => req[q] # NoReq
    BY <1>3, <2>1 DEF SessionInv, SessionTypes
  <2>3. access' \in {"none", "live", "dead"}
    BY <1>1 DEF SessionInv, SessionTypes
  <2>4. QED
    BY <1>1, <1>3, <2>2, <2>3, PagesKeep
<1>4. QED
  BY <1>2, <1>3 DEF Unauthorized

(* Who signs in gets a token of his own.                                   *)
LEMMA SignInStep ==
    ASSUME SessionInv, finishLogin
    PROVE  SessionInv'
<1> USE DEF SessionInv
<1> DEFINE new == Issued
<1>1. /\ UNCHANGED <<refresh, req, boot, leaving, thrown>>
      /\ cookie' = new /\ access' = "live"
      /\ overtaken' = {f \in Flights : refresh[f] # NoCall}
      /\ valid' = (valid \cup {new}) \cap InUse'
  BY DEF finishLogin, setSession, Accepts
<1>2. /\ new \in Tokens /\ new # None
      /\ \A g \in Flights : InFlight(g) => refresh[g].token # new
  BY IssuedIsNew
<1> HIDE DEF new
<1>3. \A f \in Flights : /\ InFlight(f)' <=> InFlight(f)
                         /\ InFlight(f) => f \in overtaken'
                         /\ refresh'[f] = refresh[f]
  BY <1>1 DEF InFlight
<1>4. /\ valid' \subseteq Tokens /\ new \in valid'
      /\ \A g \in Flights : InFlight(g) /\ refresh[g].token \in valid => refresh[g].token \in valid'
  BY <1>1, <1>2, <1>3, HeldTokensLater DEF SessionTypes
<1>5. SessionTypes' /\ SessionKept' /\ HeldIsRefreshed' /\ Shared'
  BY <1>1, <1>2, <1>4 DEF SessionTypes, SessionKept, HeldIsRefreshed, NoneRefreshing, Shared,
                          InFlight
<1>6. Fresh'
  BY <1>1, <1>2, <1>3, <1>4, FlightIs DEF Fresh
<1>7. Alone'
  BY <1>3 DEF Alone, Flights
<1>8. Overtaken'
  <2> SUFFICES ASSUME InFlight("boot") PROVE Overtaken'
    BY <1>3 DEF Overtaken, Flights
  <2>1. "boot" \in Flights
    BY DEF Flights
  <2>2. \A q \in Queries : InFlight(q) =>
            refresh[q].token \in {None} \cup (Tokens \ {refresh["boot"].token})
    BY DEF Alone, Overtaken
  <2>3. cookie' \in {None} \cup (Tokens \ {refresh["boot"].token})
    BY <1>1, <1>2, <2>1
  <2>4. QED
    BY <1>1, <1>3, <1>4, <2>1, <2>2, <2>3 DEF Overtaken, Flights
<1>9. Told'
  BY <1>3, FlightIs DEF Told, Flights
<1>10. QED
  BY <1>5, <1>6, <1>7, <1>8, <1>9

LEMMA SignOutStep ==
    ASSUME SessionInv, LogoutSettled
    PROVE  SessionInv'
<1> USE DEF SessionInv
<1>1. /\ UNCHANGED <<refresh, boot, thrown>> /\ leaving # NoCall
      /\ cookie' \in {None, cookie} /\ user' = FALSE /\ access' = "none"
      /\ req' = [r \in Queries |-> NoReq]
      /\ overtaken' = {f \in Flights : refresh[f] # NoCall}
      /\ \/ valid' = (valid \ {cookie}) \cap InUse'
         \/ valid' = valid \cap InUse'
  BY DEF LogoutSettled, clearSession, Accepts
<1>2. \A f \in Flights : /\ InFlight(f)' <=> InFlight(f)
                         /\ InFlight(f) => f \in overtaken'
                         /\ refresh'[f] = refresh[f]
  BY <1>1 DEF InFlight
<1>3. /\ valid' \subseteq Tokens
      /\ \A g \in Flights : InFlight(g) /\ refresh[g].token \in valid \ {cookie} =>
            refresh[g].token \in valid' \ {cookie'}
  BY <1>1, <1>2, HeldTokensLater, ClientSessionAssumption DEF SessionTypes
<1>4. req' \in [Queries -> ReqRows] /\ \A q \in Queries : req'[q] = NoReq /\ req'[q].phase = "idle"
  BY <1>1 DEF ReqRows, NoReq
<1>5. SessionTypes' /\ SessionKept' /\ HeldIsRefreshed' /\ Shared'
  BY <1>1, <1>3, <1>4 DEF SessionTypes, SessionKept, HeldIsRefreshed, Shared, InFlight
<1>6. Fresh'
  BY <1>2, <1>3, FlightIs DEF Fresh
<1>7. Alone'
  BY <1>2 DEF Alone, Flights
<1>8. Overtaken'
  BY <1>1, <1>2, <1>4 DEF Alone, Overtaken, Flights
<1>9. Told'
  BY <1>2, FlightIs DEF Told, Flights
<1>10. QED
  BY <1>5, <1>6, <1>7, <1>8, <1>9

LEMMA ReloadStep ==
    ASSUME SessionInv, Reload
    PROVE  SessionInv'
<1> USE DEF SessionInv
<1>1. /\ UNCHANGED <<cookie, thrown>>
      /\ user' = FALSE /\ access' = "none" /\ boot' = "refresh" /\ leaving' = NoCall
      /\ req' = [r \in Queries |-> NoReq]
      /\ refresh' = [f \in Flights |-> IF f = "boot" THEN [phase |-> "sent", token |-> cookie]
                                        ELSE NoCall]
      /\ overtaken' = {} /\ valid' = valid \cap InUse'
  BY DEF Reload, Accepts
<1>2. /\ \A q \in Queries : refresh'[q] = NoCall /\ refresh'[q].phase = "none" /\ ~InFlight(q)'
      /\ refresh'["boot"] = [phase |-> "sent", token |-> cookie]
  BY <1>1, ClientSessionAssumption DEF Flights, InFlight, NoCall
<1>3. \A f \in Flights : refresh'[f] \in FlightRows /\ refresh'[f].phase \notin {"ok", "401"}
  BY <1>2 DEF Flights, FlightRows, SessionTypes
<1>4. refresh' \in [Flights -> FlightRows]
  BY <1>1, <1>3
<1>5. req' \in [Queries -> ReqRows] /\ \A q \in Queries : req'[q] = NoReq /\ req'[q].phase = "idle"
  BY <1>1 DEF ReqRows, NoReq
<1>6. SessionTypes' /\ SessionKept' /\ HeldIsRefreshed' /\ Shared'
  BY <1>1, <1>2, <1>4, <1>5 DEF SessionTypes, SessionKept, HeldIsRefreshed, Shared
<1>7. Fresh' /\ Overtaken' /\ Told'
  BY <1>1, <1>2, <1>3 DEF Fresh, Overtaken, Told
<1>8. Alone'
  BY <1>1, <1>2, <1>5 DEF Alone
<1>9. QED
  BY <1>6, <1>7, <1>8

LEMMA SessionStep == SessionInv /\ [Next]_vars => SessionInv'
<1> SUFFICES ASSUME SessionInv, [Next]_vars PROVE SessionInv'
  OBVIOUS
<1>1. CASE UNCHANGED vars
  <2>1. UNCHANGED <<user, access, cookie, valid, refresh, boot, overtaken, thrown, req, leaving>>
    BY <1>1 DEF vars, storeVars, histVars
  <2>2. access \in {"none", "live", "dead"} /\ req \in [Queries -> ReqRows]
    BY DEF SessionInv, SessionTypes
  <2>3. QED
    BY <2>1, <2>2, PagesKeep
<1>2. ASSUME NEW f \in Flights, RefreshView(f) \/ RefreshFails(f) PROVE SessionInv'
  BY <1>2, RotationStep, RefusalStep
<1>3. ASSUME NEW f \in Flights, refreshAccessToken(f) PROVE SessionInv'
  BY <1>3, RefreshedStep
<1>4. ASSUME NEW r \in Queries, Answer(r) \/ Unauthorized(r) \/ RequestFails(r) PROVE SessionInv'
  BY <1>4, RequestStep, UnauthorizedStep
<1>5. CASE BootRefreshed \/ BootEnds
  BY <1>5, BootRefreshedStep, BootEndsStep
<1>6. CASE finishLogin \/ LogoutSettled \/ Reload
  BY <1>6, SignInStep, SignOutStep, ReloadStep
<1>7. CASE LoginRefused \/ Challenged
  BY <1>7, QuietSteps
<1>8. CASE Calls
  BY <1>2, <1>3, <1>4, <1>5, <1>6, <1>7, <1>8 DEF Calls
<1>9. ASSUME NEW q \in Queries, RunQuery(q) PROVE SessionInv'
  BY <1>9, RequestStep
<1>10. CASE \/ SubmitLogin \/ TwoFactorChallenge \/ Logout
            \/ FollowLink \/ CompleteOnboarding \/ Redirect
  BY <1>10, QuietSteps
<1>11. CASE Person
  BY <1>6, <1>9, <1>10, <1>11 DEF Person
<1>12. CASE Expire
  BY <1>12, ExpireStep
<1>13. QED
  BY <1>1, <1>8, <1>10, <1>11, <1>12 DEF Next

LEMMA SessionAlways == Spec => []SessionInv
BY SessionAtFirst, SessionStep, PTL DEF Spec

(* A tab never signs its user out while the cookie of the browser is good: *)
(* refreshAccessToken and bootstrap() call clearSession over a 401 only    *)
(* when no other refresh of the tab has replaced the token it answers.     *)
THEOREM SessionsAreKept == Spec => []SessionKept
<1>1. SessionInv => SessionKept
  BY DEF SessionInv
<1>2. QED
  BY <1>1, SessionAlways, PTL

(* No request waits for a refresh that has ended: refreshPromise is taken  *)
(* away only together with the requests that wait for it.                  *)
THEOREM HeldAreRefreshed == Spec => []HeldIsRefreshed
<1>1. SessionInv => HeldIsRefreshed
  BY DEF SessionInv
<1>2. QED
  BY <1>1, SessionAlways, PTL
=============================================================================
