--------------------------- MODULE ClientSession ---------------------------
(***************************************************************************)
(* The session of one browser tab: frontend/src/api/client.ts (bearer,     *)
(* refresh once, retry once), stores/authStore.ts, AuthBootstrap.tsx, the  *)
(* sign-in pages, hooks/useAuth.ts and the guards of routes/, against      *)
(* Login-, Refresh- and LogoutView of backend/accounts/views.py.           *)
(*                                                                         *)
(* The access token lives in the store and runs out after minutes; the     *)
(* refresh token lives in a cookie all tabs share and is good for one use  *)
(* (rotation with a blacklist).  A call is sent in one step and served and *)
(* answered in later ones, so that answers interleave.                     *)
(*                                                                         *)
(* One person uses the browser; an identifier of a refresh token is used   *)
(* again once nobody holds it.                                             *)
(***************************************************************************)
EXTENDS Integers, FiniteSets

CONSTANTS
    Roles,      \* roles of the person at the browser
    Enrolled,   \* he signs in with a second factor
    Tokens,     \* refresh tokens in use at once
    Queries,    \* queries a page runs
    None,       \* no token, no page to return to
    MaxEvents   \* bound: failed calls (network or 5xx), logouts and reloads

ASSUME ClientSessionAssumption ==
    /\ Enrolled \in BOOLEAN
    /\ None \notin Tokens
    /\ \A a, b, c \in Tokens \cup {None} : Tokens \ {a, b, c} # {}
    /\ "boot" \notin Queries
    /\ MaxEvents \in Nat

VARIABLES
    onboarded, \* assistant profile: onboarding_completed
    valid,     \* refresh tokens the server accepts
    cookie,    \* refresh token of the browser
    user,      \* authStore.user is set
    access,    \* authStore.accessToken
    hydrating, \* authStore.isHydrating
    boot,      \* where bootstrap() is
    refresh,   \* refresh calls: bootstrap()'s, and refreshPromise
    req,       \* requests through apiClient: /me and the queries
    form,      \* the sign-in form
    leaving,   \* the logout mutation
    page,      \* the route
    from,      \* location.state.from
    events,    \* failed calls, logouts and reloads so far
    thrown,    \* history: a session was dropped over a 401 while the cookie was good
    overtaken  \* history: refreshes under way when the person signed in or out

storeVars == <<user, access, hydrating>>
navVars   == <<page, from>>
histVars  == <<thrown, overtaken>>
vars == <<onboarded, valid, cookie, storeVars, boot, refresh, req, form, leaving,
          navVars, events, histVars>>

-----------------------------------------------------------------------------
(* The route table, one page for those of a role that are alike: who may   *)
(* open what, and where a route sends its visitor.                         *)
Public == {"/", "/login"}

RoutesOf ==
    [creator   |-> {"/assistant", "/videos"},
     admin     |-> {"/admin-dashboard", "/admin/videos", "/admin/moderation",
                    "/admin/finance"},
     support   |-> {"/admin/videos"},
     moderator |-> {"/admin/moderation"},
     finance   |-> {"/admin/finance"}]

Pages == Public \cup {"/dashboard", "/creator/me", "/creator/other"}
            \cup UNION {RoutesOf[r] : r \in DOMAIN RoutesOf}

(* RoleRoute shows the forbidden screen for anything else. *)
MayOpen(p) ==
    p \in Public \cup {"/dashboard", "/creator/me", "/creator/other"}
             \cup UNION {RoutesOf[r] : r \in Roles}

homePath(roles) ==
    CASE "admin" \in roles     -> "/admin-dashboard"
      [] "creator" \in roles   -> "/creator/me"
      [] "support" \in roles   -> "/admin/videos"
      [] "moderator" \in roles -> "/admin/moderation"
      [] "finance" \in roles   -> "/admin/finance"
      [] OTHER                 -> "/"

Authenticated == user /\ access # "none"

(* ProtectedRoute (the loading screen while hydrating, else the login      *)
(* page), CreatorHomeRoute, and HomeRedirect of App.tsx.                   *)
SentToLogin(p) == p \notin Public /\ ~hydrating /\ ~Authenticated

CreatorHome(p, roles) ==
    IF p = "/creator/me" /\ "creator" \in roles
    THEN IF onboarded THEN p ELSE "/assistant"
    ELSE IF p \in {"/dashboard", "/creator/me", "/creator/other"} THEN homePath(roles) ELSE p

Redirected(p, roles) ==
    IF SentToLogin(p) THEN "/login"
    ELSE IF Authenticated /\ ~hydrating THEN CreatorHome(p, roles) ELSE p

(* The links of the sidebar, by navConfig.ts. *)
AdminNav(r) == RoutesOf[r] \ {"/admin-dashboard"}
NavItems ==
    (IF "creator" \in Roles THEN RoutesOf["creator"] \cup {"/creator/me"} ELSE {})
        \cup (IF "admin" \in Roles THEN {"/admin-dashboard"} ELSE {})
        \cup UNION {AdminNav(r) : r \in Roles \ {"creator"}}

-----------------------------------------------------------------------------
NoCall == [phase |-> "none"]
NoReq == [phase |-> "idle"]
Flights == Queries \cup {"boot"}
Ended(f) == refresh[f].phase \in {"ok", "401", "error"}
InUse == {cookie} \cup {refresh[f].token : f \in {g \in Flights : refresh[g] # NoCall}}

Issued == CHOOSE t \in Tokens : t \notin InUse

(* The tokens the server accepts, those nobody holds any more left out.    *)
Accepts(ts) == valid' = ts \cap InUse'

(* A request starts without its answer; retried is axios' _retried, fails  *)
(* the failureCount of the query.                                          *)
Sent(live, retried, fails) ==
    [phase |-> "sent", live |-> live, retried |-> retried, fails |-> fails]

Booting ==
    /\ user = FALSE /\ access = "none" /\ hydrating = TRUE
    /\ boot = "refresh"
    /\ req = [r \in Queries |-> NoReq]
    /\ form = NoCall
    /\ leaving = NoCall

Init ==
    /\ onboarded = FALSE
    /\ cookie \in {None, CHOOSE t \in Tokens : TRUE}
    /\ valid = {cookie} \ {None}
    /\ Booting
    /\ refresh = [f \in Flights |-> IF f = "boot" THEN [phase |-> "sent", token |-> cookie]
                                    ELSE NoCall]
    /\ page \in {"/login", "/dashboard", "/creator/other"} /\ from = None
    /\ events = 0
    /\ thrown = FALSE /\ overtaken = {}

-----------------------------------------------------------------------------
(* authStore.                                                              *)
setSession(live) == user' = TRUE /\ access' = live /\ hydrating' = FALSE
setAccessToken == access' = "live" /\ UNCHANGED <<user, hydrating>>

clearSession == user' = FALSE /\ access' = "none" /\ hydrating' = FALSE

(* The token runs out, for the calls that carry it as well. *)
Expire ==
    /\ access = "live"
    /\ access' = "dead"
    /\ req' = [q \in Queries |-> IF req[q].phase = "sent" THEN [req[q] EXCEPT !.live = FALSE]
                               ELSE req[q]]
    /\ leaving' = IF leaving = NoCall THEN NoCall ELSE [leaving EXCEPT !.live = FALSE]
    /\ UNCHANGED <<onboarded, valid, cookie, user, hydrating, boot, refresh,
                   form, navVars, events, histVars>>

-----------------------------------------------------------------------------
(* POST /auth/refresh.  The server takes the token out of use and answers  *)
(* with a new one, or answers 401; the call may fail otherwise.            *)
RefreshView(f) ==
    /\ refresh[f].phase = "sent"
    /\ UNCHANGED <<onboarded, cookie, storeVars, boot, req, form, leaving,
                   navVars, events, histVars>>
    /\ LET old == refresh[f].token
       IN  IF old \in valid
           THEN /\ refresh' = [refresh EXCEPT ![f] = [phase |-> "ok", token |-> Issued]]
                /\ Accepts((valid \ {old}) \cup {Issued})
           ELSE /\ refresh' = [refresh EXCEPT ![f].phase = "401"]
                /\ UNCHANGED valid

RefreshFails(f) ==
    /\ refresh[f].phase = "sent"
    /\ events < MaxEvents
    /\ events' = events + 1
    /\ refresh' = [refresh EXCEPT ![f].phase = "error"]
    /\ UNCHANGED <<onboarded, valid, cookie, storeVars, boot, req, form, leaving,
                   navVars, histVars>>

(* The session is dropped, for a 401 although the browser has a good token *)
(* and has not signed in or out meanwhile.                                 *)
Dropped(f) ==
    thrown' = (thrown \/ (refresh[f].phase = "401" /\ cookie \in valid /\ f \notin overtaken))

(* The single flight refresh of client.ts ends: every request that waited  *)
(* for it is sent again with the new token, or rejected.                   *)

(* Mutant of refreshAccessToken: only the request that asked first is sent *)
(* again.                                                                  *)
refreshForOne(f) ==
    /\ f # "boot" /\ Ended(f)
    /\ IF refresh[f].phase = "ok"
       THEN /\ cookie' = refresh[f].token
            /\ setAccessToken
            /\ req' = [req EXCEPT ![f] = Sent(TRUE, TRUE, 0)]
       ELSE clearSession /\ req' = [req EXCEPT ![f] = NoReq] /\ UNCHANGED cookie
    /\ refresh' = [refresh EXCEPT ![f] = NoCall]
    /\ UNCHANGED <<onboarded, boot, form, leaving, navVars, events, histVars>>
    /\ Accepts(valid)

refreshAccessToken(f) ==
    /\ f # "boot" /\ Ended(f)
    /\ IF refresh[f].phase = "ok"
       THEN /\ cookie' = refresh[f].token
            /\ setAccessToken
            /\ req' = [r \in Queries |-> IF req[r].phase # "held" THEN req[r]
                                          ELSE Sent(TRUE, TRUE, req[r].fails)]
            /\ UNCHANGED thrown
       ELSE /\ clearSession
            /\ req' = [r \in Queries |-> IF req[r].phase # "held" THEN req[r] ELSE NoReq]
            /\ Dropped(f)
            /\ UNCHANGED cookie
    /\ refresh' = [refresh EXCEPT ![f] = NoCall]
    /\ overtaken' = overtaken \ {f}
    /\ UNCHANGED <<onboarded, boot, form, leaving, navVars, events>>
    /\ Accepts(valid)

(* bootstrap(): refresh, then /me, then the session; whatever fails ends   *)
(* without one.                                                            *)
BootRefreshed ==
    /\ boot = "refresh" /\ Ended("boot")
    /\ IF refresh["boot"].phase = "ok"
       THEN /\ cookie' = refresh["boot"].token
            /\ setAccessToken
            /\ boot' = "me"
            /\ UNCHANGED thrown
       ELSE /\ clearSession
            /\ boot' = "done"
            /\ Dropped("boot")
            /\ UNCHANGED cookie
    /\ refresh' = [refresh EXCEPT !["boot"] = NoCall]
    /\ overtaken' = overtaken \ {"boot"}
    /\ UNCHANGED <<onboarded, req, form, leaving, navVars, events>>
    /\ Accepts(valid)

BootEnds ==
    /\ boot = "me"
    /\ boot' = "done"
    /\ \/ setSession("live") /\ UNCHANGED events
       \/ /\ events < MaxEvents /\ events' = events + 1
          /\ clearSession
    /\ UNCHANGED <<onboarded, valid, cookie, refresh, req, form, leaving, navVars, histVars>>

-----------------------------------------------------------------------------
(* Queries of a page, through the interceptors of apiClient.  What a query *)
(* brings is drawn and the query is idle again.                            *)
RunQuery(q) ==
    /\ page \notin Public /\ Authenticated /\ MayOpen(page)
    /\ req[q] = NoReq
    /\ req' = [req EXCEPT ![q] = Sent(access = "live", FALSE, 0)]
    /\ UNCHANGED <<onboarded, valid, cookie, storeVars, boot, refresh, form,
                   leaving, navVars, events, histVars>>

Answer(r) ==
    /\ req[r].phase = "sent" /\ req[r].live
    /\ req' = [req EXCEPT ![r] = NoReq]
    /\ UNCHANGED <<onboarded, valid, cookie, storeVars, boot, refresh, form,
                   leaving, navVars, events, histVars>>

(* 401: the first time the request waits for the one refresh of the tab,   *)
(* which is started if none is under way; the second time it is rejected,  *)
(* and react-query does not repeat a 4xx.                                  *)
NoneRefreshing == \A r \in Queries : refresh[r] = NoCall

(* Mutant of Hold: every request refreshes for itself. *)
HoldAlone(r, starts) ==
    /\ req' = [req EXCEPT ![r].phase = "held"]
    /\ refresh' = [refresh EXCEPT ![r] = [phase |-> "sent", token |-> cookie]]

Hold(r, starts) ==
    /\ req' = [req EXCEPT ![r].phase = "held"]
    /\ refresh' = IF starts THEN [refresh EXCEPT ![r] = [phase |-> "sent", token |-> cookie]]
                  ELSE refresh

(* Mutant of Unauthorized: _retried is not looked at. *)
UnauthorizedAgain(r) ==
    /\ req[r].phase = "sent" /\ ~req[r].live
    /\ Hold(r, NoneRefreshing)
    /\ UNCHANGED <<onboarded, valid, cookie, storeVars, boot, form, leaving,
                   navVars, events, histVars>>

Unauthorized(r) ==
    /\ req[r].phase = "sent" /\ ~req[r].live
    /\ \/ ~req[r].retried /\ Hold(r, NoneRefreshing)
       \/ req[r].retried /\ req' = [req EXCEPT ![r] = NoReq] /\ UNCHANGED refresh
    /\ UNCHANGED <<onboarded, valid, cookie, storeVars, boot, form, leaving,
                   navVars, events, histVars>>

(* Network errors and 5xx: a query is repeated twice.                      *)
RequestFails(r) ==
    /\ req[r].phase = "sent"
    /\ events < MaxEvents
    /\ events' = events + 1
    /\ req' = [req EXCEPT ![r] =
                  IF req[r].fails < 2 /\ Authenticated
                  THEN Sent(access = "live", FALSE, req[r].fails + 1)
                  ELSE NoReq]
    /\ UNCHANGED <<onboarded, valid, cookie, storeVars, boot, refresh, form,
                   leaving, navVars, histVars>>

-----------------------------------------------------------------------------
(* Signing in: password, Google, and the second factor.  An access token   *)
(* that has run out goes along and is refused before the password is read. *)
SubmitLogin ==
    /\ page = "/login"
    /\ form = NoCall
    /\ form' = [phase |-> "password", live |-> access # "dead"]
    /\ UNCHANGED <<onboarded, valid, cookie, storeVars, boot, refresh, req,
                   leaving, navVars, events, histVars>>

LoginRefused ==
    /\ form.phase \in {"password", "code"}
    /\ form' = IF form.phase = "code" THEN [phase |-> "challenge"] ELSE NoCall
    /\ UNCHANGED <<onboarded, valid, cookie, storeVars, boot, refresh, req,
                   leaving, navVars, events, histVars>>

Challenged ==
    /\ form.phase = "password" /\ form.live
    /\ Enrolled
    /\ form' = [phase |-> "challenge"]
    /\ UNCHANGED <<onboarded, valid, cookie, storeVars, boot, refresh, req,
                   leaving, navVars, events, histVars>>

TwoFactorChallenge ==
    /\ form.phase = "challenge"
    /\ form' = [phase |-> "code", live |-> access # "dead"]
    /\ UNCHANGED <<onboarded, valid, cookie, storeVars, boot, refresh, req,
                   leaving, navVars, events, histVars>>

finishLogin ==
    /\ form.phase \in {"password", "code"} /\ form.live
    /\ form.phase = "password" => ~Enrolled
    /\ cookie' = Issued
    /\ setSession("live")
    /\ form' = NoCall
    /\ page' = IF from # None THEN from ELSE homePath(Roles)
    /\ from' = None
    /\ overtaken' = {f \in Flights : refresh[f] # NoCall}
    /\ UNCHANGED <<onboarded, boot, refresh, req, leaving, events, thrown>>
    /\ Accepts(valid \cup {Issued})

(* POST /auth/logout with the token of the store; a 401 on an /auth/ path  *)
(* is not refreshed, and onSettled forgets the session either way.         *)
Logout ==
    /\ page \notin Public /\ Authenticated
    /\ leaving = NoCall
    /\ events < MaxEvents
    /\ events' = events + 1
    /\ leaving' = [phase |-> "sent", live |-> access = "live"]
    /\ UNCHANGED <<onboarded, valid, cookie, storeVars, boot, refresh, req, form,
                   navVars, histVars>>

LogoutSettled ==
    /\ leaving # NoCall
    /\ IF leaving.live
       THEN cookie' = None
       ELSE UNCHANGED cookie
    /\ clearSession
    /\ req' = [r \in Queries |-> NoReq]
    /\ leaving' = NoCall
    /\ page' = "/login" /\ from' = None
    /\ overtaken' = {f \in Flights : refresh[f] # NoCall}
    /\ UNCHANGED <<onboarded, boot, refresh, form, events, thrown>>
    /\ Accepts(IF leaving.live THEN valid \ {cookie} ELSE valid)

-----------------------------------------------------------------------------
(* Moving about.                                                           *)
FollowLink ==
    /\ page' \in (IF page \in Public THEN {"/login", "/dashboard"}
                  ELSE IF Authenticated THEN NavItems ELSE {}) \ {page}
    /\ form' = NoCall
    /\ UNCHANGED <<onboarded, valid, cookie, storeVars, boot, refresh, req,
                   leaving, from, events, histVars>>

Redirect ==
    /\ page' = Redirected(page, Roles) /\ page' # page
    /\ from' = IF SentToLogin(page) THEN page ELSE from
    /\ UNCHANGED <<onboarded, valid, cookie, storeVars, boot, refresh, req, form,
                   leaving, events, histVars>>

CompleteOnboarding ==
    /\ page = "/assistant" /\ Authenticated /\ access = "live"
    /\ "creator" \in Roles
    /\ onboarded' = TRUE
    /\ UNCHANGED <<valid, cookie, storeVars, boot, refresh, req, form,
                   leaving, navVars, events, histVars>>

(* The page is loaded again: what the calls in flight bring reaches nobody.*)
Reload ==
    /\ events < MaxEvents
    /\ events' = events + 1
    /\ user' = FALSE /\ access' = "none" /\ hydrating' = TRUE
    /\ boot' = "refresh"
    /\ req' = [r \in Queries |-> NoReq]
    /\ form' = NoCall
    /\ leaving' = NoCall
    /\ from' = None
    /\ refresh' = [f \in Flights |-> IF f = "boot" THEN [phase |-> "sent", token |-> cookie]
                                     ELSE NoCall]
    /\ overtaken' = {}
    /\ UNCHANGED <<onboarded, cookie, page, thrown>>
    /\ Accepts(valid)

-----------------------------------------------------------------------------
Calls ==
    \/ \E f \in Flights : RefreshView(f) \/ RefreshFails(f) \/ refreshAccessToken(f)
    \/ \E r \in Queries : Answer(r) \/ Unauthorized(r) \/ RequestFails(r)
    \/ BootRefreshed \/ BootEnds
    \/ LoginRefused \/ Challenged \/ finishLogin \/ LogoutSettled

Person ==
    \/ \E q \in Queries : RunQuery(q)
    \/ SubmitLogin \/ TwoFactorChallenge \/ Logout
    \/ FollowLink \/ CompleteOnboarding \/ Reload

Next == Calls \/ Person \/ Redirect \/ Expire

Spec == Init /\ [][Next]_vars

(* Every call ends, answered or failed, and what waits for it runs; the    *)
(* router follows a redirect when it renders.                              *)
Fairness ==
    /\ \A f \in Flights : WF_vars(RefreshView(f)) /\ WF_vars(refreshAccessToken(f))
    /\ \A r \in Queries : WF_vars(Answer(r) \/ Unauthorized(r))
    /\ WF_vars(BootRefreshed) /\ WF_vars(BootEnds)
    /\ WF_vars(Redirect)

FairSpec == Spec /\ Fairness

-----------------------------------------------------------------------------
(* A tab never signs its user out over a refresh token it has replaced     *)
(* itself: requests that meet a 401 together share one refresh, and the    *)
(* bootstrap has ended before there are any (refreshAccessToken).          *)
SessionKept == ~thrown

(* A request waits for a refresh only while one is under way, so it is     *)
(* never left hanging by one that ended (the finally of refreshPromise).   *)
HeldIsRefreshed ==
    (\E r \in Queries : req[r].phase = "held") => ~NoneRefreshing

(* A query that was sent ends: refreshing and repeating do not go on       *)
(* forever, even when every new token runs out at once.  The queries are   *)
(* alike; one stands for all.                                              *)
QuerySettles ==
    LET q == CHOOSE q \in Queries : TRUE
    IN  req[q] # NoReq ~> req[q] = NoReq
=============================================================================
