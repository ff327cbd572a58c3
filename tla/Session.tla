------------------------------ MODULE Session ------------------------------
(***************************************************************************)
(* How the frontend's tabs stay signed in (lib/auth.ts, root-layout.tsx,   *)
(* bluhands-login.tsx) with the control plane's refresh tokens             *)
(* (auth_service.py, routes/auth.py).  A browser has one cookie with the   *)
(* refresh token; each tab has an access token of its own in memory and    *)
(* shares one refresh among its callers, but nothing with other tabs.      *)
(* Refreshing takes a token out of use and puts its successor into the     *)
(* cookie.  One user, one browser; tabs stay open.                         *)
(***************************************************************************)
EXTENDS Naturals

CONSTANTS
    Tabs,
    MaxTokens   \* bound on the refresh tokens issued

ASSUME SessionAssumption == MaxTokens \in Nat

VARIABLES
    issued,     \* how many refresh tokens there have been
    cookie,     \* the refresh token in the browser's cookie
    revoked,    \* the blocklist
    orphaned,   \* revoked tokens whose successor, or whose removal, got lost
    tab         \* what each tab shows, holds and waits for

sessionVars == <<issued, cookie, revoked, orphaned, tab>>

(* Tokens are numbered as they are issued.                                 *)
Tokens == 1 .. MaxTokens
NoToken == 0

(* refresh: refreshInFlight.  sent: the request has left with the token    *)
(* presented.  passed: the server has found it good.  ok: it was replaced  *)
(* by successor, and the answer is on its way.  leaving: what became of    *)
(* the tab's logout request, while its answer is on its way.               *)
TabStates == [page : {"closed", "app", "login"},
              access : {"none", "fresh", "stale"},
              refresh : {"idle", "sent", "passed", "ok", "refused"},
              presented : Tokens \cup {NoToken},
              successor : Tokens \cup {NoToken},
              leaving : {"no", "done", "denied"}]

ClosedTab == [page |-> "closed", access |-> "none", refresh |-> "idle",
              presented |-> NoToken, successor |-> NoToken, leaving |-> "no"]

SessionInit ==
    /\ issued = 0
    /\ cookie = NoToken
    /\ revoked = {}
    /\ orphaned = {}
    /\ tab = [t \in Tabs |-> ClosedTab]

(* refresh(): a caller joins the request in flight, or sends the cookie.   *)
Refreshing(entry, jar) ==
    IF entry.refresh = "idle"
    THEN [entry EXCEPT !.refresh = "sent", !.presented = jar]
    ELSE entry

(* The login page, and the layout of all others, call restoreSession when  *)
(* they are mounted.                                                       *)
Showing(entry, page, jar) ==
    IF entry.page = page THEN entry ELSE Refreshing([entry EXCEPT !.page = page], jar)

Answered(entry) ==
    [entry EXCEPT !.refresh = "idle", !.presented = NoToken, !.successor = NoToken]

OpenTab(t) ==
    /\ tab[t].page = "closed"
    /\ tab' = [tab EXCEPT ![t] = Showing(@, "app", cookie)]
    /\ UNCHANGED <<issued, cookie, revoked, orphaned>>

ExpireAccess(t) ==
    /\ tab[t].access = "fresh"
    /\ tab' = [tab EXCEPT ![t].access = "stale"]
    /\ UNCHANGED <<issued, cookie, revoked, orphaned>>

(* getAccessToken, or the retry after a 401.                               *)
NeedAccess(t) ==
    /\ tab[t].page = "app"
    /\ tab[t].access = "stale"
    /\ tab[t].refresh = "idle"
    /\ tab' = [tab EXCEPT ![t] = Refreshing(@, cookie)]
    /\ UNCHANGED <<issued, cookie, revoked, orphaned>>

(***************************************************************************)
(* POST /auth/refresh                                                      *)
(***************************************************************************)
CheckToken(t) ==
    /\ tab[t].refresh = "sent"
    /\ tab' = [tab EXCEPT ![t].refresh =
                 IF tab[t].presented \in Tokens \ revoked THEN "passed" ELSE "refused"]
    /\ UNCHANGED <<issued, cookie, revoked, orphaned>>

(* A new token, while the bound allows one.                                *)
Issue == issued < MaxTokens /\ issued' = issued + 1

(* Mutation: the new token is revoked in place of the old one.             *)
RotateWrongToken(t) ==
    /\ tab[t].refresh = "passed"
    /\ Issue
    /\ tab' = [tab EXCEPT ![t].refresh = "ok", ![t].successor = issued']
    /\ revoked' = revoked \cup {issued'}
    /\ UNCHANGED <<cookie, orphaned>>

(* Two requests with one token that both passed are both served.           *)
RotateToken(t) ==
    /\ tab[t].refresh = "passed"
    /\ Issue
    /\ tab' = [tab EXCEPT ![t].refresh = "ok", ![t].successor = issued']
    /\ revoked' = revoked \cup {tab[t].presented}
    /\ UNCHANGED <<cookie, orphaned>>

(* A server or a connection that fails at any point of the request.  The   *)
(* token may be revoked by then.                                           *)
LoseRefresh(t) ==
    /\ tab[t].refresh \in {"sent", "passed", "ok"}
    /\ tab' = [tab EXCEPT ![t].refresh = "refused", ![t].successor = NoToken]
    /\ \/ tab[t].refresh # "ok" /\ UNCHANGED <<revoked, orphaned>>
       \/ /\ tab[t].refresh # "sent"
          /\ revoked' = revoked \cup {tab[t].presented}
          /\ orphaned' = orphaned \cup {tab[t].presented}
    /\ UNCHANGED <<issued, cookie>>

(* The browser takes the cookie, setSession the access token; the login    *)
(* page turns to the application.                                          *)
TakeRefresh(t) ==
    /\ tab[t].refresh = "ok"
    /\ cookie' = tab[t].successor
    /\ tab' = [tab EXCEPT ![t] =
                 Showing([Answered(@) EXCEPT !.access = "fresh"], "app", tab[t].successor)]
    /\ UNCHANGED <<issued, revoked, orphaned>>

(* clearSession, even if the user has signed in since; the application     *)
(* turns to the login page.                                                *)
TakeRefusal(t) ==
    /\ tab[t].refresh = "refused"
    /\ tab' = [tab EXCEPT ![t] =
                 Showing([Answered(@) EXCEPT !.access = "none"], "login", cookie)]
    /\ UNCHANGED <<issued, cookie, revoked, orphaned>>

(***************************************************************************)
(* Signing in and out                                                      *)
(***************************************************************************)
(* login or register, answered: a new pair, and the application.           *)
SignIn(t) ==
    /\ tab[t].page = "login"
    /\ Issue
    /\ cookie' = issued'
    /\ tab' = [tab EXCEPT ![t] = Showing([@ EXCEPT !.access = "fresh"], "app", issued')]
    /\ UNCHANGED <<revoked, orphaned>>

(* POST /auth/logout as the server runs it; it wants an access token that  *)
(* is still good.                                                          *)
SignOut(t) ==
    /\ tab[t].page = "app"
    /\ tab[t].access # "none"
    /\ tab[t].leaving = "no"
    /\ \/ /\ tab[t].access = "fresh"
          /\ tab' = [tab EXCEPT ![t].leaving = "done"]
          /\ revoked' = revoked \cup {cookie}
       \/ /\ tab[t].access = "stale"
          /\ tab' = [tab EXCEPT ![t].leaving = "denied"]
          /\ UNCHANGED revoked
    /\ UNCHANGED <<issued, cookie, orphaned>>

(* The cookie is deleted if the server said so and was heard; the tab is   *)
(* signed out in any case.                                                 *)
TakeSignOut(t) ==
    /\ tab[t].leaving # "no"
    /\ \E heard \in BOOLEAN :
        /\ cookie' = IF heard /\ tab[t].leaving = "done" THEN NoToken ELSE cookie
        /\ orphaned' = IF heard THEN orphaned ELSE orphaned \cup (revoked \cap {cookie})
    /\ tab' = [tab EXCEPT ![t] =
                 Showing([@ EXCEPT !.access = "none", !.leaving = "no"], "login", cookie')]
    /\ UNCHANGED <<issued, revoked>>

SessionNext ==
    \E t \in Tabs :
        \/ OpenTab(t) \/ ExpireAccess(t) \/ NeedAccess(t)
        \/ CheckToken(t) \/ RotateToken(t) \/ LoseRefresh(t)
        \/ TakeRefresh(t) \/ TakeRefusal(t)
        \/ SignIn(t) \/ SignOut(t) \/ TakeSignOut(t)

SessionSpec == SessionInit /\ [][SessionNext]_sessionVars

(***************************************************************************)
(* Properties                                                              *)
(***************************************************************************)
(* The values of the variables.                                            *)
SessionTypeOK ==
    /\ issued \in 0 .. MaxTokens
    /\ cookie \in Tokens \cup {NoToken}
    /\ revoked \subseteq Tokens \cup {NoToken}
    /\ orphaned \subseteq revoked
    /\ tab \in [Tabs -> TabStates]

(* However the tabs' refreshes, sign-ins and sign-outs interleave, the     *)
(* cookie can be used, unless the answer that replaces or deletes it is on *)
(* its way or was lost: no tab overwrites a good cookie with a used one.   *)
CookieUsable ==
    cookie \in (Tokens \cap revoked) \ orphaned =>
        \E t \in Tabs : \/ tab[t].refresh = "ok" /\ tab[t].presented = cookie
                        \/ tab[t].leaving = "done"
=============================================================================
