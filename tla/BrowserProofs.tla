---------------------------- MODULE BrowserProofs ----------------------------
(***************************************************************************)
(* What a browser keeps: the sign-in of any number of tabs, however many   *)
(* tokens are issued; the onboarding wizard, whatever the bound on late    *)
(* answers; and the chat's drafts, for any set of conversations and any    *)
(* number of messages being sent.                                          *)
(***************************************************************************)
EXTENDS Session, Wizard, Drafts, TLAPS

(***************************************************************************)
(* The sign-in                                                             *)
(***************************************************************************)
OnItsWay(t) == tab[t].refresh = "ok"

(* No token is held that was not issued.                                   *)
HeldAreIssued ==
    /\ cookie =< issued
    /\ \A r \in revoked : r =< issued
    /\ \A t \in Tabs : tab[t].presented =< issued /\ tab[t].successor =< issued

(* A new token on its way to the browser has not been used by anybody.     *)
SuccessorsAreNew ==
    \A t \in Tabs : OnItsWay(t) =>
        /\ tab[t].successor # NoToken
        /\ tab[t].successor \notin revoked
        /\ tab[t].successor # cookie
        /\ \A u \in Tabs : tab[u].presented # tab[t].successor
        /\ \A u \in Tabs \ {t} : OnItsWay(u) => tab[u].successor # tab[t].successor

SessionInvariant ==
    SessionTypeOK /\ HeldAreIssued /\ SuccessorsAreNew /\ CookieUsable

(* What showing a page does to a tab: nothing to a refresh in flight; an   *)
(* idle tab may send the cookie.                                           *)
LEMMA ShowingSends ==
    ASSUME NEW entry \in TabStates, NEW page \in {"app", "login"},
           NEW jar \in Tokens \cup {NoToken}
    PROVE  LET after == Showing(entry, page, jar) IN
           /\ after \in TabStates
           /\ after.successor = entry.successor
           /\ after.leaving = entry.leaving
           /\ \/ after.refresh = entry.refresh /\ after.presented = entry.presented
              \/ entry.refresh = "idle" /\ after.refresh = "sent" /\ after.presented = jar
BY DEF Showing, Refreshing, TabStates

(* The same of a caller that wants an access token.                        *)
LEMMA RefreshingSends ==
    ASSUME NEW entry \in TabStates, NEW jar \in Tokens \cup {NoToken}
    PROVE  LET sent == Refreshing(entry, jar) IN
           /\ sent \in TabStates
           /\ sent.successor = entry.successor
           /\ sent.leaving = entry.leaving
           /\ \/ sent.refresh = entry.refresh /\ sent.presented = entry.presented
              \/ entry.refresh = "idle" /\ sent.refresh = "sent" /\ sent.presented = jar
BY DEF Refreshing, TabStates

(* Nothing is issued and nothing held at first.                            *)
LEMMA SessionInitially == SessionInit => SessionInvariant
BY SessionAssumption
   DEF SessionInit, SessionInvariant, SessionTypeOK, HeldAreIssued, SuccessorsAreNew,
       CookieUsable, OnItsWay, ClosedTab, TabStates, Tokens, NoToken

(* A step of one tab that leaves tokens and cookie alone, and of the tab   *)
(* everything but a refresh it may send, keeps the invariant.              *)
LEMMA QuietStep ==
    ASSUME SessionInvariant, NEW t \in Tabs, NEW entry \in TabStates,
           tab' = [tab EXCEPT ![t] = entry],
           UNCHANGED <<issued, cookie, revoked, orphaned>>,
           entry.leaving = tab[t].leaving,
           entry.refresh = "ok" <=> tab[t].refresh = "ok",
           entry.successor \in {tab[t].successor, NoToken},
           entry.presented \in {tab[t].presented, cookie, NoToken},
           entry.refresh = "ok" => /\ entry.successor = tab[t].successor
                                   /\ entry.presented = tab[t].presented
    PROVE  SessionInvariant'
<1> USE DEF SessionInvariant, SessionTypeOK
<1>1. SessionTypeOK'
  OBVIOUS
<1>2. \A u \in Tabs : tab'[u] = IF u = t THEN entry ELSE tab[u]
  OBVIOUS
<1>3. HeldAreIssued'
  BY <1>2 DEF HeldAreIssued, NoToken
<1>4. SuccessorsAreNew'
  <2> SUFFICES ASSUME NEW v \in Tabs, OnItsWay(v)'
               PROVE  /\ tab'[v].successor # NoToken
                      /\ tab'[v].successor \notin revoked
                      /\ tab'[v].successor # cookie
                      /\ \A u \in Tabs : tab'[u].presented # tab'[v].successor
                      /\ \A u \in Tabs \ {v} :
                            OnItsWay(u)' => tab'[u].successor # tab'[v].successor
    BY DEF SuccessorsAreNew
  <2>. QED  BY <1>2 DEF SuccessorsAreNew, OnItsWay
<1>5. CookieUsable'
  BY <1>2 DEF CookieUsable
<1>. QED  BY <1>1, <1>3, <1>4, <1>5
(* A refresh that is answered by the server's new token.                   *)
LEMMA RotateKeeps ==
    ASSUME SessionInvariant, NEW t \in Tabs, RotateToken(t)
    PROVE  SessionInvariant'
<1> USE DEF SessionInvariant, SessionTypeOK
<1>1. issued' \in Tokens /\ issued' = issued + 1
  BY SessionAssumption DEF RotateToken, Issue, Tokens
<1>2. \A u \in Tabs :
        tab'[u] = IF u = t THEN [tab[t] EXCEPT !.refresh = "ok", !.successor = issued']
                           ELSE tab[u]
  BY DEF RotateToken
<1>3. SessionTypeOK'
  <2>1. /\ tab[t] \in TabStates
        /\ [tab[t] EXCEPT !.refresh = "ok", !.successor = issued'] \in TabStates
    BY <1>1 DEF TabStates
  <2>2. tab' \in [Tabs -> TabStates]
    BY <2>1 DEF RotateToken
  <2>3. tab[t].presented \in Tokens \cup {NoToken}
    BY <2>1 DEF TabStates
  <2>. QED  BY <1>1, <2>2, <2>3 DEF RotateToken, Tokens
<1>4. /\ tab[t] \in TabStates /\ tab'[t].presented = tab[t].presented
      /\ tab'[t].successor = issued' /\ tab'[t].leaving = tab[t].leaving
      /\ tab'[t].refresh = "ok"
  BY <1>2 DEF TabStates
<1>5. cookie' = cookie /\ revoked' = revoked \cup {tab[t].presented} /\ orphaned' = orphaned
  BY DEF RotateToken
<1>6. HeldAreIssued'
  BY <1>1, <1>2, <1>4, <1>5 DEF HeldAreIssued, TabStates, Tokens, NoToken
<1>7. SuccessorsAreNew'
  <2>1. \A u \in Tabs : /\ tab[u].presented # issued' /\ tab[u].successor # issued'
                        /\ cookie # issued' /\ issued' \notin revoked
                        /\ issued' # NoToken
    BY <1>1 DEF HeldAreIssued, TabStates, Tokens, NoToken
  <2>. QED  BY <1>1, <1>2, <1>4, <1>5, <2>1 DEF SuccessorsAreNew, OnItsWay
<1>8. CookieUsable'
  BY <1>2, <1>4, <1>5 DEF CookieUsable
<1>. QED  BY <1>3, <1>6, <1>7, <1>8

(* A request that failed after its token was revoked.                      *)
LEMMA LoseKeeps ==
    ASSUME SessionInvariant, NEW t \in Tabs, LoseRefresh(t)
    PROVE  SessionInvariant'
<1> USE DEF SessionInvariant, SessionTypeOK
<1> DEFINE entry == [tab[t] EXCEPT !.refresh = "refused", !.successor = NoToken]
<1>1. /\ tab' = [tab EXCEPT ![t] = entry] /\ UNCHANGED <<issued, cookie>>
      /\ tab[t] \in TabStates /\ entry \in TabStates
      /\ entry.refresh = "refused" /\ entry.successor = NoToken
      /\ entry.presented = tab[t].presented /\ entry.leaving = tab[t].leaving
  BY DEF LoseRefresh, TabStates
<1> HIDE DEF entry
<1>2. CASE tab[t].refresh # "ok" /\ UNCHANGED <<revoked, orphaned>>
  BY <1>1, <1>2, QuietStep
<1>3. CASE /\ revoked' = revoked \cup {tab[t].presented}
           /\ orphaned' = orphaned \cup {tab[t].presented}
  <2>1. \A u \in Tabs : tab'[u] = IF u = t THEN entry ELSE tab[u]
    BY <1>1
  <2>2. SessionTypeOK'
    BY <1>1, <1>3 DEF TabStates
  <2>3. HeldAreIssued'
    BY <1>1, <1>3, <2>1 DEF HeldAreIssued, NoToken, TabStates, Tokens
  <2>4. SuccessorsAreNew'
    BY <1>1, <1>3, <2>1 DEF SuccessorsAreNew, OnItsWay
  <2>5. CookieUsable'
    BY <1>1, <1>3, <2>1 DEF CookieUsable
  <2>. QED  BY <2>2, <2>3, <2>4, <2>5
<1>. QED  BY <1>2, <1>3 DEF LoseRefresh

(* The browser takes a new token: one that was on its way, or one of a     *)
(* sign-in.  It is neither revoked nor on its way to any other tab.        *)
LEMMA NewCookieKeeps ==
    ASSUME SessionInvariant, NEW t \in Tabs, NEW entry \in TabStates,
           tab' = [tab EXCEPT ![t] = entry],
           UNCHANGED <<revoked, orphaned>>,
           issued' \in 0 .. MaxTokens, issued' >= issued,
           cookie' \in Tokens, cookie' =< issued', cookie' \notin revoked,
           \A u \in Tabs \ {t} : OnItsWay(u) => tab[u].successor # cookie',
           entry.presented \in {tab[t].presented, cookie', NoToken},
           entry.successor \in {tab[t].successor, NoToken},
           entry.refresh = "ok" => /\ OnItsWay(t)
                                   /\ entry.successor = tab[t].successor
                                   /\ entry.successor # cookie'
                                   /\ entry.presented = tab[t].presented
    PROVE  SessionInvariant'
<1> USE DEF SessionInvariant, SessionTypeOK
<1>1. \A u \in Tabs : tab'[u] = IF u = t THEN entry ELSE tab[u]
  OBVIOUS
<1>2. SessionTypeOK'
  OBVIOUS
<1>3. HeldAreIssued'
  BY <1>1 DEF HeldAreIssued, NoToken, TabStates, Tokens
<1>4. SuccessorsAreNew'
  BY <1>1 DEF SuccessorsAreNew, OnItsWay
<1>5. CookieUsable'
  BY DEF CookieUsable
<1>. QED  BY <1>2, <1>3, <1>4, <1>5
(* The server takes the cookie's token out of use, and the answer that     *)
(* deletes the cookie is on its way.                                       *)
LEMMA SignOutKeeps ==
    ASSUME SessionInvariant, NEW t \in Tabs, SignOut(t)
    PROVE  SessionInvariant'
<1> USE DEF SessionInvariant, SessionTypeOK
<1>1. CASE tab[t].access = "stale"
  <2> DEFINE entry == [tab[t] EXCEPT !.leaving = "denied"]
  <2>1. /\ tab' = [tab EXCEPT ![t] = entry]
        /\ UNCHANGED <<issued, cookie, revoked, orphaned>>
        /\ entry \in TabStates
        /\ entry.refresh = tab[t].refresh /\ entry.successor = tab[t].successor
        /\ entry.presented = tab[t].presented
    BY <1>1 DEF SignOut, TabStates
  <2>2. \A u \in Tabs : tab'[u] = IF u = t THEN entry ELSE tab[u]
    BY <2>1
  <2>3. tab[t].leaving = "no"
    BY DEF SignOut
  <2> HIDE DEF entry
  <2>4. SessionTypeOK' /\ HeldAreIssued'
    BY <2>1, <2>2 DEF HeldAreIssued
  <2>5. SuccessorsAreNew'
    BY <2>1, <2>2 DEF SuccessorsAreNew, OnItsWay
  <2>6. CookieUsable'
    BY <2>1, <2>2, <2>3 DEF CookieUsable
  <2>. QED  BY <2>4, <2>5, <2>6
<1>2. CASE tab[t].access = "fresh"
  <2> DEFINE entry == [tab[t] EXCEPT !.leaving = "done"]
  <2>1. /\ tab' = [tab EXCEPT ![t] = entry] /\ revoked' = revoked \cup {cookie}
        /\ UNCHANGED <<issued, cookie, orphaned>>
        /\ entry \in TabStates /\ entry.leaving = "done"
        /\ entry.refresh = tab[t].refresh /\ entry.successor = tab[t].successor
        /\ entry.presented = tab[t].presented
    BY <1>2 DEF SignOut, TabStates
  <2>2. \A u \in Tabs : tab'[u] = IF u = t THEN entry ELSE tab[u]
    BY <2>1
  <2> HIDE DEF entry
  <2>4. SessionTypeOK' /\ HeldAreIssued'
    BY <2>1, <2>2 DEF HeldAreIssued
  <2>5. SuccessorsAreNew'
    BY <2>1, <2>2 DEF SuccessorsAreNew, OnItsWay
  <2>6. CookieUsable'
    BY <2>1, <2>2 DEF CookieUsable
  <2>. QED  BY <2>4, <2>5, <2>6
<1>. QED  BY <1>1, <1>2 DEF SignOut

(* The answer to a sign-out deletes the cookie, or leaves a revoked one    *)
(* behind that is then known as orphaned.                                  *)
LEMMA TakeSignOutKeeps ==
    ASSUME SessionInvariant, NEW t \in Tabs, TakeSignOut(t)
    PROVE  SessionInvariant'
<1> USE DEF SessionInvariant, SessionTypeOK
<1> DEFINE left == [tab[t] EXCEPT !.access = "none", !.leaving = "no"]
           entry == Showing(left, "login", cookie')
<1>1. PICK heard \in BOOLEAN :
        /\ cookie' = IF heard /\ tab[t].leaving = "done" THEN NoToken ELSE cookie
        /\ orphaned' = IF heard THEN orphaned ELSE orphaned \cup (revoked \cap {cookie})
  BY DEF TakeSignOut
<1>2. tab' = [tab EXCEPT ![t] = entry] /\ UNCHANGED <<issued, revoked>>
  BY DEF TakeSignOut
<1>3. /\ left \in TabStates /\ left.successor = tab[t].successor
      /\ left.refresh = tab[t].refresh /\ left.presented = tab[t].presented
  BY DEF TabStates
<1>4. cookie' \in {cookie, NoToken}
  BY <1>1
<1>5. /\ entry \in TabStates /\ entry.successor = tab[t].successor
      /\ \/ entry.refresh = tab[t].refresh /\ entry.presented = tab[t].presented
         \/ /\ tab[t].refresh = "idle" /\ entry.refresh = "sent"
            /\ entry.presented = cookie'
  <2> HIDE DEF left
  <2>. QED  BY <1>3, <1>4, ShowingSends
<1> HIDE DEF entry, left
<1>6. \A u \in Tabs : tab'[u] = IF u = t THEN entry ELSE tab[u]
  BY <1>2
<1>7. SessionTypeOK'
  BY <1>1, <1>2, <1>4, <1>5
<1>8. HeldAreIssued'
  BY <1>2, <1>4, <1>5, <1>6 DEF HeldAreIssued, NoToken
<1>9. SuccessorsAreNew'
  BY <1>2, <1>4, <1>5, <1>6 DEF SuccessorsAreNew, OnItsWay
<1>10. CookieUsable'
  <2>1. CASE ~heard
    BY <1>1, <1>2, <2>1 DEF CookieUsable
  <2>2. CASE heard /\ tab[t].leaving = "done"
    BY <1>1, <2>2 DEF CookieUsable, Tokens, NoToken
  <2>3. CASE heard /\ tab[t].leaving # "done"
    BY <1>1, <1>2, <1>5, <1>6, <2>3 DEF CookieUsable
  <2>. QED  BY <2>1, <2>2, <2>3
<1>. QED  BY <1>7, <1>8, <1>9, <1>10

(* An answer with a new token.                                             *)
LEMMA TakeRefreshKeeps ==
    ASSUME SessionInvariant, NEW t \in Tabs, TakeRefresh(t)
    PROVE  SessionInvariant'
<1> USE DEF SessionInvariant, SessionTypeOK
<1> DEFINE taken == [Answered(tab[t]) EXCEPT !.access = "fresh"]
           entry == Showing(taken, "app", cookie')
<1>1. /\ OnItsWay(t) /\ cookie' = tab[t].successor /\ UNCHANGED <<issued, revoked, orphaned>>
      /\ tab' = [tab EXCEPT ![t] = entry]
  BY DEF TakeRefresh, OnItsWay
<1>2. /\ tab[t] \in TabStates /\ taken \in TabStates /\ taken.successor = NoToken
      /\ taken.refresh = "idle" /\ taken.presented = NoToken
  BY DEF TabStates, Answered
<1>3. cookie' \in Tokens /\ cookie' =< issued' /\ cookie' \notin revoked
  BY <1>1, <1>2 DEF SuccessorsAreNew, HeldAreIssued, TabStates, NoToken
<1>4. /\ entry \in TabStates /\ entry.successor = NoToken /\ entry.refresh # "ok"
      /\ entry.presented \in {cookie', NoToken}
  <2> HIDE DEF taken
  <2>1. /\ entry \in TabStates
        /\ entry.successor = taken.successor
        /\ \/ entry.refresh = taken.refresh /\ entry.presented = taken.presented
           \/ entry.refresh = "sent" /\ entry.presented = cookie'
    <3>1. taken \in TabStates /\ cookie' \in Tokens \cup {NoToken}
      BY <1>2, <1>3
    <3>. QED  BY ONLY <3>1, ShowingSends
  <2>. QED  BY <1>2, <2>1
<1> HIDE DEF entry, taken
<1>5. \A u \in Tabs \ {t} : OnItsWay(u) => tab[u].successor # cookie'
  BY <1>1 DEF SuccessorsAreNew
<1>6. issued' \in 0 .. MaxTokens /\ issued' >= issued
  BY <1>1
<1>. QED  BY <1>1, <1>3, <1>4, <1>5, <1>6, NewCookieKeeps

(* A sign-in.                                                              *)
LEMMA SignInKeeps ==
    ASSUME SessionInvariant, NEW t \in Tabs, SignIn(t)
    PROVE  SessionInvariant'
<1> USE DEF SessionInvariant, SessionTypeOK
<1> DEFINE signed == [tab[t] EXCEPT !.access = "fresh"]
           entry == Showing(signed, "app", cookie')
<1>1. /\ issued' = issued + 1 /\ cookie' = issued' /\ UNCHANGED <<revoked, orphaned>>
      /\ tab' = [tab EXCEPT ![t] = entry] /\ issued' \in Tokens /\ issued' \in 0 .. MaxTokens
  BY SessionAssumption DEF SignIn, Issue, Tokens
<1>2. /\ tab[t] \in TabStates /\ signed \in TabStates
      /\ signed.successor = tab[t].successor
      /\ signed.refresh = tab[t].refresh /\ signed.presented = tab[t].presented
  BY DEF TabStates
<1>3. /\ cookie' \notin revoked /\ cookie' =< issued' /\ issued' >= issued
      /\ \A u \in Tabs : tab[u].successor # cookie'
  BY <1>1 DEF HeldAreIssued, TabStates, Tokens, NoToken
<1>4. /\ entry \in TabStates /\ entry.successor = tab[t].successor
      /\ \/ entry.refresh = tab[t].refresh /\ entry.presented = tab[t].presented
         \/ entry.refresh = "sent" /\ entry.presented = cookie'
  <2> HIDE DEF signed
  <2>1. /\ entry \in TabStates
        /\ entry.successor = signed.successor
        /\ \/ entry.refresh = signed.refresh /\ entry.presented = signed.presented
           \/ entry.refresh = "sent" /\ entry.presented = cookie'
    <3>1. signed \in TabStates /\ cookie' \in Tokens \cup {NoToken}
      BY <1>1, <1>2
    <3>. QED  BY ONLY <3>1, ShowingSends
  <2>. QED  BY <1>2, <2>1
<1> HIDE DEF entry, signed
<1>5. entry.refresh = "ok" => /\ OnItsWay(t)
                              /\ entry.successor = tab[t].successor
                              /\ entry.successor # cookie'
                              /\ entry.presented = tab[t].presented
  BY <1>3, <1>4 DEF OnItsWay
<1>. QED  BY <1>1, <1>3, <1>4, <1>5, NewCookieKeeps
(* Every step keeps the invariant.                                         *)
LEMMA SessionStep == SessionInvariant /\ [SessionNext]_sessionVars => SessionInvariant'
<1> SUFFICES ASSUME SessionInvariant, [SessionNext]_sessionVars
             PROVE  SessionInvariant'
  OBVIOUS
<1>1. ASSUME NEW t \in Tabs,
             \/ OpenTab(t) \/ ExpireAccess(t) \/ NeedAccess(t)
             \/ CheckToken(t) \/ TakeRefusal(t)
      PROVE  SessionInvariant'
  <2>. tab \in [Tabs -> TabStates] /\ tab[t] \in TabStates /\ cookie \in Tokens \cup {NoToken}
    BY DEF SessionInvariant, SessionTypeOK
  <2>1. CASE OpenTab(t)
    <3> DEFINE entry == Showing(tab[t], "app", cookie)
    <3>1. /\ entry \in TabStates
          /\ entry.successor = tab[t].successor /\ entry.leaving = tab[t].leaving
          /\ \/ entry.refresh = tab[t].refresh /\ entry.presented = tab[t].presented
             \/ /\ tab[t].refresh = "idle" /\ entry.refresh = "sent"
                /\ entry.presented = cookie
      BY ONLY ShowingSends, tab[t] \in TabStates, cookie \in Tokens \cup {NoToken}
    <3>2. tab' = [tab EXCEPT ![t] = entry] /\ UNCHANGED <<issued, cookie, revoked, orphaned>>
      BY <2>1 DEF OpenTab
    <3> HIDE DEF entry
    <3>. QED  BY <3>1, <3>2, QuietStep
  <2>2. CASE ExpireAccess(t)
    <3> DEFINE entry == [tab[t] EXCEPT !.access = "stale"]
    <3>1. /\ entry \in TabStates /\ entry.refresh = tab[t].refresh
          /\ entry.successor = tab[t].successor /\ entry.leaving = tab[t].leaving
          /\ entry.presented = tab[t].presented
      BY DEF TabStates
    <3>2. tab' = [tab EXCEPT ![t] = entry] /\ UNCHANGED <<issued, cookie, revoked, orphaned>>
      BY <2>2 DEF ExpireAccess
    <3> HIDE DEF entry
    <3>. QED  BY <3>1, <3>2, QuietStep
  <2>3. CASE NeedAccess(t)
    <3> DEFINE entry == Refreshing(tab[t], cookie)
    <3>1. /\ entry \in TabStates
          /\ entry.successor = tab[t].successor /\ entry.leaving = tab[t].leaving
          /\ \/ entry.refresh = tab[t].refresh /\ entry.presented = tab[t].presented
             \/ /\ tab[t].refresh = "idle" /\ entry.refresh = "sent"
                /\ entry.presented = cookie
      BY ONLY RefreshingSends, tab[t] \in TabStates, cookie \in Tokens \cup {NoToken}
    <3>2. tab' = [tab EXCEPT ![t] = entry] /\ UNCHANGED <<issued, cookie, revoked, orphaned>>
      BY <2>3 DEF NeedAccess
    <3> HIDE DEF entry
    <3>. QED  BY <3>1, <3>2, QuietStep
  <2>4. CASE CheckToken(t)
    <3> DEFINE verdict == IF tab[t].presented \in Tokens \ revoked THEN "passed" ELSE "refused"
               entry == [tab[t] EXCEPT !.refresh = verdict]
    <3>1. /\ verdict \in {"passed", "refused"} /\ tab[t].refresh = "sent"
          /\ tab' = [tab EXCEPT ![t] = entry]
          /\ UNCHANGED <<issued, cookie, revoked, orphaned>>
      BY <2>4 DEF CheckToken
    <3> HIDE DEF verdict
    <3>2. /\ entry \in TabStates /\ entry.refresh = verdict
          /\ entry.successor = tab[t].successor /\ entry.leaving = tab[t].leaving
          /\ entry.presented = tab[t].presented
      BY <3>1 DEF TabStates
    <3> HIDE DEF entry
    <3>. QED  BY <3>1, <3>2, QuietStep
  <2>5. CASE TakeRefusal(t)
    <3> DEFINE cleared == [Answered(tab[t]) EXCEPT !.access = "none"]
               entry == Showing(cleared, "login", cookie)
    <3>1. /\ cleared \in TabStates /\ cleared.refresh = "idle"
          /\ cleared.successor = NoToken /\ cleared.presented = NoToken
          /\ cleared.leaving = tab[t].leaving
      BY DEF TabStates, Answered
    <3> HIDE DEF cleared
    <3>2. /\ entry \in TabStates
          /\ entry.successor = cleared.successor /\ entry.leaving = cleared.leaving
          /\ \/ entry.refresh = cleared.refresh /\ entry.presented = cleared.presented
             \/ entry.refresh = "sent" /\ entry.presented = cookie
      BY ONLY <3>1, ShowingSends, cookie \in Tokens \cup {NoToken}
    <3>3. /\ tab' = [tab EXCEPT ![t] = entry]
          /\ UNCHANGED <<issued, cookie, revoked, orphaned>>
          /\ tab[t].refresh = "refused"
      BY <2>5 DEF TakeRefusal, cleared
    <3> HIDE DEF entry
    <3>. QED  BY <3>1, <3>2, <3>3, QuietStep
  <2>. QED  BY <1>1, <2>1, <2>2, <2>3, <2>4, <2>5
<1>2. CASE UNCHANGED sessionVars
  BY <1>2 DEF sessionVars, SessionInvariant, SessionTypeOK, HeldAreIssued,
              SuccessorsAreNew, OnItsWay, CookieUsable
<1>. QED
  BY <1>1, <1>2, RotateKeeps, LoseKeeps, TakeRefreshKeeps, SignInKeeps, SignOutKeeps,
     TakeSignOutKeeps
     DEF SessionNext

(* The types and the relations between the tokens hold always.             *)
THEOREM SessionCorrect == SessionSpec => []SessionInvariant
BY SessionInitially, SessionStep, PTL DEF SessionSpec

(* Tabs that refresh, sign in and sign out at the same time never leave a  *)
(* used token in the cookie, unless an answer of auth_service got lost.    *)
THEOREM CookieStaysUsable == SessionSpec => []CookieUsable
<1>1. SessionInvariant => CookieUsable
  BY DEF SessionInvariant
<1>. QED  BY <1>1, SessionCorrect, PTL

(***************************************************************************)
(* The wizard                                                              *)
(***************************************************************************)
(* What is waited for belongs to the step shown.                           *)
WaitsFit ==
    /\ waiting = "signUp" => step = Account
    /\ waiting = "createTenant" => step = Business
    /\ waiting \notin {"nothing", "signUp", "createTenant"} => step = Review

(* Without a store nobody has left the first two steps, so no sign-up was  *)
(* left behind and no build was asked for.                                 *)
WithoutStore ==
    ~tenant => /\ step \in {Account, Business}
               /\ late["signUp"] = 0
               /\ late["startBuild"] = 0

WizardInvariant == WizardTypeOK /\ WaitsFit /\ WithoutStore

(* The reducer stays within the steps.                                     *)
LEMMA StepsInRange ==
    ASSUME NEW i \in Account .. Build
    PROVE  /\ After(i) \in Account .. Build
           /\ Preceding(i) \in Account .. Build
BY DEF After, Preceding, Account, Build

(* A step that is shown waits for the questions, in the review, or for     *)
(* nothing.                                                                *)
LEMMA ShowFits ==
    ASSUME NEW i \in Account .. Build, Show(i)
    PROVE  /\ step' = i
           /\ waiting' \in Waits
           /\ WaitsFit'
BY DEF Show, WaitsFit, Waits, Calls, Account, Business, Review, Build

(* Leaving a step keeps the count of late answers within its bound.        *)
LEMMA LateInRange ==
    ASSUME WizardInvariant, MayLeave
    PROVE  /\ LateNow \in [Calls -> 0 .. MaxLate]
           /\ step # Account => LateNow["signUp"] = late["signUp"]
           /\ step # Review => LateNow["startBuild"] = late["startBuild"]
BY WizardAssumption
   DEF WizardInvariant, WizardTypeOK, WaitsFit, MayLeave, LateNow, Calls, Waits,
       Account, Business, Review, Build

(* What an answer that moves the wizard on leaves.                         *)
LEMMA AnswerKeeps ==
    ASSUME WizardInvariant, NEW call \in {"signUp", "createTenant", "startBuild"},
           Answer(call)
    PROVE  /\ step' \in Account .. Build
           /\ waiting' \in Waits
           /\ late' \in [Calls -> 0 .. MaxLate]
           /\ WaitsFit'
<1>1. CASE AnswerHere(call)
  BY <1>1, StepsInRange, ShowFits DEF AnswerHere, WizardInvariant, WizardTypeOK
<1>2. CASE AnswerLate(call)
  <2>1. CASE step = Build
    BY <1>2, <2>1, WizardAssumption
       DEF AnswerLate, WizardInvariant, WizardTypeOK, WaitsFit, Calls
  <2>2. CASE step # Build
    <3>1. MayLeave /\ Show(After(step)) /\ late[call] > 0
          /\ late' = [LateNow EXCEPT ![call] = @ - 1]
      BY <1>2, <2>2 DEF AnswerLate
    <3>2. LateNow \in [Calls -> 0 .. MaxLate] /\ LateNow[call] >= late[call]
      BY <3>1, LateInRange, WizardAssumption
         DEF LateNow, WizardInvariant, WizardTypeOK, Calls
    <3>3. late' \in [Calls -> 0 .. MaxLate]
      BY <3>1, <3>2, WizardAssumption DEF WizardInvariant, WizardTypeOK, Calls
    <3>. QED  BY <3>1, <3>3, StepsInRange, ShowFits DEF WizardInvariant, WizardTypeOK
  <2>. QED  BY <2>1, <2>2
<1>. QED  BY <1>1, <1>2 DEF Answer

(* The wizard begins with the invariant.                                   *)
LEMMA WizardInitially == WizardInit => WizardInvariant
<1> SUFFICES ASSUME WizardInit  PROVE WizardInvariant
  OBVIOUS
<1> USE DEF WizardInit
<1>1. late \in [Calls -> 0 .. MaxLate]
  BY WizardAssumption
<1>2. WizardTypeOK
  <2>1. step \in Account .. Build /\ waiting \in Waits
    BY DEF Waits, Account, Build
  <2>2. tenant \in BOOLEAN /\ buildId \in BOOLEAN /\ questions \in BOOLEAN
    OBVIOUS
  <2>. QED  BY <1>1, <2>1, <2>2 DEF WizardTypeOK
<1>3. WaitsFit /\ WithoutStore
  BY DEF WaitsFit, WithoutStore, Calls
<1>. QED  BY <1>2, <1>3 DEF WizardInvariant

(* Every step keeps it.                                                    *)
LEMMA WizardStep == WizardInvariant /\ [WizardNext]_wizardVars => WizardInvariant'
<1> SUFFICES ASSUME WizardInvariant, [WizardNext]_wizardVars
             PROVE  WizardInvariant'
  OBVIOUS
<1> USE DEF WizardInvariant, WizardTypeOK
<1>1. CASE Back
  <2>1. Preceding(step) \in Account .. Build /\ Leave(Preceding(step)) /\ MayLeave
    BY <1>1, StepsInRange DEF Back
  <2>2. WithoutStore'
    BY <1>1, <2>1, LateInRange
       DEF Back, WithoutStore, Leave, Show, Preceding, Account, Business, Review, Build
  <2>. QED  BY <1>1, <2>1, <2>2, ShowFits, LateInRange DEF Back, Leave
<1>2. CASE Continue
  <2>1. After(step) \in Account .. Build /\ Leave(After(step)) /\ waiting = "nothing"
    BY <1>2, StepsInRange
       DEF Continue, WaitsFit, Account, Business, Review, Build
  <2>2. tenant
    BY <1>2 DEF Continue, WithoutStore, Account, Business, Review
  <2>3. MayLeave
    BY <2>1 DEF MayLeave, Calls
  <2>. QED  BY <1>2, <2>1, <2>2, <2>3, ShowFits, LateInRange
            DEF Continue, Leave, WithoutStore
<1>3. CASE SubmitAccount \/ SubmitBusiness
  BY <1>3 DEF SubmitAccount, SubmitBusiness, Submit, WaitsFit, WithoutStore, Waits, Calls
<1>4. CASE SignedUp
  <2>1. WithoutStore'
    BY <1>4
       DEF SignedUp, WithoutStore, WaitsFit, Answer, AnswerHere, AnswerLate, Show, After,
           Account, Business, Build
  <2>. QED  BY <1>4, <2>1, AnswerKeeps DEF SignedUp
<1>5. CASE TenantCreated
  BY <1>5, AnswerKeeps DEF TenantCreated, WithoutStore
<1>6. CASE BuildStarted
  <2>1. tenant
    BY <1>6
       DEF BuildStarted, WithoutStore, WaitsFit, Answer, AnswerHere, AnswerLate,
           Account, Business, Review
  <2>. QED  BY <1>6, <2>1, AnswerKeeps DEF BuildStarted, WithoutStore
<1>7. CASE Clarified
  BY <1>7, WizardAssumption DEF Clarified, WaitsFit, WithoutStore, Waits, Calls
<1>8. CASE RetryClarify \/ SkipQuestions \/ Enhance \/ Enhanced \/ StartBuild
  BY <1>8
     DEF RetryClarify, SkipQuestions, Enhance, Enhanced, StartBuild, Reviewing,
         WaitsFit, WithoutStore, Waits, Calls, Account, Business, Review
<1>9. CASE \E call \in Calls : CallFails(call)
  <2> SUFFICES ASSUME NEW call \in Calls, CallFails(call)
               PROVE  WizardInvariant'
    BY <1>9
  <2>. QED  BY WizardAssumption DEF CallFails, WaitsFit, WithoutStore, Waits, Calls
<1>10. CASE UNCHANGED wizardVars
  BY <1>10 DEF wizardVars, WaitsFit, WithoutStore
<1>. QED  BY <1>1, <1>2, <1>3, <1>4, <1>5, <1>6, <1>7, <1>8, <1>9, <1>10 DEF WizardNext

(* The invariant holds always: the wizard's variables keep their types     *)
(* whatever the bound.                                                     *)
THEOREM WizardCorrect == WizardSpec => []WizardInvariant
BY WizardInitially, WizardStep, PTL DEF WizardSpec

(* Nobody gets beyond the business step before the store was created,      *)
(* though BusinessStep, AccountStep and ReviewStep dispatch whenever their *)
(* answers come.                                                           *)
THEOREM StoreCreatedFirst == WizardSpec => []StoreBeforeBrand
<1>1. WizardInvariant => StoreBeforeBrand
  BY DEF WizardInvariant, WithoutStore, StoreBeforeBrand, Account, Business
<1>. QED  BY <1>1, WizardCorrect, PTL

(***************************************************************************)
(* The drafts                                                              *)
(***************************************************************************)
(* The invariant is inductive as it stands, with the types.                *)
DraftsInvariant == DraftsTypeOK /\ DraftsStayApart

(* Nothing is typed and nothing is kept.                                   *)
LEMMA DraftsStart == DraftsInit => DraftsInvariant
BY DraftsAssumption
   DEF DraftsInit, DraftsInvariant, DraftsTypeOK, DraftsStayApart, NoTimer, Pages

(* The draft put into the box is the one of the page that is shown.        *)
LEMMA DraftIsOfPage ==
    ASSUME DraftsInvariant, NEW p \in Pages
    PROVE  /\ DraftOf(p) \in SUBSET Pages
           /\ DraftOf(p) \subseteq {p, Task}
BY DEF DraftsInvariant, DraftsTypeOK, DraftsStayApart, DraftOf

(* No step mixes them.                                                     *)
LEMMA DraftsStep ==
    ASSUME DraftsInvariant, [DraftsNext]_draftVars
    PROVE  DraftsInvariant'
<1> USE DraftsAssumption DEF DraftsInvariant, DraftsTypeOK, DraftsStayApart, Pages
<1>1. ASSUME NEW p \in Pages, EnterPage(p)
      PROVE  DraftsInvariant'
  BY <1>1, DraftIsOfPage DEF EnterPage
<1>2. ASSUME NEW p \in Pages, SwitchPage(p)
      PROVE  DraftsInvariant'
  <2>1. shown' = p /\ timer' = NoTimer /\ sending' = sending
    BY <1>2 DEF SwitchPage
  <2>2. CASE shown = Task /\ box # {}
    <3>1. saved' = [saved EXCEPT ![p] = box] /\ box' = box /\ p \in Chats
      BY <1>2, <2>2 DEF SwitchPage
    <3>2. box \subseteq {Task}
      BY <2>2
    <3> QED
      BY <2>1, <3>1, <3>2 DEF NoTimer
  <2>3. CASE ~(shown = Task /\ box # {})
    <3>1. box' = DraftOf(p) /\ saved' = saved
      BY <1>2, <2>3 DEF SwitchPage
    <3> QED
      BY <2>1, <3>1, DraftIsOfPage DEF NoTimer
  <2> QED
    BY <2>2, <2>3
<1>3. CASE LeavePages
  BY <1>3 DEF LeavePages, NoTimer
<1>4. CASE TypeText
  BY <1>4, DraftIsOfPage DEF TypeText
<1>5. CASE ChoosePrompt
  BY <1>5 DEF ChoosePrompt
<1>6. CASE SaveDraft
  BY <1>6 DEF SaveDraft, NoTimer
<1>7. CASE SubmitText
  BY <1>7 DEF SubmitText
<1>8. CASE SendEnds
  BY <1>8 DEF SendEnds
<1>9. CASE UserMessageArrives
  BY <1>9 DEF UserMessageArrives
<1>10. CASE UNCHANGED draftVars
  BY <1>10 DEF draftVars
<1> QED
  BY <1>1, <1>2, <1>3, <1>4, <1>5, <1>6, <1>7, <1>8, <1>9, <1>10 DEF DraftsNext

(* What the model's variables and drafts are in every state.               *)
THEOREM DraftsCorrect == DraftsSpec => []DraftsInvariant
<1>1. DraftsInvariant /\ [DraftsNext]_draftVars => DraftsInvariant'
  BY DraftsStep
<1> QED
  BY DraftsStart, <1>1, PTL DEF DraftsSpec

(* A text typed at one conversation never becomes the text or the draft of *)
(* another.                                                                *)
THEOREM DraftsAreNotMixed == DraftsSpec => []DraftsStayApart
<1>1. DraftsInvariant => DraftsStayApart
  BY DEF DraftsInvariant
<1> QED
  BY DraftsCorrect, <1>1, PTL
==============================================================================
