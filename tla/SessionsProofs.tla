---------------------------- MODULE SessionsProofs ----------------------------
(***************************************************************************)
(* Theorems about Sessions, for any number of accounts, browsers, requests *)
(* and session ids.                                                        *)
(***************************************************************************)
EXTENDS Sessions, TLAPS

LEMMA TypeStep == ASSUME TypeOK, [Next]_vars PROVE TypeOK'
<1> USE NoneAssumption, KeepAssumption
    DEF TypeOK, Steps, FormSteps, HandlerSteps, GoTo, Answer, Forget, rows, locals, jars
<1>1. ASSUME NEW r \in Requests, SendForm(r) PROVE TypeOK'
  BY <1>1 DEF SendForm, Send
<1>2. ASSUME NEW r \in Requests, SendWithSession(r) PROVE TypeOK'
  BY <1>2 DEF SendWithSession, Send
<1>3. ASSUME NEW r \in Requests, Register(r) PROVE TypeOK'
  BY <1>3 DEF Register, AddUser
<1>4. ASSUME NEW r \in Requests, LoginByCookie(r) PROVE TypeOK'
  BY <1>4 DEF LoginByCookie
<1>5. ASSUME NEW r \in Requests, LoginCheck(r) PROVE TypeOK'
  BY <1>5 DEF LoginCheck, UserFound
<1>6. ASSUME NEW r \in Requests, Upsert(r) PROVE TypeOK'
  BY <1>6 DEF Upsert, NewIds
<1>7. ASSUME NEW r \in Requests, UpsertFail(r) PROVE TypeOK'
  BY <1>7 DEF UpsertFail
<1>8. ASSUME NEW r \in Requests, Authenticate(r) PROVE TypeOK'
  BY <1>8 DEF Authenticate, RefreshedCookie
<1>9. ASSUME NEW r \in Requests, Serve(r) PROVE TypeOK'
  BY <1>9 DEF Serve
<1>10. ASSUME NEW r \in Requests, Logout(r) PROVE TypeOK'
  BY <1>10 DEF Logout
<1>11. ASSUME NEW r \in Requests, LogoutFail(r) PROVE TypeOK'
  BY <1>11 DEF LogoutFail
<1>12. ASSUME NEW r \in Requests, Deliver(r) PROVE TypeOK'
  BY <1>12 DEF Deliver
<1>13. ASSUME NEW r \in Requests, Lose(r) PROVE TypeOK'
  BY <1>13 DEF Lose
<1>14. ASSUME NEW b \in Browsers, CookieExpires(b) PROVE TypeOK'
  BY <1>14 DEF CookieExpires
<1>15. ASSUME NEW a \in Accounts, SessionExpires(a) PROVE TypeOK'
  BY <1>15 DEF SessionExpires
<1>16. CASE UNCHANGED vars
  BY <1>16 DEF vars
<1>17. QED
  BY <1>1, <1>2, <1>3, <1>4, <1>5, <1>6, <1>7, <1>8, <1>9, <1>10, <1>11, <1>12, <1>13,
     <1>14, <1>15, <1>16
  DEF Next, Step

\* Every reachable state of accounts, sessions, cookies and requests is well typed.
THEOREM SessionTypes == Spec => []TypeOK
<1>1. Init => TypeOK
  BY NoneAssumption, KeepAssumption DEF Init, TypeOK, Steps, FormSteps, HandlerSteps
<1>2. TypeOK /\ [Next]_vars => TypeOK'
  BY TypeStep
<1>3. QED
  BY <1>1, <1>2, PTL DEF Spec

\* Who a session id belongs to, wherever it is: in a cookie, in a request that was
\* sent with it, in an answer on its way or in the table.
Ids ==
  /\ \A s \in SessionIds : owner[s] = None => holder[s] = None
  /\ \A r \in Requests : pc[r] = "idle" => setCookie[r] = Keep /\ sent[r] = None
Cookies == \A b \in Browsers : cookie[b] # None => holder[cookie[b]] = b
Sent == \A r \in Requests : sent[r] # None => holder[sent[r]] = browser[r]
Answers ==
  \A r \in Requests : setCookie[r] \in SessionIds => holder[setCookie[r]] = browser[r]
Table == \A a \in Accounts : session[a] # None => owner[session[a]] = a
Contexts ==
  \A r \in Requests :
    pc[r] \in HandlerSteps => sent[r] \in SessionIds /\ owner[sent[r]] = who[r]

Belongs == Ids /\ Cookies /\ Sent /\ Answers /\ Table /\ Contexts

LEMMA BelongsStep == ASSUME TypeOK, Belongs, [Next]_vars PROVE Belongs'
<1> USE NoneAssumption, KeepAssumption
    DEF TypeOK, Steps, FormSteps, HandlerSteps, GoTo, Answer, Forget, rows, locals, jars,
        Belongs, Ids, Cookies, Sent, Answers, Table, Contexts
<1>1. ASSUME NEW r \in Requests, SendForm(r) PROVE Belongs'
  BY <1>1 DEF SendForm, Send
<1>2. ASSUME NEW r \in Requests, SendWithSession(r) PROVE Belongs'
  BY <1>2 DEF SendWithSession, Send
<1>3. ASSUME NEW r \in Requests, Register(r) PROVE Belongs'
  BY <1>3 DEF Register, AddUser
<1>4. ASSUME NEW r \in Requests, LoginByCookie(r) PROVE Belongs'
  BY <1>4 DEF LoginByCookie
<1>5. ASSUME NEW r \in Requests, LoginCheck(r) PROVE Belongs'
  BY <1>5 DEF LoginCheck, UserFound
<1>6. ASSUME NEW r \in Requests, Upsert(r) PROVE Belongs'
  <2>1. PICK s \in NewIds :
          /\ session' = [session EXCEPT ![who[r]] = s]
          /\ owner' = [owner EXCEPT ![s] = who[r]]
          /\ holder' = [holder EXCEPT ![s] = browser[r]]
          /\ setCookie' = [setCookie EXCEPT ![r] = s]
    BY <1>6 DEF Upsert
  <2>2. /\ pc[r] = "upsert"
        /\ pc' = [pc EXCEPT ![r] = "answered"]
        /\ UNCHANGED <<browser, sent, who, cookie>>
    BY <1>6 DEF Upsert
  <2>3. s \in SessionIds /\ owner[s] = None /\ holder[s] = None
    BY DEF NewIds
  <2>4. Ids' /\ Cookies'
    BY <2>1, <2>2, <2>3
  <2>5. Sent' /\ Answers'
    <3>1. \A q \in Requests :
            (sent[q] # None \/ setCookie[q] \in SessionIds) => browser[q] # None
      OBVIOUS
    <3>2. \A q \in Requests : sent[q] # s /\ setCookie[q] # s
      BY <2>3, <3>1
    <3>3. QED
      BY <2>1, <2>2, <2>3, <3>2
  <2>6. ASSUME NEW a \in Accounts, session'[a] # None PROVE owner'[session'[a]] = a
    <3>1. CASE a = who[r]
      BY <2>1, <2>2, <2>3, <3>1
    <3>2. CASE a # who[r]
      <4>1. session'[a] = session[a] /\ owner[session[a]] = a
        BY <2>1, <2>2, <2>6, <3>2
      <4>2. session[a] # s
        BY <2>3, <4>1
      <4>3. QED
        BY <2>1, <2>3, <4>1, <4>2
    <3>3. QED
      BY <3>1, <3>2
  <2>7. ASSUME NEW q \in Requests, pc'[q] \in HandlerSteps
        PROVE  sent'[q] \in SessionIds /\ owner'[sent'[q]] = who'[q]
    <3>1. sent[q] \in SessionIds /\ owner[sent[q]] = who[q] /\ who[q] \in Accounts
      BY <2>2, <2>7
    <3>2. QED
      BY <2>1, <2>2, <2>3, <3>1
  <2>8. QED
    BY <2>4, <2>5, <2>6, <2>7
<1>7. ASSUME NEW r \in Requests, UpsertFail(r) PROVE Belongs'
  BY <1>7 DEF UpsertFail
<1>8. ASSUME NEW r \in Requests, Authenticate(r) PROVE Belongs'
  BY <1>8 DEF Authenticate, RefreshedCookie, Live
<1>9. ASSUME NEW r \in Requests, Serve(r) PROVE Belongs'
  BY <1>9 DEF Serve
<1>10. ASSUME NEW r \in Requests, Logout(r) PROVE Belongs'
  BY <1>10 DEF Logout
<1>11. ASSUME NEW r \in Requests, LogoutFail(r) PROVE Belongs'
  BY <1>11 DEF LogoutFail
<1>12. ASSUME NEW r \in Requests, Deliver(r) PROVE Belongs'
  BY <1>12 DEF Deliver
<1>13. ASSUME NEW r \in Requests, Lose(r) PROVE Belongs'
  BY <1>13 DEF Lose
<1>14. ASSUME NEW b \in Browsers, CookieExpires(b) PROVE Belongs'
  BY <1>14 DEF CookieExpires
<1>15. ASSUME NEW a \in Accounts, SessionExpires(a) PROVE Belongs'
  BY <1>15 DEF SessionExpires
<1>16. CASE UNCHANGED vars
  BY <1>16 DEF vars
<1>17. QED
  BY <1>1, <1>2, <1>3, <1>4, <1>5, <1>6, <1>7, <1>8, <1>9, <1>10, <1>11, <1>12, <1>13,
     <1>14, <1>15, <1>16
  DEF Next, Step

LEMMA BelongsAlways == Spec => [](TypeOK /\ Belongs)
<1>1. Init => TypeOK /\ Belongs
  BY NoneAssumption, KeepAssumption
  DEF Init, TypeOK, Steps, FormSteps, HandlerSteps, Belongs, Ids, Cookies, Sent, Answers,
      Table, Contexts
<1>2. TypeOK /\ Belongs /\ [Next]_vars => (TypeOK /\ Belongs)'
  BY TypeStep, BelongsStep
<1>3. QED
  BY <1>1, <1>2, PTL DEF Spec

\* A cookie comes from a login or registration of the browser that holds it,
\* whatever answers overtake each other or are lost.
THEOREM CookiesAreOwn == Spec => []CookieIsOwn
<1>1. TypeOK /\ Belongs => CookieIsOwn
  BY DEF Belongs, Cookies, CookieIsOwn
<1>2. QED
  BY <1>1, BelongsAlways, PTL

\* What runs behind the auth middleware acts for the account its browser signed in
\* to, even when that session was replaced or deleted in the meantime.
THEOREM HandlersActForTheirAccount == Spec => []ActsForItsAccount
<1>1. TypeOK /\ Belongs => ActsForItsAccount
  BY NoneAssumption DEF Belongs, Sent, Contexts, ActsForItsAccount
<1>2. QED
  BY <1>1, BelongsAlways, PTL

\* What a step does to the sessions: a new id for one account, a logout, or nothing.
RowChange ==
  \/ UNCHANGED session /\ expired \subseteq expired'
  \/ \E a \in Accounts, s \in NewIds :
       session' = [session EXCEPT ![a] = s] /\ UNCHANGED expired
  \/ \E r \in Requests :
       /\ pc[r] = "delete"
       /\ pc' = [pc EXCEPT ![r] = "answered"]
       /\ session' = [a \in Accounts |-> IF a \in RowsOfId(r) THEN None ELSE session[a]]
       /\ UNCHANGED expired

LEMMA RowChanges == ASSUME TypeOK, [Next]_vars PROVE RowChange
<1> USE DEF RowChange
<1>1. ASSUME NEW r \in Requests, Upsert(r) PROVE RowChange
  BY <1>1 DEF Upsert, TypeOK, FormSteps
<1>2. ASSUME NEW r \in Requests, Logout(r) PROVE RowChange
  BY <1>2 DEF Logout, Answer, GoTo
<1>3. ASSUME UNCHANGED session, expired \subseteq expired' PROVE RowChange
  BY <1>3
<1>4. ASSUME NEW r \in Requests, Step(r) PROVE RowChange
  <2>1. CASE Upsert(r) \/ Logout(r)
    BY <1>1, <1>2, <2>1
  <2>2. CASE ~ (Upsert(r) \/ Logout(r))
    BY <1>3, <1>4, <2>2
    DEF Step, SendForm, SendWithSession, Send, Register, AddUser, LoginByCookie, LoginCheck, UpsertFail,
        Authenticate, Serve, LogoutFail, Deliver, Lose, rows
  <2>3. QED
    BY <2>1, <2>2
<1>5. ASSUME NEW a \in Accounts, SessionExpires(a) PROVE RowChange
  BY <1>3, <1>5 DEF SessionExpires
<1>6. QED
  BY <1>3, <1>4, <1>5 DEF Next, CookieExpires, rows, vars

\* An id that a logout, a later login or its age has ended is never accepted again.
THEOREM EndedIdsStayEnded == Spec => EndedForGood
<1>1. ASSUME TypeOK, [Next]_vars, NEW s \in SessionIds, owner[s] # None,
             ~ Accepted(s)
      PROVE  ~ Accepted(s)'
  <2> USE DEF Accepted, Live, TypeOK
  <2>1. ASSUME UNCHANGED session, expired \subseteq expired'
        PROVE  ~ Accepted(s)'
    BY <1>1, <2>1
  <2>2. ASSUME NEW c \in Accounts, NEW t \in NewIds,
               session' = [session EXCEPT ![c] = t], UNCHANGED expired
        PROVE  ~ Accepted(s)'
    BY <1>1, <2>2 DEF NewIds
  <2>3. ASSUME NEW r \in Requests, UNCHANGED expired,
               session' = [a \in Accounts |->
                             IF a \in RowsOfId(r) THEN None ELSE session[a]]
        PROVE  ~ Accepted(s)'
    BY <1>1, <2>3
  <2>4. QED
    BY <1>1, <2>1, <2>2, <2>3, RowChanges DEF RowChange
<1>2. TypeOK /\ [Next]_vars =>
        [\A s \in SessionIds :
           (owner[s] # None /\ ~ Accepted(s))
             => ~ Accepted(s)']_vars
  BY <1>1
<1>3. QED
  BY <1>2, SessionTypes, PTL DEF Spec, EndedForGood

\* A session is deleted only by a logout that was sent with its id.
THEOREM LogoutsEndTheirOwn == Spec => LogoutEndsItsOwn
<1>1. ASSUME TypeOK, [Next]_vars, NEW a \in Accounts,
             session[a] # None, session'[a] = None
      PROVE  \E r \in Requests :
               pc[r] = "delete" /\ pc'[r] = "answered" /\ sent[r] = session[a]
  <2>1. PICK r \in Requests :
          /\ pc[r] = "delete"
          /\ pc' = [pc EXCEPT ![r] = "answered"]
          /\ session' = [b \in Accounts |-> IF b \in RowsOfId(r) THEN None ELSE session[b]]
    BY <1>1, RowChanges, NoneAssumption DEF RowChange, NewIds, TypeOK
  <2>2. a \in RowsOfId(r)
    BY <1>1, <2>1
  <2>3. QED
    BY <1>1, <2>1, <2>2 DEF RowsOfId, TypeOK
<1>2. TypeOK /\ [Next]_vars =>
        [\A a \in Accounts :
           (session[a] # None /\ session'[a] = None) =>
             \E r \in Requests :
               pc[r] = "delete" /\ pc'[r] = "answered" /\ sent[r] = session[a]]_vars
  BY <1>1
<1>3. QED
  BY <1>2, SessionTypes, PTL DEF Spec, LogoutEndsItsOwn
=============================================================================
