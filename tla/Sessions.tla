------------------------------- MODULE Sessions -------------------------------
(***************************************************************************)
(* Accounts and sessions of LocalDrive: the handlers of user_handler.go    *)
(* and the auth middleware of api.go, the rows they read and write         *)
(* (user_gateway.go, session_gateway.go) and the session cookie of each    *)
(* browser.  An element of Requests is a request on its way from a browser *)
(* through its goroutine and back: its answer is applied to the cookie     *)
(* when it arrives, and answers of one browser may overtake each other.    *)
(***************************************************************************)
CONSTANTS
  Accounts,    \* usernames, each with the account id it gets
  Browsers,    \* cookie jars
  Requests,    \* requests under way
  SessionIds,  \* what uuid.NewString may return
  None,        \* no row, no cookie
  Keep         \* an answer without Set-Cookie

ASSUME NoneAssumption ==
  None \notin Accounts \cup Browsers \cup SessionIds
ASSUME KeepAssumption == Keep \notin SessionIds \cup {None}

VARIABLES
  accounts,   \* the usernames that have a row in UserAccount
  session,    \* account -> SessionID of its row in Session, or None
  expired,    \* the session ids whose ExpireOn has passed
  cookie,     \* browser -> value of lcsSessionID, or None
  pc,         \* request -> next step of its handler
  browser,    \* request -> browser that sent it
  sent,       \* request -> cookie it was sent with
  who,        \* request -> account of its form, later of its context
  setCookie,  \* request -> cookie its answer sets: an id, None to expire, or Keep
  \* history, read by properties only
  owner,      \* session id -> account it was made for
  holder,     \* session id -> browser whose request made it
  signedOut   \* the browsers that got the answer to a logout and no login since

rows == <<accounts, session, expired, owner, holder>>
locals == <<browser, sent, who, setCookie>>
jars == <<cookie, signedOut>>
vars == <<accounts, session, expired, owner, holder, pc, browser, sent, who,
          setCookie, cookie, signedOut>>

FormSteps == {"register", "login", "check", "upsert"}
HandlerSteps == {"delete", "serve"}
Steps == {"idle", "logout", "request", "answered"} \cup FormSteps \cup HandlerSteps

Init ==
  /\ accounts = {}
  /\ session = [a \in Accounts |-> None]
  /\ expired = {}
  /\ cookie = [b \in Browsers |-> None]
  /\ pc = [r \in Requests |-> "idle"]
  /\ browser = [r \in Requests |-> None]
  /\ sent = [r \in Requests |-> None]
  /\ who = [r \in Requests |-> None]
  /\ setCookie = [r \in Requests |-> Keep]
  /\ owner = [s \in SessionIds |-> None]
  /\ holder = [s \in SessionIds |-> None]
  /\ signedOut = {}

-----------------------------------------------------------------------------
GoTo(r, step) == pc' = [pc EXCEPT ![r] = step]

\* The handler returns; what it put into the header is on its way.
Answer(r) == GoTo(r, "answered")

\* Nothing of the request is left.
Forget(r) ==
  /\ GoTo(r, "idle")
  /\ browser' = [browser EXCEPT ![r] = None]
  /\ sent' = [sent EXCEPT ![r] = None]
  /\ who' = [who EXCEPT ![r] = None]
  /\ setCookie' = [setCookie EXCEPT ![r] = Keep]

\* A browser sends a request, with its cookie and with a form's account, if any.
Send(r, b, step, a) ==
  /\ pc[r] = "idle"
  /\ GoTo(r, step)
  /\ browser' = [browser EXCEPT ![r] = b]
  /\ sent' = [sent EXCEPT ![r] = cookie[b]]
  /\ who' = [who EXCEPT ![r] = a]
  /\ UNCHANGED <<rows, setCookie, jars>>

SendForm(r) ==
  \E b \in Browsers, a \in Accounts, step \in {"register", "login"} :
    Send(r, b, step, a)

SendWithSession(r) ==
  \E b \in Browsers, step \in {"logout", "request"} : Send(r, b, step, None)

-----------------------------------------------------------------------------
(* PostRegisterUser and PostLogin *)

\* The insert fails for a username that has a row.
AddUser(a) ==
  /\ a \notin accounts
  /\ accounts' = accounts \cup {a}

\* A username that is taken or not valid, or a database error, ends the request.
Register(r) ==
  /\ pc[r] = "register"
  /\ \/ AddUser(who[r]) /\ GoTo(r, "upsert")
     \/ /\ Answer(r)
        /\ UNCHANGED accounts
  /\ UNCHANGED <<session, expired, owner, holder, locals, jars>>

\* Mutant: any row of the join, without the WHERE.
AnyLive(s, a) == s # None /\ session[a] # None /\ session[a] \notin expired

\* ValidateSessionAndGetUser: s is the session of account a.
Live(s, a) == s # None /\ session[a] = s /\ s \notin expired

Accepted(s) == \E a \in Accounts : Live(s, a)

\* A live session is answered without a look at the form.  An error of the
\* database is logged, and one of the writer too: the login goes on.
LoginByCookie(r) ==
  /\ pc[r] = "login"
  /\ \/ /\ Accepted(sent[r])
        /\ Answer(r)
     \/ GoTo(r, "check")
  /\ UNCHANGED <<rows, locals, jars>>

\* Mutant: a username without a row is let through.
AnyUser(r) == TRUE

\* GetUserByUsername finds a row.
UserFound(r) == who[r] \in accounts

\* ValidateUser: a wrong password or a database error ends the request.
LoginCheck(r) ==
  /\ pc[r] = "check"
  /\ \/ UserFound(r) /\ GoTo(r, "upsert")
     \/ Answer(r)
  /\ UNCHANGED <<rows, locals, jars>>

\* uuid.NewString never repeats an id.
NewIds == {s \in SessionIds : owner[s] = None}

\* Mutant: the row of the account keeps its id and gets new dates.
UpsertDates(r) ==
  /\ pc[r] = "upsert"
  /\ \E s \in IF session[who[r]] = None THEN NewIds ELSE {session[who[r]]} :
       /\ session' = [session EXCEPT ![who[r]] = s]
       /\ expired' = expired \ {s}
       /\ owner' = [owner EXCEPT ![s] = who[r]]
       /\ holder' = [holder EXCEPT ![s] = browser[r]]
       /\ setCookie' = [setCookie EXCEPT ![r] = s]
  /\ Answer(r)
  /\ UNCHANGED <<accounts, browser, sent, who, jars>>

\* UpsertSession: a row of the account gets the new id and new dates.
Upsert(r) ==
  /\ pc[r] = "upsert"
  /\ \E s \in NewIds :
       /\ session' = [session EXCEPT ![who[r]] = s]
       /\ owner' = [owner EXCEPT ![s] = who[r]]
       /\ holder' = [holder EXCEPT ![s] = browser[r]]
       /\ setCookie' = [setCookie EXCEPT ![r] = s]
  /\ Answer(r)
  /\ UNCHANGED <<accounts, expired, browser, sent, who, jars>>

\* The account stays.  (PostLogin goes on with the nil session and panics: Lose.)
UpsertFail(r) ==
  /\ pc[r] = "upsert"
  /\ Answer(r)
  /\ UNCHANGED <<rows, locals, jars>>

-----------------------------------------------------------------------------
(* CreateAuthMiddleware and what runs behind it *)

\* SetCookieSession(w, sessionCookie.Value)
RefreshedCookie(r) == sent[r]

Authenticate(r) ==
  /\ pc[r] \in {"logout", "request"}
  /\ \/ \E a \in Accounts :
          /\ Live(sent[r], a)
          /\ who' = [who EXCEPT ![r] = a]
          /\ setCookie' = [setCookie EXCEPT ![r] = RefreshedCookie(r)]
          /\ GoTo(r, IF pc[r] = "logout" THEN "delete" ELSE "serve")
     \/ /\ Answer(r)
        /\ UNCHANGED <<who, setCookie>>
  /\ UNCHANGED <<rows, browser, sent, jars>>

\* Any other handler behind the middleware: it acts for who[r].
Serve(r) ==
  /\ pc[r] = "serve"
  /\ Answer(r)
  /\ UNCHANGED <<rows, locals, jars>>

\* Mutant: the row is found by the account.
RowsOfAccount(r) == {who[r]}

\* The rows DeleteSessionByID deletes.
RowsOfId(r) == {a \in Accounts : session[a] = sent[r]}

\* DeleteSessionByID and ExpireCookieSession.  An id that is gone is no error.
Logout(r) ==
  /\ pc[r] = "delete"
  /\ session' = [a \in Accounts |-> IF a \in RowsOfId(r) THEN None ELSE session[a]]
  /\ setCookie' = [setCookie EXCEPT ![r] = None]
  /\ Answer(r)
  /\ UNCHANGED <<accounts, expired, owner, holder, browser, sent, who, jars>>

LogoutFail(r) ==
  /\ pc[r] = "delete"
  /\ Answer(r)
  /\ UNCHANGED <<rows, locals, jars>>

-----------------------------------------------------------------------------
\* The answer arrives.  A session id other than the one sent is a login's.
Deliver(r) ==
  LET b == browser[r] IN
  /\ pc[r] = "answered"
  /\ IF setCookie[r] = Keep
       THEN UNCHANGED jars
       ELSE /\ cookie' = [cookie EXCEPT ![b] = setCookie[r]]
            /\ signedOut' = CASE setCookie[r] = None -> signedOut \cup {b}
                              [] setCookie[r] = sent[r] -> signedOut
                              [] OTHER -> signedOut \ {b}
  /\ Forget(r)
  /\ UNCHANGED rows

\* The connection breaks, the handler panics or the server stops.
Lose(r) ==
  /\ pc[r] # "idle"
  /\ Forget(r)
  /\ UNCHANGED <<rows, jars>>

\* MaxAge, one hour after the last Set-Cookie.
CookieExpires(b) ==
  /\ cookie' = [cookie EXCEPT ![b] = None]
  /\ UNCHANGED <<rows, pc, locals, signedOut>>

\* ExpireOn, 14 days after the login; no request puts it off.
SessionExpires(a) ==
  /\ session[a] # None
  /\ expired' = expired \cup {session[a]}
  /\ UNCHANGED <<accounts, session, owner, holder, pc, locals, jars>>

Step(r) ==
  \/ SendForm(r) \/ SendWithSession(r)
  \/ Register(r) \/ LoginByCookie(r) \/ LoginCheck(r) \/ Upsert(r) \/ UpsertFail(r)
  \/ Authenticate(r) \/ Serve(r) \/ Logout(r) \/ LogoutFail(r)
  \/ Deliver(r) \/ Lose(r)

Next ==
  \/ \E r \in Requests : Step(r)
  \/ \E b \in Browsers : CookieExpires(b)
  \/ \E a \in Accounts : SessionExpires(a)

Spec == Init /\ [][Next]_vars
-----------------------------------------------------------------------------
(* Properties *)

\* Every variable holds a value of its kind; a request that is served has a
\* browser, one that acts for an account has it, and only rows have sessions.
TypeOK ==
  /\ accounts \subseteq Accounts
  /\ session \in [Accounts -> SessionIds \cup {None}]
  /\ expired \subseteq SessionIds
  /\ cookie \in [Browsers -> SessionIds \cup {None}]
  /\ pc \in [Requests -> Steps]
  /\ browser \in [Requests -> Browsers \cup {None}]
  /\ sent \in [Requests -> SessionIds \cup {None}]
  /\ who \in [Requests -> Accounts \cup {None}]
  /\ setCookie \in [Requests -> SessionIds \cup {None, Keep}]
  /\ owner \in [SessionIds -> Accounts \cup {None}]
  /\ holder \in [SessionIds -> Browsers \cup {None}]
  /\ signedOut \subseteq Browsers
  /\ \A r \in Requests :
       /\ pc[r] # "idle" => browser[r] \in Browsers
       /\ pc[r] \in FormSteps \cup HandlerSteps => who[r] \in Accounts
       /\ pc[r] = "upsert" => who[r] \in accounts
  /\ \A a \in Accounts : session[a] # None => a \in accounts

\* Whatever logins, logouts and lost answers of other browsers come between, a
\* cookie a browser holds came from a login or registration of that browser.
CookieIsOwn ==
  \A b \in Browsers : cookie[b] # None => holder[cookie[b]] = b

\* A handler behind the middleware acts for the account that the browser which
\* sent the request had signed in to when it got the cookie, even when the session
\* was replaced or deleted after the middleware looked at it.
ActsForItsAccount ==
  \A r \in Requests :
    pc[r] \in HandlerSteps =>
      /\ sent[r] \in SessionIds
      /\ owner[sent[r]] = who[r]
      /\ holder[sent[r]] = browser[r]

\* A session id that was given out and is not accepted any more, because of a logout,
\* of a login elsewhere or of its age, is never accepted again.
EndedForGood ==
  [][\A s \in SessionIds :
       (owner[s] # None /\ ~ Accepted(s)) => ~ Accepted(s)']_vars

\* A row leaves the Session table only by a logout that was sent with its id: a
\* logout does not end the session of a login that came after its middleware.
LogoutEndsItsOwn ==
  [][\A a \in Accounts :
       (session[a] # None /\ session'[a] = None) =>
         \E r \in Requests : pc[r] = "delete" /\ pc'[r] = "answered" /\ sent[r] = session[a]]_vars

-----------------------------------------------------------------------------
(* What a comment of the code claims and the code does not do: see README. *)

\* After a logout "the cookie will be removed from the browser" (user_handler.go:
\* 154-155): until the next login the browser has none.
LogoutRemovesCookie ==
  \A b \in signedOut : cookie[b] = None
=============================================================================
