------------------------------ MODULE Sessions ------------------------------
(***************************************************************************)
(* Refresh sessions: the rows of user_sessions and the statements of       *)
(* AuthService and RefreshSessionService that write them, composed with    *)
(* the browser that holds the refresh cookie and with the tabs of the web  *)
(* application that share it.                                              *)
(*                                                                         *)
(* A refresh is three statements without a transaction: find and check,    *)
(* revoke by id, create the replacement.  Requests carry the cookie of the *)
(* moment they are sent; their answers replace or clear it when they are   *)
(* delivered.  A tab sends a refresh when its session query is fetched     *)
(* (restore), and another, under a lock of the tab, when the API refuses   *)
(* an expired access token (retry).                                        *)
(*                                                                         *)
(* Tokens and access tokens are abstract; passwords are correct; one       *)
(* e-mail address is used throughout.                                      *)
(***************************************************************************)
EXTENDS Naturals, FiniteSets

CONSTANTS Tab,         \* browser tabs, which share the cookie
          Request,     \* slots for requests that are on their way
          MaxTokens,   \* bound on the sessions ever created
          MaxCalls,    \* bound on the API calls of a tab at one time
          MaxExpiries, \* bound on tokens that expire
          MaxFaults,   \* bound on lost requests, lost answers and reloads
          None

ASSUME SessionAssumption ==
    None \notin Tab /\ MaxTokens \in Nat /\ MaxCalls \in Nat /\ MaxExpiries \in Nat /\ MaxFaults \in Nat

VARIABLES
    users,      \* rows of users with the address
    session,    \* user_sessions by token: state, and the token it replaced
    cookie,     \* the refresh cookie of the browser; 0 is none
    tab,        \* each tab: cached session, lock, and what it waits for
    req,        \* each request: kind, tab, next statement, tokens, heard
    expiries, faults,
    shared,     \* tokens carried by two requests at the same time
    loggedOut,  \* tokens of logouts that were served
    refused     \* tokens of refreshes that were refused

vars == <<users, session, cookie, tab, req, expiries, faults, shared, loggedOut, refused>>

Token == 1..MaxTokens
Unissued == [state |-> "unissued", parent |-> 0]
Free == [kind |-> "none", tab |-> None, step |-> "none", carried |-> 0, made |-> 0,
         heard |-> FALSE]
\* data: the access token in the session query; removed: the query is out of
\* the cache, the tab shows its data until it renders again.
Closed == [data |-> "closed", removed |-> FALSE, lock |-> FALSE, air |-> 0, waiting |-> 0]

\* Nobody has registered, or a browser comes back with a cookie.
Init ==
    /\ \/ users = 0 /\ cookie = 0 /\ session = [k \in Token |-> Unissued]
       \/ /\ users = 1 /\ cookie = 1 /\ 1 \in Token
          /\ session = [k \in Token |->
                           IF k = 1 THEN [Unissued EXCEPT !.state = "live"] ELSE Unissued]
    /\ tab = [t \in Tab |-> Closed]
    /\ req = [r \in Request |-> Free]
    /\ expiries = 0 /\ faults = 0
    /\ shared = {} /\ loggedOut = {} /\ refused = {}

-----------------------------------------------------------------------------
(***************************************************************************)
(* Sending.                                                                *)
(***************************************************************************)
InFlight == {r \in Request : req[r] # Free}
Issued == {k \in Token : session[k] # Unissued}
\* Only requests that can still be given a token are sent.
Room == Cardinality(Issued) + Cardinality({r \in InFlight : req[r].made = 0}) < MaxTokens

Carries(kind) == kind \in {"restore", "retry", "logout"}
FirstStep(kind) == CASE kind \in {"restore", "retry"} -> "find"
                     [] kind = "login" -> "issue"
                     [] kind = "register" -> "check"
                     [] kind = "logout" -> "revoke"

Send(r, t, kind) ==
    /\ req[r] = Free
    /\ Room
    /\ req' = [req EXCEPT ![r] = [kind |-> kind, tab |-> t, step |-> FirstStep(kind),
                                  carried |-> IF Carries(kind) THEN cookie ELSE 0,
                                  made |-> 0, heard |-> TRUE]]
    /\ shared' = shared \cup {k \in Token : /\ Carries(kind) /\ k = cookie
                                            /\ \E q \in Request : req[q].carried = k}
    /\ UNCHANGED <<users, session, cookie, expiries, loggedOut, refused>>

\* AuthProvider mounts: the session query has no data and is fetched.
Load(r, t) ==
    /\ tab[t].data = "closed"
    /\ tab' = [tab EXCEPT ![t].data = "none"]
    /\ Send(r, t, "restore")
    /\ UNCHANGED faults

\* A render after the query was removed makes a new one, which is fetched.
Rerender(r, t) ==
    /\ tab[t].removed
    /\ tab' = [tab EXCEPT ![t].removed = FALSE, ![t].data = "none"]
    /\ Send(r, t, "restore")
    /\ UNCHANGED faults

\* The login and register forms, and the sign-out button.
Submit(r, t, kind) ==
    /\ \/ kind \in {"login", "register"} /\ tab[t].data = "none"
       \/ kind = "logout" /\ tab[t].data \in {"valid", "expired"}
    /\ \A q \in Request : req[q].kind = kind => req[q].tab # t
    /\ Send(r, t, kind)
    /\ UNCHANGED <<tab, faults>>

\* An API call leaves with an access token that the guard will refuse.
AccessRefused(t) == tab[t].data = "expired"

CallApi(t) ==
    /\ AccessRefused(t)
    /\ tab[t].air + tab[t].waiting < MaxCalls
    /\ tab' = [tab EXCEPT ![t].air = @ + 1]
    /\ UNCHANGED <<users, session, cookie, req, expiries, faults, shared, loggedOut, refused>>

\* Its refusal makes the call wait for the refresh of the tab, and start one
\* if none is on its way.
Locked(t) == tab[t].lock

JoinRefresh(t) ==
    /\ tab[t].air > 0
    /\ Locked(t)
    /\ tab' = [tab EXCEPT ![t].air = @ - 1, ![t].waiting = @ + 1]
    /\ UNCHANGED <<users, session, cookie, req, expiries, faults, shared, loggedOut, refused>>

StartRefresh(r, t) ==
    /\ tab[t].air > 0
    /\ ~Locked(t)
    /\ tab' = [tab EXCEPT ![t].air = @ - 1, ![t].waiting = @ + 1, ![t].lock = TRUE]
    /\ Send(r, t, "retry")
    /\ UNCHANGED faults

-----------------------------------------------------------------------------
(***************************************************************************)
(* The API server: one statement per step.  A request whose tab no longer  *)
(* listens is served to its end and leaves nothing behind.                 *)
(***************************************************************************)
Step(r, step) == req[r].step = step
Refreshes(r) == req[r].kind \in {"restore", "retry"}

Advance(r, to) ==
    req' = [req EXCEPT ![r] = IF to \in {"ok", "no"} /\ ~req[r].heard THEN Free
                              ELSE [@ EXCEPT !.step = to]]

\* rotate: find by hash, refuse what is unknown, revoked or expired.
\* (Mutant: revokedAt is not looked at.)
UsableRevoked(k) == k # 0 /\ session[k].state \in {"live", "revoked"}
Usable(k) == k # 0 /\ session[k].state = "live"

Find(r) == LET k == req[r].carried IN
    /\ Step(r, "find")
    /\ \/ Usable(k) /\ Advance(r, "revoke") /\ UNCHANGED refused
       \/ /\ ~Usable(k)
          /\ Advance(r, "no")
          /\ refused' = IF k = 0 THEN refused ELSE refused \cup {k}
    /\ UNCHANGED <<users, session, cookie, tab, expiries, faults, shared, loggedOut>>

\* rotate: the update is by id, whatever happened since.
RevokeOld(r) ==
    /\ Step(r, "revoke") /\ Refreshes(r)
    /\ session' = [session EXCEPT ![req[r].carried].state = "revoked"]
    /\ Advance(r, "issue")
    /\ UNCHANGED <<users, cookie, tab, expiries, faults, shared, loggedOut, refused>>

\* login: nobody has the address.
RefuseLogin(r) ==
    /\ Step(r, "issue") /\ req[r].kind = "login"
    /\ users = 0
    /\ Advance(r, "no")
    /\ UNCHANGED <<users, session, cookie, tab, expiries, faults, shared, loggedOut, refused>>

\* create: the token that is made remembers the one it replaces.
Issue(r) ==
    /\ Step(r, "issue")
    /\ req[r].kind = "login" => users > 0
    /\ \E k \in Token \ Issued :
          /\ \A l \in Token \ Issued : k <= l
          /\ session' = [session EXCEPT ![k] = [state |-> "live", parent |-> req[r].carried]]
          /\ req' = [req EXCEPT ![r] = IF ~req[r].heard THEN Free
                                       ELSE [@ EXCEPT !.step = "ok", !.made = k]]
    /\ UNCHANGED <<users, cookie, tab, expiries, faults, shared, loggedOut, refused>>

\* revoke: updateMany where revokedAt is null.
\* (Mutant: logout only clears the cookie.)
RevokedNever(k) == session
Revoked(k) == [l \in Token |-> IF l = k /\ session[l].state = "live"
                               THEN [session[l] EXCEPT !.state = "revoked"]
                               ELSE session[l]]

Logout(r) ==
    /\ Step(r, "revoke") /\ req[r].kind = "logout"
    /\ session' = Revoked(req[r].carried)
    /\ loggedOut' = loggedOut \cup ({req[r].carried} \ {0})
    /\ Advance(r, "ok")
    /\ UNCHANGED <<users, cookie, tab, expiries, faults, shared, refused>>

\* register: the address is looked up, then user, workspace and membership are
\* inserted in one transaction, which the unique address may refuse.
Insertable == users = 0

CheckAddress(r) ==
    /\ Step(r, "check")
    /\ Advance(r, IF users = 0 THEN "insert" ELSE "no")
    /\ UNCHANGED <<users, session, cookie, tab, expiries, faults, shared, loggedOut, refused>>

InsertUser(r) ==
    /\ Step(r, "insert")
    /\ IF Insertable THEN users' = users + 1 /\ Advance(r, "issue")
                     ELSE UNCHANGED users /\ Advance(r, "no")
    /\ UNCHANGED <<session, cookie, tab, expiries, faults, shared, loggedOut, refused>>

-----------------------------------------------------------------------------
(***************************************************************************)
(* Answers.                                                                *)
(***************************************************************************)
\* The Set-Cookie header of an answer; one that is already expired is dropped.
\* (Mutant: the refresh endpoint does not set the cookie.)
CookieNotRotated(r) == IF req[r].kind = "logout" THEN 0 ELSE cookie
CookieAfter(r) ==
    CASE req[r].kind = "logout" -> 0
      [] req[r].kind # "logout" /\ req[r].made = 0 -> cookie
      [] OTHER -> IF session[req[r].made].state = "expired" THEN 0 ELSE req[r].made

SignedIn(s) == [s EXCEPT !.data = "valid", !.removed = FALSE]
SignedOut(s) == [s EXCEPT !.removed = TRUE]

\* The waiting calls are executed again; any failure of theirs, of whatever
\* kind, removes the session query.
Retried(s) == {[SignedIn(s) EXCEPT !.waiting = 0, !.lock = FALSE],
               [SignedOut(SignedIn(s)) EXCEPT !.waiting = 0, !.lock = FALSE]}

\* (Mutant: the lock is released by a success only.)
FailedKeepsLock(kind, s) ==
    IF kind = "retry" THEN [SignedOut(s) EXCEPT !.waiting = 0] ELSE s
Failed(kind, s) ==
    IF kind = "retry" THEN [SignedOut(s) EXCEPT !.waiting = 0, !.lock = FALSE] ELSE s

Succeeded(kind, s) ==
    CASE kind = "retry" -> Retried(s)
      [] kind = "logout" -> {SignedOut(s)}
      [] kind = "restore" -> {[s EXCEPT !.data = "valid"]}
      [] OTHER -> {SignedIn(s)}

Answer(r) == LET t == req[r].tab IN
    /\ req[r].heard
    /\ \/ /\ Step(r, "ok")
          /\ \E s \in Succeeded(req[r].kind, tab[t]) : tab' = [tab EXCEPT ![t] = s]
          /\ cookie' = CookieAfter(r)
       \/ /\ Step(r, "no")
          /\ tab' = [tab EXCEPT ![t] = Failed(req[r].kind, @)]
          /\ UNCHANGED cookie
    /\ req' = [req EXCEPT ![r] = Free]
    /\ UNCHANGED <<users, session, expiries, faults, shared, loggedOut, refused>>

-----------------------------------------------------------------------------
(***************************************************************************)
(* Faults and time.                                                        *)
(***************************************************************************)
Fault == faults < MaxFaults /\ faults' = faults + 1

\* The tab gives up after 20 seconds or loses the connection: an answer that
\* was on its way is lost with its cookie, a request that is being served is
\* served to its end.
Unheard(q) == IF q.step \in {"ok", "no"} THEN Free ELSE [q EXCEPT !.heard = FALSE]

TimeOut(r) == LET t == req[r].tab IN
    /\ req[r].heard
    /\ Fault
    /\ tab' = [tab EXCEPT ![t] = Failed(req[r].kind, @)]
    /\ req' = [req EXCEPT ![r] = Unheard(@)]
    /\ UNCHANGED <<users, session, cookie, expiries, shared, loggedOut, refused>>

\* The server dies, or the request never arrives.
Drop(r) == LET t == req[r].tab IN
    /\ req[r].heard
    /\ Fault
    /\ tab' = [tab EXCEPT ![t] = Failed(req[r].kind, @)]
    /\ req' = [req EXCEPT ![r] = Free]
    /\ UNCHANGED <<users, session, cookie, expiries, shared, loggedOut, refused>>

\* The user reloads or closes the page: nothing of the tab hears its answers.
Reload(t) ==
    /\ tab[t] # Closed
    /\ Fault
    /\ tab' = [tab EXCEPT ![t] = Closed]
    /\ req' = [r \in Request |-> IF req[r].tab = t THEN Unheard(req[r]) ELSE req[r]]
    /\ UNCHANGED <<users, session, cookie, expiries, shared, loggedOut, refused>>

AccessExpires(t) ==
    /\ tab[t].data = "valid"
    /\ expiries < MaxExpiries
    /\ expiries' = expiries + 1
    /\ tab' = [tab EXCEPT ![t].data = "expired"]
    /\ UNCHANGED <<users, session, cookie, req, faults, shared, loggedOut, refused>>

\* The row and the cookie carry the same time.
SessionExpires(k) ==
    /\ session[k].state = "live"
    /\ expiries < MaxExpiries
    /\ expiries' = expiries + 1
    /\ session' = [session EXCEPT ![k].state = "expired"]
    /\ cookie' = IF cookie = k THEN 0 ELSE cookie
    /\ UNCHANGED <<users, tab, req, faults, shared, loggedOut, refused>>

-----------------------------------------------------------------------------
Serve(r) ==
    \/ Find(r) \/ RevokeOld(r) \/ RefuseLogin(r) \/ Issue(r)
    \/ Logout(r) \/ CheckAddress(r) \/ InsertUser(r)

TabActs(r, t) == \/ Load(r, t) \/ Rerender(r, t) \/ StartRefresh(r, t)
                 \/ \E kind \in {"login", "register", "logout"} : Submit(r, t, kind)

Next ==
    \/ \E r \in Request : Serve(r) \/ Answer(r) \/ TimeOut(r) \/ Drop(r)
    \/ \E r \in Request, t \in Tab : TabActs(r, t)
    \/ \E t \in Tab : CallApi(t) \/ JoinRefresh(t) \/ Reload(t) \/ AccessExpires(t)
    \/ \E k \in Token : SessionExpires(k)

Spec == Init /\ [][Next]_vars

\* The server executes the statements of a request; an answer is delivered, or
\* the 20 seconds of the client run out.
Fairness == \A r \in Request : WF_vars(Serve(r)) /\ WF_vars(Answer(r))

FairSpec == Spec /\ Fairness

-----------------------------------------------------------------------------
TabRecord == [data : {"closed", "none", "valid", "expired"}, removed : BOOLEAN,
              lock : BOOLEAN, air : 0..MaxCalls, waiting : 0..MaxCalls]
Kinds == {"none", "restore", "retry", "login", "register", "logout"}
Steps == {"none", "find", "revoke", "issue", "check", "insert", "ok", "no"}

\* Calls only wait while the lock of their tab is taken.
TypeOK ==
    /\ users \in Nat
    /\ session \in [Token -> [state : {"unissued", "live", "revoked", "expired"},
                              parent : Token \cup {0}]]
    /\ cookie \in Token \cup {0}
    /\ tab \in [Tab -> TabRecord]
    /\ req \in [Request -> [kind : Kinds, tab : Tab \cup {None}, step : Steps,
                            carried : Token \cup {0}, made : Token \cup {0},
                            heard : BOOLEAN]]
    /\ expiries \in 0..MaxExpiries /\ faults \in 0..MaxFaults
    /\ shared \in SUBSET Token /\ loggedOut \in SUBSET Token /\ refused \in SUBSET Token
    /\ \A t \in Tab : tab[t].waiting > 0 => tab[t].lock

Children(k) == {c \in Token : session[c].parent = k}

\* However tabs race, the browser is left with a cookie that still works, or
\* with none, unless an answer was lost: rotation replaces what it revokes.
CookieIsCurrent ==
    faults = 0 /\ InFlight = {} => cookie = 0 \/ session[cookie].state = "live"

\* A token that no two requests carried at the same time is replaced once at
\* most, however often it is presented (after a lost answer, a reload), and
\* without faults it is not refused before it expires: nobody is signed out by
\* the rotation alone.
UnsharedIsServed ==
    \A k \in Token \ shared :
        /\ Cardinality(Children(k)) <= 1
        /\ faults = 0 /\ k \in refused => session[k].state = "expired"

\* A session that was signed out gets no successor, unless a refresh that
\* carried the same token was on its way.
LogoutIsFinal ==
    [][\A k \in loggedOut : k \notin shared => Children(k)' = Children(k)]_vars

\* The API calls of one tab that are refused together share one refresh.
OneRetryPerTab ==
    \A t \in Tab : Cardinality({r \in Request : /\ req[r].tab = t /\ req[r].heard
                                                /\ req[r].kind = "retry"}) <= 1

\* Calls that wait for a refresh are let go: every answer, refusal and timeout
\* releases the lock.
LockIsReleased == \A t \in Tab : tab[t].lock ~> ~tab[t].lock
=============================================================================
