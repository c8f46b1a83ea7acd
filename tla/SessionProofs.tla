--------------------------- MODULE SessionProofs ---------------------------
(***************************************************************************)
(* Theorems about Sessions, for any number of tabs, requests, tokens and   *)
(* faults.                                                                 *)
(*                                                                         *)
(* A refresh that has passed its check goes on to issue a successor, also  *)
(* when the token is signed out meanwhile.  That a signed-out token gets   *)
(* no successor otherwise rests on what two requests know of each other:   *)
(* two that carry the same token are noted as sharing it when the second   *)
(* one is sent, and a token that was signed out never passes a check       *)
(* again.                                                                  *)
(*                                                                         *)
(* That rotation signs nobody out rests on the life of one token: it is    *)
(* made for one request, which brings it to the browser; it is revoked by  *)
(* one request that carries it, which then makes the only successor; and   *)
(* as long as no answer is lost, the browser keeps a revoked token only    *)
(* while the request that revoked it is still on its way.                  *)
(***************************************************************************)
EXTENDS Sessions, TLAPS, FiniteSetTheorems

SessionsTyped == session \in [Token -> [state : {"unissued", "live", "revoked", "expired"},
                                        parent : Token \cup {0}]]
RequestsTyped == req \in [Request -> [kind : Kinds, tab : Tab \cup {None}, step : Steps,
                                      carried : Token \cup {0}, made : Token \cup {0},
                                      heard : BOOLEAN]]

Known(k) == session[k].state # "unissued"

(* What the browser and its requests carry, and what was signed out, was   *)
(* issued.                                                                 *)
CarriedIsIssued ==
    /\ cookie # 0 => Known(cookie)
    /\ \A r \in Request : /\ req[r].carried # 0 => Known(req[r].carried)
                          /\ req[r].made # 0 => Known(req[r].made)

SharedIsNoted ==
    \A r, q \in Request : r # q /\ req[r].carried = req[q].carried /\ req[r].carried # 0
                          => req[r].carried \in shared

LoggedOutIsOver == \A k \in loggedOut : session[k].state \in {"revoked", "expired"}

(* A refresh that has passed its check carries a token, and one that is    *)
(* signed out since only if it was shared.                                 *)
Passed(q) == q.kind \in {"restore", "retry"} /\ q.step \in {"revoke", "issue"}
PassedBefore ==
    \A r \in Request : Passed(req[r]) =>
        /\ req[r].carried # 0
        /\ req[r].carried \notin loggedOut \/ req[r].carried \in shared

(* Only a refresh issues a successor; each kind has its own steps.         *)
OthersCarryNone ==
    \A r \in Request : /\ req[r].kind \in {"login", "register"} => req[r].carried = 0
                       /\ req[r].kind = "logout" =>
                             req[r].step \notin {"find", "issue", "check", "insert"}
                       /\ req[r].kind \in {"restore", "retry"} =>
                             req[r].step \notin {"check", "insert"}
                       /\ req[r].kind = "none" => req[r].step = "none"

TablesTyped == /\ SessionsTyped /\ RequestsTyped /\ cookie \in Token \cup {0}
               /\ shared \subseteq Token /\ loggedOut \subseteq Token
Inv == /\ TablesTyped /\ CarriedIsIssued /\ SharedIsNoted /\ LoggedOutIsOver
       /\ PassedBefore /\ OthersCarryNone

LEMMA InitInv == Init => Inv
<1> SUFFICES ASSUME Init PROVE Inv
  OBVIOUS
<1>1. SessionsTyped
  BY DEF Init, SessionsTyped, Unissued, Token
<1>2. RequestsTyped
  BY DEF Init, RequestsTyped, Free, Kinds, Steps
<1>3. \A r \in Request : req[r] = Free
  BY DEF Init
<1>4. cookie = 0 \/ (cookie = 1 /\ 1 \in Token /\ Known(1))
  BY DEF Init, Known, Unissued, Token
<1>5. CarriedIsIssued /\ SharedIsNoted /\ PassedBefore /\ OthersCarryNone
  BY <1>3, <1>4 DEF CarriedIsIssued, SharedIsNoted, PassedBefore, Passed, OthersCarryNone, Free
<1> QED
  BY <1>1, <1>2, <1>4, <1>5 DEF Init, Inv, TablesTyped, LoggedOutIsOver

-----------------------------------------------------------------------------
(* A request that moves on keeps its kind and what it carries.             *)
LEMMA Advances ==
    ASSUME RequestsTyped, NEW r \in Request, NEW to \in Steps, Advance(r, to)
    PROVE  /\ RequestsTyped'
           /\ \A q \in Request : q # r => req'[q] = req[q]
           /\ \/ req'[r] = Free
              \/ /\ req'[r].kind = req[r].kind /\ req'[r].carried = req[r].carried
                 /\ req'[r].made = req[r].made /\ req'[r].step = to
<1>1. req' = [req EXCEPT ![r] = Free] \/ req' = [req EXCEPT ![r].step = to]
  BY DEF Advance, RequestsTyped
<1>2. Free \in [kind : Kinds, tab : Tab \cup {None}, step : Steps, carried : Token \cup {0},
                made : Token \cup {0}, heard : BOOLEAN]
  BY DEF Free, Kinds, Steps
<1>3. CASE req' = [req EXCEPT ![r] = Free]
  BY <1>2, <1>3 DEF RequestsTyped
<1>4. CASE req' = [req EXCEPT ![r].step = to]
  BY <1>4 DEF RequestsTyped
<1> QED
  BY <1>1, <1>3, <1>4

(* A step that sends nothing and signs nobody out: requests are freed or   *)
(* keep what they carry, sessions that are over stay so.                   *)
LEMMA Quiet ==
    ASSUME Inv, SessionsTyped', RequestsTyped', cookie' \in Token \cup {0},
           UNCHANGED <<shared, loggedOut>>,
           \A k \in Token : Known(k) => Known(k)',
           \A k \in Token : session[k].state \in {"revoked", "expired"}
                            => session'[k].state \in {"revoked", "expired"},
           cookie' # 0 => Known(cookie)',
           \A q \in Request :
              \/ req'[q] = Free
              \/ /\ req'[q].kind = req[q].kind /\ req'[q].carried = req[q].carried
                 /\ req'[q].made # 0 => req'[q].made = req[q].made \/ Known(req[q].made)'
                 /\ req'[q].step \in {"find", "issue", "check", "insert"} =>
                        req'[q].step = req[q].step \/ req[q].kind # "logout"
                 /\ req'[q].step \in {"check", "insert"} =>
                        req'[q].step = req[q].step \/ req[q].kind \notin {"restore", "retry"}
                 /\ req'[q].step = req[q].step \/ req[q].step # "none"
                 /\ Passed(req'[q]) => \/ Passed(req[q])
                                       \/ /\ req[q].carried # 0
                                          /\ session[req[q].carried].state = "live"
    PROVE  Inv'
<1> USE DEF Inv, TablesTyped
<1>1. TablesTyped'
  OBVIOUS
<1>2. \A q \in Request : /\ req[q].carried \in Token \cup {0} /\ req[q].made \in Token \cup {0}
                         /\ req'[q].made \in Token \cup {0}
  BY DEF RequestsTyped
<1>3. CarriedIsIssued'
  <2>1. \A k \in Token : Known(k) => session'[k].state # "unissued"
    BY DEF Known
  <2>2. cookie' # 0 => session'[cookie'].state # "unissued"
    BY DEF Known
  <2>3. ASSUME NEW q \in Request
        PROVE  /\ req'[q].carried # 0 => session'[req'[q].carried].state # "unissued"
               /\ req'[q].made # 0 => session'[req'[q].made].state # "unissued"
    BY <1>2, <2>1, <2>3 DEF CarriedIsIssued, Known, Free
  <2> QED
    BY <2>2, <2>3 DEF CarriedIsIssued, Known
<1>4. SharedIsNoted'
  BY DEF SharedIsNoted, Free
<1>5. LoggedOutIsOver'
  BY DEF LoggedOutIsOver
<1>6. PassedBefore'
  <2> SUFFICES ASSUME NEW q \in Request, Passed(req'[q])
               PROVE  /\ req'[q].carried # 0
                      /\ req'[q].carried \notin loggedOut \/ req'[q].carried \in shared
    BY DEF PassedBefore
  <2>1. req'[q] # Free
    BY DEF Passed, Free
  <2>2. CASE Passed(req[q])
    BY <2>1, <2>2 DEF PassedBefore
  <2>3. CASE req[q].carried # 0 /\ session[req[q].carried].state = "live"
    BY <2>1, <2>3 DEF LoggedOutIsOver
  <2> QED
    BY <2>1, <2>2, <2>3
<1>7. OthersCarryNone'
  <2> SUFFICES ASSUME NEW q \in Request
               PROVE  /\ req'[q].kind \in {"login", "register"} => req'[q].carried = 0
                      /\ req'[q].kind = "logout" =>
                             req'[q].step \notin {"find", "issue", "check", "insert"}
                      /\ req'[q].kind \in {"restore", "retry"} =>
                             req'[q].step \notin {"check", "insert"}
                      /\ req'[q].kind = "none" => req'[q].step = "none"
    BY DEF OthersCarryNone
  <2>1. CASE req'[q] = Free
    BY <2>1 DEF Free
  <2>2. CASE req'[q] # Free
    BY <2>2 DEF OthersCarryNone
  <2> QED
    BY <2>1, <2>2
<1> QED
  BY <1>1, <1>3, <1>4, <1>5, <1>6, <1>7

(* Sending: a second request with the same cookie is noted.                *)
LEMMA Sends ==
    ASSUME Inv, NEW r \in Request, NEW t \in Tab, NEW kind \in Kinds \ {"none"},
           Send(r, t, kind)
    PROVE  Inv'
<1> USE DEF Inv, TablesTyped
<1> DEFINE new == [kind |-> kind, tab |-> t, step |-> FirstStep(kind),
                   carried |-> IF Carries(kind) THEN cookie ELSE 0, made |-> 0, heard |-> TRUE]
<1>1. /\ req' = [req EXCEPT ![r] = new]
      /\ UNCHANGED <<session, cookie, loggedOut>>
      /\ shared' = shared \cup {k \in Token : /\ Carries(kind) /\ k = cookie
                                             /\ \E q \in Request : req[q].carried = k}
  BY DEF Send
<1>2. FirstStep(kind) \in Steps /\ (kind = "logout" => FirstStep(kind) = "revoke")
      /\ (kind \in {"restore", "retry"} => FirstStep(kind) = "find")
  BY DEF FirstStep, Steps, Kinds
<1>3. new.carried = 0 \/ (Carries(kind) /\ new.carried = cookie)
  OBVIOUS
<1>4. new \in [kind : Kinds, tab : Tab \cup {None}, step : Steps, carried : Token \cup {0},
               made : Token \cup {0}, heard : BOOLEAN]
  BY <1>2
<1>5. RequestsTyped'
  BY <1>1, <1>4 DEF RequestsTyped
<1>6. /\ req'[r] = new
      /\ \A q \in Request : q # r => req'[q] = req[q]
  BY <1>1 DEF RequestsTyped
<1>7. new.kind = kind /\ new.step = FirstStep(kind) /\ new.made = 0
      /\ (kind \in {"login", "register"} => new.carried = 0)
  BY DEF Carries
<1> HIDE DEF new
<1>8. TablesTyped'
  BY <1>1, <1>5 DEF SessionsTyped
<1>9. CarriedIsIssued'
  BY <1>1, <1>3, <1>6, <1>7 DEF CarriedIsIssued, Known
<1>10. SharedIsNoted'
  <2>1. \A q \in Request : q # r /\ req[q].carried = new.carried /\ new.carried # 0
                           => new.carried \in shared'
    BY <1>1, <1>3
  <2> QED
    BY <1>1, <1>6, <2>1 DEF SharedIsNoted
<1>11. LoggedOutIsOver'
  BY <1>1 DEF LoggedOutIsOver
<1>12. PassedBefore'
  <2>1. ~Passed(new)
    BY <1>2, <1>7 DEF Passed
  <2> QED
    BY <1>1, <1>6, <2>1 DEF PassedBefore
<1>13. OthersCarryNone'
  BY <1>2, <1>6, <1>7 DEF OthersCarryNone
<1> QED
  BY <1>8, <1>9, <1>10, <1>11, <1>12, <1>13

(* Signing out: a refresh that is on its way with the token shares it.     *)
LEMMA SignsOut ==
    ASSUME Inv, NEW r \in Request, Logout(r)
    PROVE  Inv'
<1> USE DEF Inv, TablesTyped
<1>1. /\ req[r].kind = "logout" /\ Advance(r, "ok")
      /\ loggedOut' = loggedOut \cup ({req[r].carried} \ {0})
      /\ session' = [l \in Token |-> IF l = req[r].carried /\ session[l].state = "live"
                                     THEN [session[l] EXCEPT !.state = "revoked"]
                                     ELSE session[l]]
      /\ UNCHANGED <<cookie, shared>>
  BY DEF Logout, Revoked
<1>2. /\ RequestsTyped'
      /\ \A q \in Request : q # r => req'[q] = req[q]
      /\ \/ req'[r] = Free
         \/ /\ req'[r].kind = req[r].kind /\ req'[r].carried = req[r].carried
            /\ req'[r].made = req[r].made /\ req'[r].step = "ok"
  BY <1>1, Advances DEF Steps
<1>3. /\ SessionsTyped'
      /\ \A k \in Token : Known(k) => session'[k].state # "unissued"
      /\ \A k \in Token : session[k].state \in {"revoked", "expired"}
                           => session'[k].state \in {"revoked", "expired"}
  BY <1>1 DEF SessionsTyped, Known
<1>4. \A q \in Request : /\ req[q].carried \in Token \cup {0} /\ req[q].made \in Token \cup {0}
  BY DEF RequestsTyped
<1>5. TablesTyped'
  BY <1>1, <1>2, <1>3, <1>4
<1>6. CarriedIsIssued'
  BY <1>1, <1>2, <1>3, <1>4 DEF CarriedIsIssued, Known, Free
<1>7. SharedIsNoted'
  BY <1>1, <1>2 DEF SharedIsNoted, Free
<1>8. LoggedOutIsOver'
  <2>1. req[r].carried # 0 => session'[req[r].carried].state \in {"revoked", "expired"}
    BY <1>1, <1>4 DEF SessionsTyped, CarriedIsIssued, Known
  <2> QED
    BY <1>1, <1>3, <2>1 DEF LoggedOutIsOver
<1>9. PassedBefore'
  BY <1>1, <1>2 DEF PassedBefore, SharedIsNoted, Passed, Free
<1>10. OthersCarryNone'
  BY <1>1, <1>2 DEF OthersCarryNone, Free
<1> QED
  BY <1>5, <1>6, <1>7, <1>8, <1>9, <1>10

(* The statements of the API, other than those that issue or sign out.     *)
LEMMA Statements ==
    ASSUME Inv, NEW r \in Request,
           Find(r) \/ RevokeOld(r) \/ RefuseLogin(r) \/ CheckAddress(r) \/ InsertUser(r)
    PROVE  Inv'
<1> USE DEF Inv, TablesTyped
<1>1. UNCHANGED <<cookie, shared, loggedOut>>
  BY DEF Find, RevokeOld, RefuseLogin, CheckAddress, InsertUser
<1>2. req[r].carried \in Token \cup {0} /\ req[r].kind \in Kinds
  BY DEF RequestsTyped
<1>3. /\ SessionsTyped'
      /\ \A k \in Token : Known(k) => session'[k].state # "unissued"
      /\ \A k \in Token : session[k].state \in {"revoked", "expired"}
                           => session'[k].state \in {"revoked", "expired"}
  <2>1. CASE RevokeOld(r)
    BY <2>1 DEF RevokeOld, SessionsTyped, Known
  <2>2. CASE UNCHANGED session
    BY <2>2 DEF SessionsTyped, Known
  <2> QED
    BY <2>1, <2>2 DEF Find, RefuseLogin, CheckAddress, InsertUser
<1> DEFINE Moves(to) ==
       /\ Advance(r, to) /\ req[r].step # "none"
       /\ to \in {"issue", "insert"} => req[r].kind # "logout"
       /\ to = "insert" => req[r].kind \notin {"restore", "retry"}
       /\ to \in {"revoke", "issue"} /\ req[r].kind \in {"restore", "retry"} =>
             \/ req[r].step = "revoke"
             \/ req[r].carried # 0 /\ session[req[r].carried].state = "live"
<1>4. PICK to \in {"revoke", "issue", "no", "insert"} : Moves(to)
  <2>1. CASE Find(r)
    BY <2>1 DEF Find, Step, Usable
  <2>2. CASE RevokeOld(r)
    BY <2>2 DEF RevokeOld, Step, Refreshes
  <2>3. CASE RefuseLogin(r)
    BY <2>3 DEF RefuseLogin, Step
  <2>4. CASE CheckAddress(r)
    BY <2>4 DEF CheckAddress, Step, OthersCarryNone
  <2>5. CASE InsertUser(r)
    BY <2>5 DEF InsertUser, Step, OthersCarryNone
  <2> QED
    BY <2>1, <2>2, <2>3, <2>4, <2>5
<1>5. /\ RequestsTyped'
      /\ \A q \in Request : q # r => req'[q] = req[q]
      /\ \/ req'[r] = Free
         \/ /\ req'[r].kind = req[r].kind /\ req'[r].carried = req[r].carried
            /\ req'[r].made = req[r].made /\ req'[r].step = to
  BY <1>4, Advances DEF Steps
<1>6. cookie' # 0 => session'[cookie'].state # "unissued"
  BY <1>1, <1>3 DEF CarriedIsIssued, Known
<1> QED
  BY <1>1, <1>3, <1>4, <1>5, <1>6, Quiet DEF Known, Passed

(* A session is made, for a request that is not a logout.                  *)
LEMMA Issues ==
    ASSUME Inv, NEW r \in Request, Issue(r)
    PROVE  /\ Inv'
           /\ \A c \in Token : \/ session'[c].parent = session[c].parent
                               \/ /\ session[c].parent = 0
                                  /\ session'[c].parent = req[r].carried
           /\ req[r].carried \notin loggedOut \/ req[r].carried \in shared
<1> USE DEF Inv, TablesTyped
<1>1. PICK k \in Token :
         /\ session[k] = Unissued
         /\ session' = [session EXCEPT ![k] = [state |-> "live", parent |-> req[r].carried]]
         /\ req' = [req EXCEPT ![r] = IF ~req[r].heard THEN Free
                                      ELSE [@ EXCEPT !.step = "ok", !.made = k]]
  BY DEF Issue, Issued
<1>2. /\ UNCHANGED <<cookie, shared, loggedOut>>
      /\ req[r].step = "issue"
  BY DEF Issue, Step
<1>3. req[r].carried \in Token \cup {0} /\ req[r].kind \in Kinds
  BY DEF RequestsTyped
<1>4. /\ SessionsTyped'
      /\ session'[k].state = "live"
      /\ \A l \in Token : Known(l) => session'[l].state # "unissued"
      /\ \A l \in Token : session[l].state \in {"revoked", "expired"}
                           => session'[l].state \in {"revoked", "expired"}
  BY <1>1, <1>3 DEF SessionsTyped, Known, Unissued
<1>5. /\ RequestsTyped'
      /\ \A q \in Request : q # r => req'[q] = req[q]
      /\ \/ req'[r] = Free
         \/ /\ req'[r].kind = req[r].kind /\ req'[r].carried = req[r].carried
            /\ req'[r].made = k /\ req'[r].step = "ok"
  <2>1. CASE req' = [req EXCEPT ![r] = Free]
    BY <2>1 DEF RequestsTyped, Free, Kinds, Steps
  <2>2. CASE req' = [req EXCEPT ![r] = [@ EXCEPT !.step = "ok", !.made = k]]
    BY <2>2 DEF RequestsTyped, Steps
  <2> QED
    BY <1>1, <2>1, <2>2
<1>6. cookie' # 0 => session'[cookie'].state # "unissued"
  BY <1>2, <1>4 DEF CarriedIsIssued, Known
<1>7. Inv'
  BY <1>2, <1>4, <1>5, <1>6, Quiet DEF Known, Passed
<1>8. \A c \in Token : \/ session'[c].parent = session[c].parent
                       \/ session[c].parent = 0 /\ session'[c].parent = req[r].carried
  BY <1>1 DEF SessionsTyped, Unissued
<1>9. req[r].carried \notin loggedOut \/ req[r].carried \in shared
  <2>1. CASE req[r].kind \in {"restore", "retry"}
    BY <1>2, <2>1 DEF PassedBefore, Passed
  <2>2. CASE req[r].kind \in {"login", "register"}
    BY <2>2 DEF OthersCarryNone, Token
  <2> QED
    BY <1>2, <1>3, <2>1, <2>2 DEF OthersCarryNone, Kinds
<1> QED
  BY <1>7, <1>8, <1>9

(* Requests that are answered, given up or lost are freed, or heard no     *)
(* more.                                                                   *)
LEMMA Deliveries ==
    ASSUME Inv, NEW r \in Request, Answer(r) \/ TimeOut(r) \/ Drop(r)
    PROVE  Inv'
<1> USE DEF Inv, TablesTyped
<1>1. /\ UNCHANGED <<session, shared, loggedOut>>
      /\ cookie' \in {cookie, 0, req[r].made}
  BY DEF Answer, TimeOut, Drop, CookieAfter
<1>2. req' = [req EXCEPT ![r] = Free] \/ req' = [req EXCEPT ![r].heard = FALSE]
  BY DEF Answer, TimeOut, Drop, Unheard
<1>3. /\ RequestsTyped'
      /\ \A q \in Request : \/ req'[q] = Free
                            \/ /\ req'[q].kind = req[q].kind /\ req'[q].carried = req[q].carried
                               /\ req'[q].made = req[q].made /\ req'[q].step = req[q].step
  <2>1. CASE req' = [req EXCEPT ![r] = Free]
    BY <2>1 DEF RequestsTyped, Free, Kinds, Steps
  <2>2. CASE req' = [req EXCEPT ![r].heard = FALSE]
    BY <2>2 DEF RequestsTyped
  <2> QED
    BY <1>2, <2>1, <2>2
<1>4. cookie' \in Token \cup {0} /\ (cookie' # 0 => Known(cookie'))
  BY <1>1 DEF CarriedIsIssued, RequestsTyped
<1> QED
  BY <1>1, <1>3, <1>4, Quiet DEF SessionsTyped, Known, Passed

LEMMA Reloads ==
    ASSUME Inv, NEW t \in Tab, Reload(t)
    PROVE  Inv'
<1> USE DEF Inv, TablesTyped
<1>1. /\ UNCHANGED <<session, cookie, shared, loggedOut>>
      /\ req' = [r \in Request |-> IF req[r].tab = t THEN Unheard(req[r]) ELSE req[r]]
  BY DEF Reload
<1>2. ASSUME NEW q \in Request
      PROVE  /\ req'[q] \in [kind : Kinds, tab : Tab \cup {None}, step : Steps,
                             carried : Token \cup {0}, made : Token \cup {0}, heard : BOOLEAN]
             /\ \/ req'[q] = Free
                \/ /\ req'[q].kind = req[q].kind /\ req'[q].carried = req[q].carried
                   /\ req'[q].made = req[q].made /\ req'[q].step = req[q].step
  <2>1. req'[q] = req[q] \/ req'[q] = Free \/ req'[q] = [req[q] EXCEPT !.heard = FALSE]
    BY <1>1 DEF Unheard
  <2>2. CASE req'[q] = Free
    BY <2>2 DEF Free, Kinds, Steps
  <2>3. CASE req'[q] = [req[q] EXCEPT !.heard = FALSE]
    BY <2>3 DEF RequestsTyped
  <2> QED
    BY <2>1, <2>2, <2>3 DEF RequestsTyped
<1>3. RequestsTyped'
  BY <1>1, <1>2 DEF RequestsTyped
<1> QED
  BY <1>1, <1>2, <1>3, Quiet DEF SessionsTyped, Known, Passed, CarriedIsIssued

LEMMA Expires ==
    ASSUME Inv, NEW k \in Token, SessionExpires(k)
    PROVE  Inv'
<1> USE DEF Inv, TablesTyped
<1>1. /\ UNCHANGED <<req, shared, loggedOut>> /\ cookie' \in {cookie, 0}
      /\ session' = [session EXCEPT ![k].state = "expired"]
  BY DEF SessionExpires
<1>2. /\ SessionsTyped'
      /\ \A l \in Token : Known(l) => session'[l].state # "unissued"
      /\ \A l \in Token : session[l].state \in {"revoked", "expired"}
                           => session'[l].state \in {"revoked", "expired"}
  BY <1>1 DEF SessionsTyped, Known
<1>3. cookie' # 0 => session'[cookie'].state # "unissued"
  BY <1>1, <1>2 DEF CarriedIsIssued, Known
<1>4. RequestsTyped'
  BY <1>1 DEF RequestsTyped
<1>5. cookie' \in Token \cup {0}
  BY <1>1
<1> QED
  BY <1>1, <1>2, <1>3, <1>4, <1>5, Quiet DEF Known, CarriedIsIssued

LEMMA InvStep == Inv /\ [Next]_vars => Inv'
<1> SUFFICES ASSUME Inv, [Next]_vars PROVE Inv'
  OBVIOUS
<1>1. ASSUME NEW r \in Request, Serve(r) PROVE Inv'
  BY <1>1, Statements, Issues, SignsOut DEF Serve
<1>2. ASSUME NEW r \in Request, Answer(r) \/ TimeOut(r) \/ Drop(r) PROVE Inv'
  BY <1>2, Deliveries
<1>3. ASSUME NEW r \in Request, NEW t \in Tab, TabActs(r, t) PROVE Inv'
  <2>1. PICK kind \in Kinds \ {"none"} : Send(r, t, kind)
    BY <1>3 DEF TabActs, Load, Rerender, Submit, StartRefresh, Kinds
  <2> QED
    BY <2>1, Sends
<1>4. ASSUME UNCHANGED <<session, cookie, req, shared, loggedOut>> PROVE Inv'
  BY <1>4 DEF Inv, TablesTyped, SessionsTyped, RequestsTyped, CarriedIsIssued, Known,
              SharedIsNoted, LoggedOutIsOver, PassedBefore, OthersCarryNone
<1>5. ASSUME NEW t \in Tab, CallApi(t) \/ JoinRefresh(t) \/ AccessExpires(t) PROVE Inv'
  BY <1>4, <1>5 DEF CallApi, JoinRefresh, AccessExpires
<1>6. CASE UNCHANGED vars
  BY <1>4, <1>6 DEF vars
<1> QED
  BY <1>1, <1>2, <1>3, <1>5, <1>6, Reloads, Expires DEF Next

LEMMA InvCorrect == Spec => []Inv
<1> QED BY InitInv, InvStep, PTL DEF Spec

-----------------------------------------------------------------------------
(* A session that was signed out gets no successor, whatever tabs, lost    *)
(* answers and reloads do, unless a refresh that carried the same token    *)
(* was on its way.                                                         *)
THEOREM SignedOutStays == Spec => LogoutIsFinal
<1> DEFINE Final == \A k \in loggedOut : k \notin shared => Children(k)' = Children(k)
<1>1. Inv /\ [Next]_vars => [Final]_vars
  <2> SUFFICES ASSUME Inv, Next, NEW k \in loggedOut, k \notin shared
               PROVE  Children(k)' = Children(k)
    OBVIOUS
  <2>0. k \in Token
    BY DEF Inv, TablesTyped
  <2>1. ASSUME \A c \in Token : session'[c].parent = k <=> session[c].parent = k
        PROVE  Children(k)' = Children(k)
    BY <2>1 DEF Children
  <2>2. ASSUME NEW r \in Request, Issue(r) PROVE Children(k)' = Children(k)
    BY <2>0, <2>1, <2>2, Issues DEF Token
  <2>3. ASSUME NEW r \in Request, RevokeOld(r) PROVE Children(k)' = Children(k)
    BY <2>1, <2>3 DEF RevokeOld, Inv, TablesTyped, SessionsTyped
  <2>4. ASSUME NEW r \in Request, Logout(r) PROVE Children(k)' = Children(k)
    BY <2>1, <2>4 DEF Logout, Revoked, Inv, TablesTyped, SessionsTyped
  <2>5. ASSUME NEW l \in Token, SessionExpires(l) PROVE Children(k)' = Children(k)
    BY <2>1, <2>5 DEF SessionExpires, Inv, TablesTyped, SessionsTyped
  <2>6. ASSUME UNCHANGED session PROVE Children(k)' = Children(k)
    BY <2>1, <2>6
  <2>7. ASSUME NEW r \in Request,
               Find(r) \/ RefuseLogin(r) \/ CheckAddress(r) \/ InsertUser(r)
               \/ Answer(r) \/ TimeOut(r) \/ Drop(r)
        PROVE  Children(k)' = Children(k)
    BY <2>6, <2>7 DEF Find, RefuseLogin, CheckAddress, InsertUser, Answer, TimeOut, Drop
  <2>8. ASSUME NEW r \in Request, NEW t \in Tab, TabActs(r, t) PROVE Children(k)' = Children(k)
    BY <2>6, <2>8 DEF TabActs, Load, Rerender, Submit, StartRefresh, Send
  <2>9. ASSUME NEW t \in Tab, CallApi(t) \/ JoinRefresh(t) \/ AccessExpires(t) \/ Reload(t)
        PROVE  Children(k)' = Children(k)
    BY <2>6, <2>9 DEF CallApi, JoinRefresh, AccessExpires, Reload
  <2> QED
    BY <2>2, <2>3, <2>4, <2>5, <2>7, <2>8, <2>9 DEF Next, Serve
<1> QED
  BY <1>1, InvCorrect, PTL DEF Spec, LogoutIsFinal

-----------------------------------------------------------------------------
(* The lock of a tab: a refresh on behalf of waiting calls is sent under   *)
(* it, and it is released with that refresh.                               *)
Retrying(q, t) == q.tab = t /\ q.heard /\ q.kind = "retry"

Tabs == [data : {"closed", "none", "valid", "expired"}, removed : BOOLEAN,
         lock : BOOLEAN, air : Nat, waiting : Nat]
TabsTyped == tab \in [Tab -> Tabs]

LockIsOwned ==
    /\ \A r \in Request, t \in Tab : Retrying(req[r], t) => tab[t].lock = TRUE
    /\ \A r, q \in Request, t \in Tab :
          Retrying(req[r], t) /\ Retrying(req[q], t) => r = q

LEMMA LockStays ==
    ASSUME LockIsOwned,
           \A q \in Request, t \in Tab : Retrying(req'[q], t) =>
               Retrying(req[q], t) /\ tab'[t].lock = tab[t].lock
    PROVE  LockIsOwned'
<1> QED
  BY DEF LockIsOwned

(* What the answer to a refresh on behalf of waiting calls does to its     *)
(* tab.                                                                    *)
LEMMA Releases ==
    ASSUME NEW s \in Tabs
    PROVE  /\ [s EXCEPT !.waiting = 0, !.lock = FALSE] \in Tabs
           /\ [s EXCEPT !.waiting = 0, !.lock = FALSE].lock = FALSE
<1> DEFINE w == [s EXCEPT !.waiting = 0]
<1>1. [s EXCEPT !.waiting = 0, !.lock = FALSE] = [w EXCEPT !.lock = FALSE]
  BY DEF Tabs
<1>2. w \in Tabs
  BY DEF Tabs
<1> HIDE DEF w
<1>3. [w EXCEPT !.lock = FALSE] \in Tabs /\ [w EXCEPT !.lock = FALSE].lock = FALSE
  BY <1>2 DEF Tabs
<1> QED
  BY <1>1, <1>3

LEMMA TabsStep == TabsTyped /\ [Next]_vars => TabsTyped'
<1> SUFFICES ASSUME TabsTyped, [Next]_vars PROVE TabsTyped'
  OBVIOUS
<1> USE DEF TabsTyped, Tabs
<1>1. ASSUME NEW r \in Request, NEW t \in Tab, TabActs(r, t) PROVE TabsTyped'
  <2>1. CASE Load(r, t)
    BY <2>1 DEF Load
  <2>4. CASE Rerender(r, t)
    BY <2>4 DEF Rerender
  <2>2. CASE StartRefresh(r, t)
    <3> DEFINE w == [data |-> tab[t].data, removed |-> tab[t].removed, lock |-> TRUE,
                     air |-> tab[t].air - 1, waiting |-> tab[t].waiting + 1]
    <3>1. tab[t] \in Tabs /\ tab[t].air > 0
      BY <2>2 DEF StartRefresh
    <3>2. w \in Tabs
      BY <3>1
    <3>3. tab' = [tab EXCEPT ![t].air = @ - 1, ![t].waiting = @ + 1, ![t].lock = TRUE]
      BY <2>2 DEF StartRefresh
    <3>4. tab' = [tab EXCEPT ![t] = w]
      BY <3>1, <3>3
    <3> HIDE DEF w
    <3> QED
      BY <3>2, <3>4
  <2>3. CASE UNCHANGED tab
    BY <2>3
  <2> QED
    BY <1>1, <2>1, <2>2, <2>3, <2>4 DEF TabActs, Submit
<1>2. ASSUME NEW t \in Tab, CallApi(t) \/ JoinRefresh(t) \/ AccessExpires(t) \/ Reload(t)
      PROVE  TabsTyped'
  <2>1. CASE CallApi(t)
    BY <2>1 DEF CallApi
  <2>2. CASE JoinRefresh(t)
    BY <2>2 DEF JoinRefresh
  <2>3. CASE AccessExpires(t)
    BY <2>3 DEF AccessExpires
  <2>4. CASE Reload(t)
    BY <2>4 DEF Reload, Closed
  <2> QED
    BY <1>2, <2>1, <2>2, <2>3, <2>4
<1>3. ASSUME NEW r \in Request, TimeOut(r) \/ Drop(r) \/ Answer(r) PROVE TabsTyped'
  <2> DEFINE t == req[r].tab
  <2>1. PICK s \in {Failed(req[r].kind, tab[t])} \cup Succeeded(req[r].kind, tab[t]) :
           tab' = [tab EXCEPT ![t] = s]
    BY <1>3 DEF TimeOut, Drop, Answer
  <2>2. CASE t \in Tab
    <3>0. tab[t] \in Tabs
      BY <2>2
    <3> HIDE DEF Tabs
    <3>2. SignedIn(tab[t]) \in Tabs /\ SignedOut(tab[t]) \in Tabs
          /\ SignedOut(SignedIn(tab[t])) \in Tabs /\ [tab[t] EXCEPT !.data = "valid"] \in Tabs
      BY <3>0 DEF SignedIn, SignedOut, Tabs
    <3>1. Failed(req[r].kind, tab[t]) \in Tabs
      BY <3>0, <3>2, Releases DEF Failed
    <3>3. Retried(tab[t]) \subseteq Tabs
      BY <3>2, Releases DEF Retried
    <3>4. Succeeded(req[r].kind, tab[t]) \subseteq Tabs
      BY <3>2, <3>3 DEF Succeeded
    <3> QED
      BY <2>1, <3>1, <3>4
  <2>3. CASE t \notin Tab
    BY <2>1, <2>3
  <2> QED
    BY <2>2, <2>3
<1>4. ASSUME UNCHANGED tab PROVE TabsTyped'
  BY <1>4
<1>5. ASSUME NEW r \in Request, Serve(r) PROVE TabsTyped'
  BY <1>4, <1>5 DEF Serve, Find, RevokeOld, RefuseLogin, Issue, Logout, CheckAddress, InsertUser
<1>6. ASSUME NEW k \in Token, SessionExpires(k) PROVE TabsTyped'
  BY <1>4, <1>6 DEF SessionExpires
<1>7. CASE UNCHANGED vars
  BY <1>4, <1>7 DEF vars
<1> QED
  BY <1>1, <1>2, <1>3, <1>5, <1>6, <1>7 DEF Next

(* A request that moves on, or is heard no more, is no new one.            *)
LEMMA NoneNew ==
    ASSUME LockIsOwned, TabsTyped,
           \A q \in Request : \/ req'[q] = Free
                              \/ /\ req'[q].kind = req[q].kind /\ req'[q].tab = req[q].tab
                                 /\ req'[q].heard => req[q].heard
                              \/ req'[q].kind # "retry",
           \A q \in Request, t \in Tab :
              Retrying(req'[q], t) => tab'[t].lock = tab[t].lock
    PROVE  LockIsOwned'
<1>1. \A q \in Request, t \in Tab : Retrying(req'[q], t) => Retrying(req[q], t)
  BY DEF Retrying, Free
<1> QED
  BY <1>1, LockStays

LEMMA LockStep == RequestsTyped /\ TabsTyped /\ LockIsOwned /\ [Next]_vars => LockIsOwned'
<1> SUFFICES ASSUME RequestsTyped, TabsTyped, LockIsOwned, [Next]_vars PROVE LockIsOwned'
  OBVIOUS
<1>1. ASSUME NEW r \in Request, Serve(r) PROVE LockIsOwned'
  <2>1. UNCHANGED tab
    BY <1>1 DEF Serve, Find, RevokeOld, RefuseLogin, Issue, Logout, CheckAddress, InsertUser
  <2>2. \/ req' = [req EXCEPT ![r] = Free]
        \/ \E to : req' = [req EXCEPT ![r] = [@ EXCEPT !.step = to]]
        \/ \E k \in Token : req' = [req EXCEPT ![r] = [@ EXCEPT !.step = "ok", !.made = k]]
    BY <1>1 DEF Serve, Find, RevokeOld, RefuseLogin, Issue, Logout, CheckAddress, InsertUser,
                Advance
  <2>3. \A q \in Request : \/ req'[q] = Free
                           \/ /\ req'[q].kind = req[q].kind /\ req'[q].tab = req[q].tab
                              /\ req'[q].heard = req[q].heard
    <3> SUFFICES ASSUME NEW q \in Request, req'[q] # req[q]
                 PROVE  \/ req'[q] = Free
                        \/ /\ req'[q].kind = req[q].kind /\ req'[q].tab = req[q].tab
                           /\ req'[q].heard = req[q].heard
      OBVIOUS
    <3>1. CASE req' = [req EXCEPT ![r] = Free]
      BY <3>1 DEF RequestsTyped
    <3>2. ASSUME NEW to, req' = [req EXCEPT ![r] = [@ EXCEPT !.step = to]]
          PROVE  /\ req'[q].kind = req[q].kind /\ req'[q].tab = req[q].tab
                 /\ req'[q].heard = req[q].heard
      BY <3>2 DEF RequestsTyped
    <3>3. ASSUME NEW k \in Token, req' = [req EXCEPT ![r] = [@ EXCEPT !.step = "ok", !.made = k]]
          PROVE  /\ req'[q].kind = req[q].kind /\ req'[q].tab = req[q].tab
                 /\ req'[q].heard = req[q].heard
      BY <3>3 DEF RequestsTyped
    <3> QED
      BY <2>2, <3>1, <3>2, <3>3
  <2> QED
    BY <2>1, <2>3, NoneNew
<1>2. ASSUME NEW r \in Request, TimeOut(r) \/ Drop(r) \/ Answer(r) PROVE LockIsOwned'
  <2> DEFINE t == req[r].tab
  <2>1. req' = [req EXCEPT ![r] = Free] \/ req' = [req EXCEPT ![r].heard = FALSE]
    BY <1>2 DEF Answer, TimeOut, Drop, Unheard
  <2>2. \A q \in Request : \/ req'[q] = Free
                           \/ q # r /\ req'[q] = req[q]
                           \/ req'[q].heard = FALSE
    BY <2>1 DEF RequestsTyped
  <2>3. PICK s \in {Failed(req[r].kind, tab[t])} \cup Succeeded(req[r].kind, tab[t]) :
           tab' = [tab EXCEPT ![t] = s]
    BY <1>2 DEF TimeOut, Drop, Answer
  <2>4. req[r].heard
    BY <1>2 DEF TimeOut, Drop, Answer
  <2>5. ASSUME NEW q \in Request, NEW u \in Tab, Retrying(req'[q], u)
        PROVE  Retrying(req[q], u) /\ tab'[u].lock = tab[u].lock
    <3>1. q # r /\ req'[q] = req[q]
      BY <2>2, <2>5, SessionAssumption DEF Retrying, Free
    <3>2. CASE u # t
      BY <2>3, <2>5, <3>1, <3>2 DEF TabsTyped
    <3>3. CASE u = t
      <4>1. req[r].kind # "retry"
        BY <2>4, <2>5, <3>1, <3>3 DEF Retrying, LockIsOwned
      <4>2. tab[t] \in Tabs
        BY <3>3 DEF TabsTyped
      <4>3. s.lock = tab[t].lock
        BY <2>3, <4>1, <4>2 DEF Failed, Succeeded, SignedIn, SignedOut, Tabs
      <4> QED
        BY <2>3, <2>5, <3>1, <3>3, <4>3 DEF TabsTyped
    <3> QED
      BY <3>2, <3>3
  <2> QED
    BY <2>5, LockStays
<1>3. ASSUME NEW r \in Request, NEW t \in Tab, NEW kind, Send(r, t, kind), kind # "retry",
             \A u \in Tab : tab'[u].lock = tab[u].lock
      PROVE  LockIsOwned'
  <2>1. \A q \in Request : req'[q] = req[q] \/ req'[q].kind # "retry"
    BY <1>3 DEF Send, RequestsTyped
  <2> QED
    BY <1>3, <2>1, NoneNew
<1>4. ASSUME NEW r \in Request, NEW t \in Tab, StartRefresh(r, t) PROVE LockIsOwned'
  <2>1. /\ req[r] = Free /\ ~Locked(t)
        /\ \A q \in Request : q # r => req'[q] = req[q]
        /\ req'[r].tab = t
    BY <1>4 DEF StartRefresh, Send, RequestsTyped
  <2>2. tab'[t].lock = TRUE /\ \A u \in Tab : u # t => tab'[u] = tab[u]
    BY <1>4 DEF StartRefresh, TabsTyped, Tabs
  <2>3. \A q \in Request : ~Retrying(req[q], t)
    BY <2>1 DEF LockIsOwned, Locked
  <2> QED
    BY <2>1, <2>2, <2>3 DEF LockIsOwned, Retrying
<1>5. ASSUME NEW r \in Request, NEW t \in Tab, TabActs(r, t) PROVE LockIsOwned'
  <2>1. CASE Load(r, t)
    BY <2>1, <1>3 DEF Load, TabsTyped, Tabs
  <2>2. CASE Rerender(r, t)
    BY <2>2, <1>3 DEF Rerender, TabsTyped, Tabs
  <2>3. ASSUME NEW kind \in {"login", "register", "logout"}, Submit(r, t, kind) PROVE LockIsOwned'
    BY <2>3, <1>3 DEF Submit
  <2> QED
    BY <1>4, <1>5, <2>1, <2>2, <2>3 DEF TabActs
<1>6. ASSUME UNCHANGED req, \A u \in Tab : tab'[u].lock = tab[u].lock PROVE LockIsOwned'
  BY <1>6, NoneNew
<1>7. ASSUME NEW t \in Tab, CallApi(t) \/ JoinRefresh(t) \/ AccessExpires(t) PROVE LockIsOwned'
  BY <1>6, <1>7 DEF CallApi, JoinRefresh, AccessExpires, TabsTyped, Tabs
<1>8. ASSUME NEW t \in Tab, Reload(t) PROVE LockIsOwned'
  <2>1. /\ tab' = [tab EXCEPT ![t] = Closed]
        /\ req' = [r \in Request |-> IF req[r].tab = t THEN Unheard(req[r]) ELSE req[r]]
    BY <1>8 DEF Reload
  <2>2. \A q \in Request : \/ req'[q] = Free
                           \/ req[q].tab # t /\ req'[q] = req[q]
                           \/ req'[q] = [req[q] EXCEPT !.heard = FALSE]
    BY <2>1 DEF Unheard
  <2>3. \A q \in Request, u \in Tab :
           Retrying(req'[q], u) => u # t /\ Retrying(req[q], u)
    <3> SUFFICES ASSUME NEW q \in Request, NEW u \in Tab, Retrying(req'[q], u)
                 PROVE  u # t /\ Retrying(req[q], u)
      OBVIOUS
    <3>1. req'[q] # Free
      BY SessionAssumption DEF Retrying, Free
    <3>2. req'[q] # [req[q] EXCEPT !.heard = FALSE]
      BY DEF Retrying, RequestsTyped
    <3> QED
      BY <2>2, <3>1, <3>2 DEF Retrying
  <2>4. \A u \in Tab : u # t => tab'[u] = tab[u]
    BY <2>1 DEF TabsTyped
  <2> QED
    BY <2>3, <2>4, LockStays
<1>9. ASSUME NEW k \in Token, SessionExpires(k) PROVE LockIsOwned'
  BY <1>6, <1>9 DEF SessionExpires
<1>10. CASE UNCHANGED vars
  BY <1>6, <1>10 DEF vars
<1> QED
  BY <1>1, <1>2, <1>5, <1>7, <1>8, <1>9, <1>10 DEF Next

(* However many API calls of a tab are refused together, and however their *)
(* refresh ends, at most one refresh is waited for on their behalf.        *)
THEOREM RetriesAreShared == Spec => []OneRetryPerTab
<1>1. Init => TabsTyped /\ LockIsOwned
  BY SessionAssumption DEF Init, TabsTyped, Tabs, Closed, LockIsOwned, Retrying, Free
<1>2. Inv => RequestsTyped
  BY DEF Inv, TablesTyped
<1>3. LockIsOwned => OneRetryPerTab
  <2> SUFFICES ASSUME LockIsOwned, NEW t \in Tab
               PROVE  Cardinality({r \in Request : Retrying(req[r], t)}) <= 1
    BY DEF OneRetryPerTab, Retrying
  <2> DEFINE S == {r \in Request : Retrying(req[r], t)}
  <2>1. CASE S = {}
    BY <2>1, FS_EmptySet
  <2>2. ASSUME NEW r \in S PROVE S = {r}
    BY DEF LockIsOwned
  <2>3. \A r : Cardinality({r}) = 1
    BY FS_Singleton
  <2> QED
    BY <2>1, <2>2, <2>3
<1> QED
  BY <1>1, <1>2, <1>3, InvCorrect, TabsStep, LockStep, PTL DEF Spec

-----------------------------------------------------------------------------
(***************************************************************************)
(* What becomes of a token: it is made, delivered, carried, revoked and    *)
(* replaced, once, unless two requests share it.                           *)
(***************************************************************************)
Over == {"revoked", "expired"}

(* A session that was made and not delivered yet is nobody's cookie.       *)
MadeIsFresh ==
    \A r \in Request : req[r].made # 0 =>
        /\ req[r].step = "ok" /\ req[r].kind # "logout"
        /\ req[r].made # cookie
        /\ session[req[r].made].state \in {"live", "expired"}
        /\ \A q \in Request : /\ req[q].carried # req[r].made
                              /\ req[q].made = req[r].made => q = r

(* A refresh that succeeded brings a successor, and revoked what it        *)
(* carries.                                                                *)
RefreshIsDone ==
    \A r \in Request : req[r].kind \in {"restore", "retry"} =>
        /\ req[r].step = "ok" => req[r].made # 0
        /\ req[r].step = "issue" => session[req[r].carried].state \in Over

(* A token that was replaced is over, and no refresh goes on with it.      *)
ReplacedIsOver ==
    \A c \in Token : session[c].parent \in Token \ shared =>
        /\ session[session[c].parent].state \in Over
        /\ \A r \in Request : req[r].carried = session[c].parent => ~Passed(req[r])
OneChild ==
    \A c, d \in Token : session[c].parent = session[d].parent
                        => c = d \/ session[c].parent \notin Token \ shared

Replaced == MadeIsFresh /\ RefreshIsDone /\ ReplacedIsOver /\ OneChild

LEMMA InitReplaced == Init => Replaced
<1> SUFFICES ASSUME Init PROVE Replaced
  OBVIOUS
<1>1. \A r \in Request : req[r] = Free
  BY DEF Init
<1>2. \A c \in Token : session[c].parent = 0
  <2>1. Unissued.parent = 0 /\ [Unissued EXCEPT !.state = "live"].parent = 0
    BY DEF Unissued
  <2> QED
    BY <2>1 DEF Init
<1>3. 0 \notin Token
  BY DEF Token
<1> QED
  BY <1>1, <1>2, <1>3 DEF Replaced, MadeIsFresh, RefreshIsDone, ReplacedIsOver, OneChild, Free

(* A step that makes no session, delivers none and lets nobody carry one.  *)
LEMMA ReplacedStays ==
    ASSUME Inv, Replaced, UNCHANGED shared, cookie' \in {cookie, 0},
           NEW r \in Request \cup {None},
           \A k \in Token :
              /\ session'[k].parent = session[k].parent
              /\ \/ session'[k].state = session[k].state
                 \/ /\ session'[k].state = "expired" /\ session[k].state = "live"
                 \/ /\ session'[k].state = "revoked"
                    /\ r \in Request /\ req[r].carried = k,
           \A q \in Request :
              \/ req'[q] = Free
              \/ /\ req'[q].kind = req[q].kind /\ req'[q].carried = req[q].carried
                 /\ req'[q].made = req[q].made
                 /\ \/ req'[q].step = req[q].step
                    \/ /\ req'[q].made = 0
                       /\ req'[q].step = "ok" => req[q].kind = "logout"
                       /\ Passed(req'[q]) => \/ req'[q].step = "revoke"
                                             \/ session'[req[q].carried].state \in Over
                       /\ Passed(req'[q]) /\ ~Passed(req[q])
                             => session[req[q].carried].state = "live",
           \A q \in Request : req'[q] # req[q] /\ req'[q].made # 0 => req'[q].step = req[q].step
    PROVE  Replaced'
<1> USE DEF Replaced
<1>1. /\ \A q \in Request : /\ req[q].carried \in Token \cup {0} /\ req[q].made \in Token \cup {0}
                            /\ req[q].kind \in Kinds
      /\ \A k \in Token : session[k].parent \in Token \cup {0}
      /\ 0 \notin Token
  BY DEF Inv, TablesTyped, RequestsTyped, SessionsTyped, Token
<1>2. \A q \in Request : /\ req'[q].made \in {0, req[q].made}
                         /\ req'[q].carried \in {0, req[q].carried}
                         /\ req'[q].made # 0 => /\ req'[q].step = req[q].step
                                                /\ req'[q].kind = req[q].kind
  BY DEF Free
<1>3. MadeIsFresh'
  <2> SUFFICES ASSUME NEW q \in Request, req'[q].made # 0
               PROVE  /\ req'[q].step = "ok" /\ req'[q].kind # "logout"
                      /\ req'[q].made # cookie'
                      /\ session'[req'[q].made].state \in {"live", "expired"}
                      /\ \A p \in Request : /\ req'[p].carried # req'[q].made
                                            /\ req'[p].made = req'[q].made => p = q
    BY DEF MadeIsFresh
  <2>1. /\ req'[q].made = req[q].made /\ req[q].made \in Token
        /\ req'[q].step = "ok" /\ req'[q].kind # "logout" /\ req[q].made # cookie
        /\ session[req[q].made].state \in {"live", "expired"}
        /\ \A p \in Request : /\ req[p].carried # req[q].made
                              /\ req[p].made = req[q].made => p = q
    BY <1>1, <1>2 DEF MadeIsFresh
  <2> QED
    BY <1>1, <1>2, <2>1
<1>4. \A k \in Token : session[k].state \in Over => session'[k].state \in Over
  BY DEF Over
<1>5. RefreshIsDone'
  <2> SUFFICES ASSUME NEW q \in Request, req'[q].kind \in {"restore", "retry"}
               PROVE  /\ req'[q].step = "ok" => req'[q].made # 0
                      /\ req'[q].step = "issue" => session'[req'[q].carried].state \in Over
    BY DEF RefreshIsDone
  <2>1. req'[q] # Free
    BY DEF Free
  <2>2. CASE req'[q].step = req[q].step
    <3>1. req[q].step = "issue" => req[q].carried \in Token
      BY <1>1, <2>1 DEF Inv, PassedBefore, Passed
    <3> QED
      BY <1>4, <2>1, <2>2, <3>1 DEF RefreshIsDone
  <2>3. CASE req'[q].step # req[q].step
    BY <2>1, <2>3 DEF Passed
  <2> QED
    BY <2>2, <2>3
<1>6. ReplacedIsOver'
  <2> SUFFICES ASSUME NEW c \in Token, session'[c].parent \in Token \ shared
               PROVE  /\ session'[session'[c].parent].state \in Over
                      /\ \A q \in Request : req'[q].carried = session'[c].parent => ~Passed(req'[q])
    BY DEF ReplacedIsOver
  <2>1. /\ session[c].parent = session'[c].parent
        /\ session[session[c].parent].state \in Over
        /\ \A q \in Request : req[q].carried = session[c].parent => ~Passed(req[q])
    BY DEF ReplacedIsOver
  <2>2. ASSUME NEW q \in Request, req'[q].carried = session'[c].parent PROVE ~Passed(req'[q])
    <3>1. CASE req'[q] = Free
      BY <3>1 DEF Free, Passed
    <3>2. CASE req'[q].step = req[q].step /\ req'[q] # Free
      BY <2>1, <2>2, <3>2 DEF Passed
    <3>3. CASE req'[q].step # req[q].step /\ req'[q] # Free
      BY <2>1, <2>2, <3>3 DEF Over
    <3> QED
      BY <3>1, <3>2, <3>3
  <2> QED
    BY <1>4, <2>1, <2>2
<1>7. OneChild'
  BY DEF OneChild
<1> QED
  BY <1>3, <1>5, <1>6, <1>7

(* A second request with the same token is noted, and what is sent has not *)
(* passed its check.                                                       *)
LEMMA ReplacedSends ==
    ASSUME Inv, Replaced, NEW r \in Request, NEW t \in Tab, NEW kind \in Kinds \ {"none"},
           Send(r, t, kind)
    PROVE  Replaced'
<1> USE DEF Replaced
<1> DEFINE new == [kind |-> kind, tab |-> t, step |-> FirstStep(kind),
                   carried |-> IF Carries(kind) THEN cookie ELSE 0, made |-> 0, heard |-> TRUE]
<1>1. /\ req' = [req EXCEPT ![r] = new]
      /\ UNCHANGED <<session, cookie>> /\ shared \subseteq shared'
  BY DEF Send
<1>2. /\ req'[r] = new /\ \A q \in Request : q # r => req'[q] = req[q]
  BY <1>1 DEF Inv, TablesTyped, RequestsTyped
<1>3. /\ new.kind = kind /\ new.step = FirstStep(kind) /\ new.made = 0
      /\ new.carried \in {0, cookie}
  OBVIOUS
<1>4. kind \in {"restore", "retry"} => FirstStep(kind) = "find"
  BY DEF FirstStep
<1>5. ~Passed(new)
  BY <1>3, <1>4 DEF Passed
<1> HIDE DEF new
<1>6. MadeIsFresh'
  BY <1>1, <1>2, <1>3 DEF MadeIsFresh
<1>7. RefreshIsDone'
  BY <1>1, <1>2, <1>3, <1>4 DEF RefreshIsDone
<1>8. ReplacedIsOver' /\ OneChild'
  BY <1>1, <1>2, <1>5 DEF ReplacedIsOver, OneChild
<1> QED
  BY <1>6, <1>7, <1>8

(* A session is made: for a refresh whose token has no successor yet, or   *)
(* is shared.                                                              *)
LEMMA ReplacedIssues ==
    ASSUME Inv, Replaced, NEW r \in Request, Issue(r)
    PROVE  Replaced'
<1> USE DEF Replaced
<1>1. PICK k \in Token :
         /\ session[k] = Unissued
         /\ session' = [session EXCEPT ![k] = [state |-> "live", parent |-> req[r].carried]]
         /\ req' = [req EXCEPT ![r] = IF ~req[r].heard THEN Free
                                      ELSE [@ EXCEPT !.step = "ok", !.made = k]]
  BY DEF Issue, Issued
<1>2. /\ UNCHANGED <<cookie, shared>> /\ req[r].step = "issue"
  BY DEF Issue, Step
<1>3. /\ req[r].carried \in Token \cup {0} /\ req[r].kind \in Kinds /\ 0 \notin Token
      /\ \A q \in Request : req[q].made \in Token \cup {0}
  BY DEF Inv, TablesTyped, RequestsTyped, Token
<1>4. /\ ~Known(k) /\ session'[k].state = "live" /\ session'[k].parent = req[r].carried
      /\ \A l \in Token \ {k} : session'[l] = session[l]
  BY <1>1 DEF Known, Unissued, Inv, TablesTyped, SessionsTyped
<1>5. cookie # k /\ \A q \in Request : req[q].carried # k /\ req[q].made # k
  BY <1>3, <1>4 DEF Inv, CarriedIsIssued
<1>6. /\ \A q \in Request : q # r => req'[q] = req[q]
      /\ \/ req'[r] = Free
         \/ /\ req'[r].kind = req[r].kind /\ req'[r].carried = req[r].carried
            /\ req'[r].made = k /\ req'[r].step = "ok"
  BY <1>1 DEF Inv, TablesTyped, RequestsTyped
<1>7. req[r].kind # "logout"
  BY <1>2 DEF Inv, OthersCarryNone
<1>8. MadeIsFresh'
  <2> SUFFICES ASSUME NEW q \in Request, req'[q].made # 0
               PROVE  /\ req'[q].step = "ok" /\ req'[q].kind # "logout"
                      /\ req'[q].made # cookie
                      /\ session'[req'[q].made].state \in {"live", "expired"}
                      /\ \A p \in Request : /\ req'[p].carried # req'[q].made
                                            /\ req'[p].made = req'[q].made => p = q
    BY <1>2 DEF MadeIsFresh
  <2>1. \A p \in Request : /\ req'[p].carried # k /\ (p # r => req'[p].made # k)
    BY <1>3, <1>5, <1>6 DEF Free
  <2>2. CASE q = r
    BY <1>4, <1>5, <1>6, <1>7, <2>1, <2>2 DEF Free
  <2>3. CASE q # r
    <3>1. /\ req'[q] = req[q] /\ req[q].made \in Token /\ req[q].made # k
      BY <1>3, <1>5, <1>6, <2>3
    <3>2. \A p \in Request : /\ req[p].carried # req[q].made
                            /\ req[p].made = req[q].made => p = q
      BY <3>1 DEF MadeIsFresh
    <3>3. req'[r].carried \in {0, req[r].carried} /\ req'[r].made \in {0, k}
      BY <1>6 DEF Free
    <3> QED
      BY <1>3, <1>4, <1>6, <3>1, <3>2, <3>3 DEF MadeIsFresh
  <2> QED
    BY <2>2, <2>3
<1>9. RefreshIsDone'
  <2> SUFFICES ASSUME NEW q \in Request, req'[q].kind \in {"restore", "retry"}
               PROVE  /\ req'[q].step = "ok" => req'[q].made # 0
                      /\ req'[q].step = "issue" => session'[req'[q].carried].state \in Over
    BY DEF RefreshIsDone
  <2>1. CASE q = r
    BY <1>3, <1>6, <2>1 DEF Free
  <2>2. CASE q # r
    <3>1. req[q].step = "issue" => req[q].carried \in Token
      BY <1>6, <2>2 DEF Inv, PassedBefore, Passed, TablesTyped, RequestsTyped
    <3> QED
      BY <1>4, <1>5, <1>6, <2>2, <3>1 DEF RefreshIsDone
  <2> QED
    BY <2>1, <2>2
<1>10. \A q \in Request : Passed(req'[q]) => q # r /\ req'[q] = req[q]
  BY <1>6 DEF Passed, Free
<1>11. CASE req[r].carried \in Token \ shared
  <2> DEFINE old == req[r].carried
  <2>1. req[r].kind \in {"restore", "retry"} /\ old # k
    BY <1>2, <1>3, <1>5, <1>7, <1>11 DEF Inv, OthersCarryNone, Kinds
  <2>2. session[old].state \in Over /\ \A c \in Token : session[c].parent # old
    BY <1>2, <1>11, <2>1 DEF RefreshIsDone, ReplacedIsOver, Passed
  <2>3. \A q \in Request : req'[q].carried = old => ~Passed(req'[q])
    BY <1>10, <1>11, <1>3 DEF Inv, SharedIsNoted
  <2>4. ReplacedIsOver'
    <3> SUFFICES ASSUME NEW c \in Token, session'[c].parent \in Token \ shared
                 PROVE  /\ session'[session'[c].parent].state \in Over
                        /\ \A q \in Request : req'[q].carried = session'[c].parent
                                              => ~Passed(req'[q])
      BY <1>2 DEF ReplacedIsOver
    <3>1. CASE c = k
      BY <1>4, <1>11, <2>1, <2>2, <2>3, <3>1
    <3>2. CASE c # k
      <4>1. session'[c] = session[c] /\ session[session[c].parent].state \in Over
        BY <1>4, <3>2 DEF ReplacedIsOver
      <4>2. session[c].parent # k
        BY <1>1, <4>1 DEF Unissued, Over
      <4> QED
        BY <1>4, <1>10, <4>1, <4>2 DEF ReplacedIsOver
    <3> QED
      BY <3>1, <3>2
  <2>5. OneChild'
    <3> SUFFICES ASSUME NEW c \in Token, NEW d \in Token,
                        session'[c].parent = session'[d].parent,
                        session'[c].parent \in Token \ shared'
                 PROVE  c = d
      BY DEF OneChild
    <3>1. CASE c = k \/ d = k
      BY <1>2, <1>4, <2>2, <3>1
    <3>2. CASE c # k /\ d # k
      BY <1>2, <1>4, <3>2 DEF OneChild
    <3> QED
      BY <3>1, <3>2
  <2> QED
    BY <1>8, <1>9, <2>4, <2>5
<1>12. CASE req[r].carried \notin Token \ shared
  <2>1. ReplacedIsOver'
    <3> SUFFICES ASSUME NEW c \in Token, session'[c].parent \in Token \ shared
                 PROVE  /\ session'[session'[c].parent].state \in Over
                        /\ \A q \in Request : req'[q].carried = session'[c].parent
                                              => ~Passed(req'[q])
      BY <1>2 DEF ReplacedIsOver
    <3>1. c # k
      BY <1>4, <1>12
    <3>2. session'[c] = session[c] /\ session[session[c].parent].state \in Over
      BY <1>4, <3>1 DEF ReplacedIsOver
    <3>3. session[c].parent # k
      BY <1>1, <3>2 DEF Unissued, Over
    <3> QED
      BY <1>4, <1>10, <3>2, <3>3 DEF ReplacedIsOver
  <2>2. OneChild'
    <3> SUFFICES ASSUME NEW c \in Token, NEW d \in Token,
                        session'[c].parent = session'[d].parent,
                        session'[c].parent \in Token \ shared'
                 PROVE  c = d
      BY DEF OneChild
    <3>1. c # k /\ d # k
      BY <1>2, <1>4, <1>12
    <3> QED
      BY <1>2, <1>4, <3>1 DEF OneChild
  <2> QED
    BY <1>8, <1>9, <2>1, <2>2
<1> QED
  BY <1>11, <1>12

(* An answer is delivered: what it brings was nobody's.                    *)
LEMMA ReplacedDelivers ==
    ASSUME Inv, Replaced, NEW r \in Request, Answer(r)
    PROVE  Replaced'
<1> USE DEF Replaced
<1>1. /\ UNCHANGED <<session, shared>>
      /\ \/ cookie' \in {cookie, 0}
         \/ req[r].made # 0 /\ cookie' = req[r].made
      /\ req' = [req EXCEPT ![r] = Free]
  BY DEF Answer, CookieAfter
<1>2. req'[r] = Free /\ \A q \in Request : q # r => req'[q] = req[q]
  BY <1>1 DEF Inv, TablesTyped, RequestsTyped
<1>3. MadeIsFresh'
  <2> SUFFICES ASSUME NEW q \in Request, req'[q].made # 0
               PROVE  /\ req'[q].step = "ok" /\ req'[q].kind # "logout"
                      /\ req'[q].made # cookie'
                      /\ session[req'[q].made].state \in {"live", "expired"}
                      /\ \A p \in Request : /\ req'[p].carried # req'[q].made
                                            /\ req'[p].made = req'[q].made => p = q
    BY <1>1 DEF MadeIsFresh
  <2>1. q # r /\ req'[q] = req[q]
    BY <1>2 DEF Free
  <2>2. req[q].made # cookie'
    BY <1>1, <2>1 DEF MadeIsFresh
  <2> QED
    BY <1>2, <2>1, <2>2 DEF MadeIsFresh, Free
<1>4. RefreshIsDone'
  BY <1>1, <1>2 DEF RefreshIsDone, Free
<1>5. ReplacedIsOver' /\ OneChild'
  BY <1>1, <1>2 DEF ReplacedIsOver, OneChild, Passed, Free
<1> QED
  BY <1>3, <1>4, <1>5

(* The statements of the API that neither issue nor sign out.              *)
LEMMA ReplacedStatements ==
    ASSUME Inv, Replaced, NEW r \in Request,
           Find(r) \/ RevokeOld(r) \/ RefuseLogin(r) \/ CheckAddress(r) \/ InsertUser(r)
           \/ Logout(r)
    PROVE  Replaced'
<1>1. UNCHANGED <<cookie, shared>>
  BY DEF Find, RevokeOld, RefuseLogin, CheckAddress, InsertUser, Logout
<1>2. RequestsTyped /\ SessionsTyped
  BY DEF Inv, TablesTyped
<1>3. \A k \in Token :
         /\ session'[k].parent = session[k].parent
         /\ \/ session'[k].state = session[k].state
            \/ session'[k].state = "revoked" /\ req[r].carried = k
  <2>1. CASE RevokeOld(r)
    BY <1>2, <2>1 DEF RevokeOld, SessionsTyped
  <2>2. CASE Logout(r)
    BY <1>2, <2>2 DEF Logout, Revoked, SessionsTyped
  <2>3. CASE UNCHANGED session
    BY <2>3
  <2> QED
    BY <2>1, <2>2, <2>3 DEF Find, RefuseLogin, CheckAddress, InsertUser
<1> DEFINE Moves(to) ==
       /\ Advance(r, to) /\ req[r].step \notin {"ok", "none"}
       /\ to = "ok" => req[r].kind = "logout"
       /\ to = "issue" /\ req[r].kind \in {"restore", "retry"}
             => Passed(req[r]) /\ session'[req[r].carried].state \in Over
       /\ to = "revoke" => session[req[r].carried].state = "live"
       /\ req[r].kind \in {"restore", "retry"} => to # "insert"
<1>4. PICK to \in {"revoke", "issue", "no", "insert", "ok"} : Moves(to)
  <2>1. CASE Find(r)
    BY <2>1 DEF Find, Step, Usable
  <2>2. CASE RevokeOld(r)
    <3>1. Passed(req[r]) /\ req[r].carried \in Token
      BY <1>2, <2>2 DEF RevokeOld, Step, Refreshes, Passed, Inv, PassedBefore, RequestsTyped
    <3>2. session'[req[r].carried].state = "revoked"
      BY <1>2, <2>2, <3>1 DEF RevokeOld, SessionsTyped
    <3> QED
      BY <2>2, <3>1, <3>2 DEF RevokeOld, Step, Over
  <2>3. CASE RefuseLogin(r)
    BY <2>3 DEF RefuseLogin, Step
  <2>4. CASE CheckAddress(r)
    BY <2>4 DEF CheckAddress, Step, Inv, OthersCarryNone
  <2>5. CASE InsertUser(r)
    BY <2>5 DEF InsertUser, Step, Inv, OthersCarryNone
  <2>6. CASE Logout(r)
    BY <2>6 DEF Logout, Step
  <2> QED
    BY <2>1, <2>2, <2>3, <2>4, <2>5, <2>6
<1>5. req[r].made = 0
  BY <1>4 DEF Replaced, MadeIsFresh
<1>6. /\ \A q \in Request : q # r => req'[q] = req[q]
      /\ \/ req'[r] = Free
         \/ /\ req'[r].kind = req[r].kind /\ req'[r].carried = req[r].carried
            /\ req'[r].made = req[r].made /\ req'[r].step = to
  BY <1>2, <1>4, Advances DEF Steps
<1>7. \A q \in Request :
         \/ req'[q] = Free
         \/ /\ req'[q].kind = req[q].kind /\ req'[q].carried = req[q].carried
            /\ req'[q].made = req[q].made
            /\ \/ req'[q].step = req[q].step
               \/ /\ req'[q].made = 0
                  /\ req'[q].step = "ok" => req[q].kind = "logout"
                  /\ Passed(req'[q]) => \/ req'[q].step = "revoke"
                                        \/ session'[req[q].carried].state \in Over
                  /\ Passed(req'[q]) /\ ~Passed(req[q])
                        => session[req[q].carried].state = "live"
  BY <1>4, <1>5, <1>6 DEF Passed
<1>8. \A q \in Request : req'[q] # req[q] /\ req'[q].made # 0 => req'[q].step = req[q].step
  BY <1>5, <1>6 DEF Free
<1> QED
  BY <1>1, <1>3, <1>7, <1>8, ReplacedStays

(* Faults and time.                                                        *)
LEMMA ReplacedFaults ==
    ASSUME Inv, Replaced,
           \/ \E r \in Request : TimeOut(r) \/ Drop(r)
           \/ \E t \in Tab : Reload(t)
           \/ \E k \in Token : SessionExpires(k)
    PROVE  Replaced'
<1>1. RequestsTyped /\ SessionsTyped
  BY DEF Inv, TablesTyped
<1>2. UNCHANGED shared /\ cookie' \in {cookie, 0}
  BY DEF TimeOut, Drop, Reload, SessionExpires
<1>3. \A k \in Token :
         /\ session'[k].parent = session[k].parent
         /\ \/ session'[k].state = session[k].state
            \/ session'[k].state = "expired" /\ session[k].state = "live"
  <2>1. ASSUME NEW l \in Token, SessionExpires(l)
        PROVE  \A k \in Token :
                  /\ session'[k].parent = session[k].parent
                  /\ \/ session'[k].state = session[k].state
                     \/ session'[k].state = "expired" /\ session[k].state = "live"
    BY <1>1, <2>1 DEF SessionExpires, SessionsTyped
  <2>2. CASE UNCHANGED session
    BY <2>2
  <2> QED
    BY <2>1, <2>2 DEF TimeOut, Drop, Reload
<1>4. \A q \in Request :
         \/ req'[q] = Free
         \/ /\ req'[q].kind = req[q].kind /\ req'[q].carried = req[q].carried
            /\ req'[q].made = req[q].made /\ req'[q].step = req[q].step
  <2> SUFFICES ASSUME NEW q \in Request
               PROVE  \/ req'[q] = Free
                      \/ /\ req'[q].kind = req[q].kind /\ req'[q].carried = req[q].carried
                         /\ req'[q].made = req[q].made /\ req'[q].step = req[q].step
    OBVIOUS
  <2>1. ASSUME NEW r \in Request, TimeOut(r) \/ Drop(r)
        PROVE  req'[q] \in {Free, req[q]} \/ req'[q] = [req[q] EXCEPT !.heard = FALSE]
    BY <1>1, <2>1 DEF TimeOut, Drop, Unheard, RequestsTyped
  <2>2. ASSUME NEW t \in Tab, Reload(t)
        PROVE  req'[q] \in {Free, req[q]} \/ req'[q] = [req[q] EXCEPT !.heard = FALSE]
    BY <2>2 DEF Reload, Unheard
  <2>3. ASSUME NEW k \in Token, SessionExpires(k) PROVE req'[q] = req[q]
    BY <2>3 DEF SessionExpires
  <2>4. req'[q] \in {Free, req[q]} \/ req'[q] = [req[q] EXCEPT !.heard = FALSE]
    BY <2>1, <2>2, <2>3
  <2>5. CASE req'[q] = [req[q] EXCEPT !.heard = FALSE]
    BY <1>1, <2>5 DEF RequestsTyped
  <2> QED
    BY <2>4, <2>5
<1>5. \A q \in Request : req'[q].made # 0 => req'[q].step = req[q].step
  BY <1>4 DEF Free
<1> QED
  BY <1>2, <1>3, <1>4, <1>5, ReplacedStays

LEMMA ReplacedStep == Inv /\ Replaced /\ [Next]_vars => Replaced'
<1> SUFFICES ASSUME Inv, Replaced, [Next]_vars PROVE Replaced'
  OBVIOUS
<1>1. ASSUME NEW r \in Request, Serve(r) PROVE Replaced'
  BY <1>1, ReplacedStatements, ReplacedIssues DEF Serve
<1>2. ASSUME NEW r \in Request, NEW t \in Tab, TabActs(r, t) PROVE Replaced'
  <2>1. PICK kind \in Kinds \ {"none"} : Send(r, t, kind)
    BY <1>2 DEF TabActs, Load, Rerender, Submit, StartRefresh, Kinds
  <2> QED
    BY <2>1, ReplacedSends
<1>3. ASSUME UNCHANGED <<session, cookie, req, shared>> PROVE Replaced'
  BY <1>3 DEF Replaced, MadeIsFresh, RefreshIsDone, ReplacedIsOver, OneChild
<1>4. ASSUME NEW t \in Tab, CallApi(t) \/ JoinRefresh(t) \/ AccessExpires(t) PROVE Replaced'
  BY <1>3, <1>4 DEF CallApi, JoinRefresh, AccessExpires
<1>5. CASE UNCHANGED vars
  BY <1>3, <1>5 DEF vars
<1> QED
  BY <1>1, <1>2, <1>4, <1>5, ReplacedDelivers, ReplacedFaults DEF Next

-----------------------------------------------------------------------------
(***************************************************************************)
(* Without faults every answer reaches the browser.                        *)
(***************************************************************************)
AllHeard == \A r \in Request : req[r] # Free => req[r].heard

(* A refresh or a logout that has revoked the session it carries.          *)
Done(q) == \/ q.kind \in {"restore", "retry"} /\ q.step \in {"issue", "ok"}
           \/ q.kind = "logout" /\ q.step = "ok"

CookieWorks == cookie # 0 => \/ session[cookie].state = "live"
                             \/ \E r \in Request : Done(req[r]) /\ req[r].carried = cookie

(* Of a revoked session that is not shared, the request that revoked it is *)
(* on its way, or the browser has had its answer and has another cookie.   *)
RevokedIsLeft ==
    \A k \in Token \ shared : session[k].state = "revoked" =>
        /\ \A r \in Request : req[r].carried = k => Done(req[r])
        /\ \/ \E r \in Request : req[r].carried = k
           \/ cookie # k /\ \A r \in Request : req[r].made # k

RefusedIsOver ==
    \A k \in refused : /\ k \in Token
                       /\ \/ k \in shared
                          \/ /\ session[k].state = "expired"
                             /\ \A r \in Request : req[r].carried = k => ~Passed(req[r])

Calm == AllHeard /\ CookieWorks /\ RevokedIsLeft /\ RefusedIsOver

LEMMA InitCalm == Init => Calm
<1> SUFFICES ASSUME Init PROVE Calm
  OBVIOUS
<1>1. \A r \in Request : req[r] = Free
  BY DEF Init
<1>2. /\ cookie # 0 => session[cookie].state = "live"
      /\ \A k \in Token : session[k].state # "revoked"
  <2> DEFINE Fresh == cookie = 0 /\ session = [k \in Token |-> Unissued]
             Known1 == /\ cookie = 1 /\ 1 \in Token
                       /\ session = [k \in Token |-> IF k = 1
                                                     THEN [Unissued EXCEPT !.state = "live"]
                                                     ELSE Unissued]
  <2>3. Fresh \/ Known1
    BY DEF Init
  <2>1. CASE Fresh
    BY <2>1 DEF Unissued
  <2>2. CASE Known1
    <3>1. /\ [Unissued EXCEPT !.state = "live"].state = "live"
          /\ Unissued.state = "unissued"
      BY DEF Unissued
    <3>2. \A k \in Token : session[k].state = IF k = 1 THEN "live" ELSE "unissued"
      BY <2>2, <3>1
    <3>3. cookie = 1 /\ 1 \in Token
      BY <2>2
    <3> QED
      BY <3>2, <3>3
  <2> HIDE DEF Fresh, Known1
  <2> QED
    BY <2>1, <2>2, <2>3
<1> QED
  BY <1>1, <1>2 DEF Calm, AllHeard, CookieWorks, RevokedIsLeft, RefusedIsOver, Init

(* A statement: the request moves on to its next step.                     *)
Moved(r, to) ==
    /\ req'[r].kind = req[r].kind /\ req'[r].carried = req[r].carried
    /\ req'[r].made = req[r].made /\ req'[r].heard = req[r].heard /\ req'[r].step = to
    /\ \A q \in Request : q # r => req'[q] = req[q]

LEMMA MovesOn ==
    ASSUME Inv, Calm, NEW r \in Request, NEW to \in Steps, Advance(r, to), req[r].step # "none"
    PROVE  Moved(r, to) /\ req'[r].heard
<1>1. req[r].heard
  BY DEF Calm, AllHeard, Free
<1>2. req' = [req EXCEPT ![r].step = to]
  BY <1>1 DEF Advance, Inv, TablesTyped, RequestsTyped
<1> QED
  BY <1>1, <1>2 DEF Moved, Inv, TablesTyped, RequestsTyped

LEMMA CalmFind ==
    ASSUME Inv, Calm, NEW r \in Request, Find(r)
    PROVE  Calm'
<1> USE DEF Calm
<1>1. UNCHANGED <<session, cookie, shared>> /\ req[r].step = "find"
  BY DEF Find, Step
<1>2. PICK to \in {"revoke", "no"} : /\ Moved(r, to) /\ req'[r].heard
                                     /\ to = "revoke" => /\ session[req[r].carried].state = "live"
                                                         /\ UNCHANGED refused
                                     /\ to = "no" => /\ \/ req[r].carried = 0
                                                        \/ session[req[r].carried].state # "live"
                                                     /\ refused' \subseteq
                                                           refused \cup ({req[r].carried} \ {0})
  BY <1>1, MovesOn DEF Find, Usable, Steps
<1>3. ~Done(req[r]) /\ ~Done(req'[r]) /\ ~Passed(req[r])
  BY <1>1, <1>2 DEF Done, Passed, Moved
<1>4. req[r].carried \in Token \cup {0}
  BY DEF Inv, TablesTyped, RequestsTyped
<1>5. AllHeard'
  BY <1>2 DEF AllHeard, Moved
<1>6. CookieWorks'
  BY <1>1, <1>2, <1>3 DEF CookieWorks, Moved
<1>7. RevokedIsLeft'
  BY <1>1, <1>2, <1>3 DEF RevokedIsLeft, Moved
<1>8. ASSUME NEW k \in Token \ shared, k \in refused'
      PROVE  /\ session[k].state = "expired"
             /\ \A q \in Request : req'[q].carried = k => ~Passed(req'[q])
  <2>1. CASE k \in refused
    BY <1>2, <1>3, <1>8, <2>1 DEF RefusedIsOver, Moved, Passed
  <2>2. CASE k \notin refused
    <3>1. to = "no" /\ k = req[r].carried
      BY <1>2, <1>8, <2>2
    <3>2. \A q \in Request : q # r => req[q].carried # k
      BY <3>1, <1>8 DEF Inv, SharedIsNoted, Token
    <3>3. session[k].state \in {"revoked", "expired"}
      BY <1>2, <1>4, <3>1 DEF Inv, CarriedIsIssued, Known, TablesTyped, SessionsTyped, Token
    <3>4. session[k].state # "revoked"
      BY <1>3, <3>1 DEF RevokedIsLeft
    <3> QED
      BY <1>2, <3>1, <3>2, <3>3, <3>4 DEF Moved, Passed
  <2> QED
    BY <2>1, <2>2
<1>9. refused' \subseteq Token
  BY <1>2, <1>4 DEF RefusedIsOver
<1>10. RefusedIsOver'
  BY <1>1, <1>8, <1>9 DEF RefusedIsOver
<1> QED
  BY <1>5, <1>6, <1>7, <1>10

(* Statements of login and register, which carry no session.               *)
LEMMA CalmForms ==
    ASSUME Inv, Calm, NEW r \in Request, RefuseLogin(r) \/ CheckAddress(r) \/ InsertUser(r)
    PROVE  Calm'
<1> USE DEF Calm
<1>1. UNCHANGED <<session, cookie, shared, refused>>
  BY DEF RefuseLogin, CheckAddress, InsertUser
<1>2. PICK to \in Steps : Advance(r, to)
  BY DEF RefuseLogin, CheckAddress, InsertUser, Steps
<1>3. req[r].step # "none" /\ req[r].kind \in {"login", "register"}
  BY DEF RefuseLogin, CheckAddress, InsertUser, Step, Inv, OthersCarryNone, TablesTyped,
         RequestsTyped, Kinds
<1>4. Moved(r, to) /\ req'[r].heard
  BY <1>2, <1>3, MovesOn
<1>5. /\ req[r].carried = 0 /\ req'[r].carried = 0 /\ req'[r].made = req[r].made
      /\ ~Done(req[r]) /\ ~Done(req'[r]) /\ 0 \notin Token
  BY <1>3, <1>4 DEF Inv, OthersCarryNone, Moved, Done, Token
<1>6. AllHeard'
  BY <1>4 DEF AllHeard, Moved
<1>7. CookieWorks'
  BY <1>1, <1>4, <1>5 DEF CookieWorks, Moved
<1>8. RevokedIsLeft'
  BY <1>1, <1>4, <1>5 DEF RevokedIsLeft, Moved
<1>9. RefusedIsOver'
  BY <1>1, <1>4, <1>5 DEF RefusedIsOver, Moved
<1> QED
  BY <1>6, <1>7, <1>8, <1>9

(* A session is revoked, by the request that carries it.                   *)
LEMMA CalmRevokes ==
    ASSUME Inv, Replaced, Calm, NEW r \in Request, RevokeOld(r) \/ Logout(r)
    PROVE  Calm'
<1> USE DEF Calm
<1>0. SessionsTyped /\ req[r].carried \in Token \cup {0} /\ cookie \in Token \cup {0} /\ 0 \notin Token
  BY DEF Inv, TablesTyped, RequestsTyped, Token
<1>1. UNCHANGED <<cookie, shared, refused>> /\ req[r].step = "revoke"
  BY DEF RevokeOld, Logout, Step
<1>2. /\ \A k \in Token : k # req[r].carried => session'[k].state = session[k].state
      /\ \A k \in Token : session[k].state = "expired" /\ req[r].kind = "logout"
                          => session'[k].state = "expired"
  <2>1. CASE RevokeOld(r)
    BY <1>0, <2>1 DEF RevokeOld, SessionsTyped, Refreshes
  <2>2. CASE Logout(r)
    BY <1>0, <2>2 DEF Logout, Revoked, SessionsTyped
  <2> QED
    BY <2>1, <2>2
<1>3. PICK to \in {"issue", "ok"} : /\ Advance(r, to)
                                    /\ to = "issue" => req[r].kind \in {"restore", "retry"}
                                    /\ to = "ok" => req[r].kind = "logout"
  BY DEF RevokeOld, Logout, Refreshes
<1>4. Moved(r, to) /\ req'[r].heard
  BY <1>1, <1>3, MovesOn DEF Steps
<1>5. Done(req'[r]) /\ ~Done(req[r])
  BY <1>1, <1>3, <1>4 DEF Done, Moved
<1>6. AllHeard'
  BY <1>4 DEF AllHeard, Moved
<1>7. CookieWorks'
  <2> SUFFICES ASSUME cookie # 0
               PROVE  \/ session'[cookie].state = "live"
                      \/ \E q \in Request : Done(req'[q]) /\ req'[q].carried = cookie
    BY <1>1 DEF CookieWorks
  <2>1. CASE cookie = req[r].carried
    BY <1>4, <1>5, <2>1 DEF Moved
  <2>2. CASE cookie # req[r].carried
    BY <1>0, <1>2, <1>4, <2>2 DEF CookieWorks, Moved
  <2> QED
    BY <2>1, <2>2
<1>8. RevokedIsLeft'
  <2> SUFFICES ASSUME NEW k \in Token \ shared, session'[k].state = "revoked"
               PROVE  /\ \A q \in Request : req'[q].carried = k => Done(req'[q])
                      /\ \/ \E q \in Request : req'[q].carried = k
                         \/ cookie # k /\ \A q \in Request : req'[q].made # k
    BY <1>1 DEF RevokedIsLeft
  <2>1. CASE k = req[r].carried
    <3>1. \A q \in Request : q # r => req[q].carried # k
      BY <2>1, <1>0 DEF Inv, SharedIsNoted
    <3> QED
      BY <1>4, <1>5, <2>1, <3>1 DEF Moved
  <2>2. CASE k # req[r].carried
    <3>1. session[k].state = "revoked"
      BY <1>2, <2>2
    <3> QED
      BY <1>4, <1>5, <2>2, <3>1 DEF RevokedIsLeft, Moved
  <2> QED
    BY <2>1, <2>2
<1>9. RefusedIsOver'
  <2> SUFFICES ASSUME NEW k \in refused, k \notin shared
               PROVE  /\ session'[k].state = "expired"
                      /\ \A q \in Request : req'[q].carried = k => ~Passed(req'[q])
    BY <1>1 DEF RefusedIsOver
  <2>1. /\ k \in Token /\ session[k].state = "expired"
        /\ \A q \in Request : req[q].carried = k => ~Passed(req[q])
    BY DEF RefusedIsOver
  <2>2. to = "issue" => req[r].carried # k
    BY <1>1, <1>3, <2>1 DEF Passed
  <2>3. session'[k].state = "expired"
    BY <1>2, <1>3, <2>1, <2>2
  <2>4. ASSUME NEW q \in Request, req'[q].carried = k PROVE ~Passed(req'[q])
    BY <1>3, <1>4, <2>1, <2>2, <2>4 DEF Moved, Passed
  <2> QED
    BY <2>3, <2>4
<1> QED
  BY <1>6, <1>7, <1>8, <1>9

LEMMA CalmIssues ==
    ASSUME Inv, Replaced, Calm, NEW r \in Request, Issue(r)
    PROVE  Calm'
<1> USE DEF Calm
<1>1. PICK k \in Token :
         /\ session[k] = Unissued
         /\ session' = [session EXCEPT ![k] = [state |-> "live", parent |-> req[r].carried]]
         /\ req' = [req EXCEPT ![r] = IF ~req[r].heard THEN Free
                                      ELSE [@ EXCEPT !.step = "ok", !.made = k]]
  BY DEF Issue, Issued
<1>2. UNCHANGED <<cookie, shared, refused>> /\ req[r].step = "issue"
  BY DEF Issue, Step
<1>3. /\ ~Known(k) /\ session'[k].state = "live"
      /\ \A l \in Token : l # k => session'[l] = session[l]
  BY <1>1 DEF Known, Unissued, Inv, TablesTyped, SessionsTyped
<1>4. req[r].heard
  BY <1>2 DEF AllHeard, Free
<1>5. /\ req'[r].kind = req[r].kind /\ req'[r].carried = req[r].carried
      /\ req'[r].made = k /\ req'[r].step = "ok" /\ req'[r].heard
      /\ \A q \in Request : q # r => req'[q] = req[q]
  BY <1>1, <1>4 DEF Inv, TablesTyped, RequestsTyped
<1>6. /\ \A q \in Request : Done(req[q]) => Done(req'[q])
      /\ \A q \in Request : Passed(req'[q]) => Passed(req[q])
      /\ \A q \in Request : req'[q].carried = req[q].carried
  BY <1>2, <1>5 DEF Done, Passed
<1>7. AllHeard'
  BY <1>5 DEF AllHeard
<1>8. CookieWorks'
  <2>1. cookie # 0 => cookie \in Token /\ cookie # k
    BY <1>3 DEF Inv, CarriedIsIssued, TablesTyped
  <2> QED
    BY <1>2, <1>3, <1>6, <2>1 DEF CookieWorks
<1>9. RevokedIsLeft'
  <2> SUFFICES ASSUME NEW l \in Token \ shared, session'[l].state = "revoked"
               PROVE  /\ \A q \in Request : req'[q].carried = l => Done(req'[q])
                      /\ \/ \E q \in Request : req'[q].carried = l
                         \/ cookie # l /\ \A q \in Request : req'[q].made # l
    BY <1>2 DEF RevokedIsLeft
  <2>1. l # k /\ session[l].state = "revoked"
    BY <1>3
  <2> QED
    BY <1>5, <1>6, <2>1 DEF RevokedIsLeft
<1>10. RefusedIsOver'
  <2>1. \A l \in refused : l \in shared \/ l # k
    BY <1>3 DEF RefusedIsOver, Known
  <2> QED
    BY <1>2, <1>3, <1>6, <2>1 DEF RefusedIsOver
<1> QED
  BY <1>7, <1>8, <1>9, <1>10

(* An answer is delivered: the cookie that it replaces is not the one that *)
(* it brings.                                                              *)
LEMMA CalmDelivers ==
    ASSUME Inv, Replaced, Calm, NEW r \in Request, Answer(r)
    PROVE  Calm'
<1> USE DEF Calm
<1>1. /\ UNCHANGED <<session, shared, refused>>
      /\ req' = [req EXCEPT ![r] = Free]
      /\ \/ req[r].step = "ok" /\ cookie' = CookieAfter(r)
         \/ req[r].step = "no" /\ cookie' = cookie
  BY DEF Answer, Step
<1>2. req'[r] = Free /\ \A q \in Request : q # r => req'[q] = req[q]
  BY <1>1 DEF Inv, TablesTyped, RequestsTyped
<1>0. /\ \A q \in Request : req[q].carried \in Token \cup {0} /\ req[q].made \in Token \cup {0}
      /\ req[r].kind \in Kinds /\ cookie \in Token \cup {0} /\ 0 \notin Token
  BY DEF Inv, TablesTyped, RequestsTyped, Token
<1>3. ~Done(req'[r]) /\ ~Passed(req'[r])
  BY <1>2 DEF Done, Passed, Free
<1>4. \/ cookie' = cookie /\ ~Done(req[r])
      \/ cookie' = 0
      \/ /\ cookie' = req[r].made /\ req[r].made \in Token
         /\ session[req[r].made].state = "live"
  <2>1. CASE req[r].step = "no"
    BY <1>1, <2>1 DEF Done
  <2>2. CASE req[r].step = "ok" /\ req[r].kind = "logout"
    <3>1. cookie' = CookieAfter(r)
      BY <1>1, <2>2
    <3>2. CookieAfter(r) = 0
      BY <2>2 DEF CookieAfter
    <3> QED
      BY <3>1, <3>2
  <2>3. CASE req[r].step = "ok" /\ req[r].kind # "logout" /\ req[r].made = 0
    BY <1>1, <2>3 DEF CookieAfter, Done, Replaced, RefreshIsDone
  <2>4. CASE req[r].step = "ok" /\ req[r].kind # "logout" /\ req[r].made # 0
    <3>1. session[req[r].made].state \in {"live", "expired"}
      BY <2>4 DEF Replaced, MadeIsFresh
    <3> QED
      BY <1>0, <1>1, <2>4, <3>1 DEF CookieAfter
  <2>5. req[r].step = "no" \/ req[r].step = "ok"
    BY <1>1
  <2>6. CASE req[r].step = "ok"
    <3>1. CASE req[r].kind = "logout"
      BY <2>2, <2>6, <3>1
    <3>2. CASE req[r].kind # "logout" /\ req[r].made = 0
      BY <2>3, <2>6, <3>2
    <3>3. CASE req[r].kind # "logout" /\ req[r].made # 0
      BY <2>4, <2>6, <3>3
    <3> QED
      BY <3>1, <3>2, <3>3
  <2> QED
    BY <2>1, <2>5, <2>6
<1>5. AllHeard'
  BY <1>2 DEF AllHeard
<1>6. CookieWorks'
  BY <1>0, <1>1, <1>2, <1>4 DEF CookieWorks
<1>7. RevokedIsLeft'
  <2> SUFFICES ASSUME NEW k \in Token \ shared, session[k].state = "revoked"
               PROVE  /\ \A q \in Request : req'[q].carried = k => Done(req'[q])
                      /\ \/ \E q \in Request : req'[q].carried = k
                         \/ cookie' # k /\ \A q \in Request : req'[q].made # k
    BY <1>1 DEF RevokedIsLeft
  <2>1. \A q \in Request : req'[q].carried = k => Done(req'[q])
    BY <1>0, <1>2 DEF RevokedIsLeft, Free
  <2>2. CASE \E q \in Request : q # r /\ req[q].carried = k
    BY <1>2, <2>1, <2>2
  <2>3. CASE req[r].carried = k
    <3>1. Done(req[r])
      BY <2>3 DEF RevokedIsLeft
    <3>2. \A q \in Request : req[q].made # k
      BY <1>0, <2>3 DEF Replaced, MadeIsFresh
    <3> QED
      BY <1>0, <1>2, <1>4, <2>1, <3>1, <3>2 DEF Free
  <2>4. CASE \A q \in Request : req[q].carried # k
    <3>1. cookie # k /\ \A q \in Request : req[q].made # k
      BY <2>4 DEF RevokedIsLeft
    <3> QED
      BY <1>0, <1>2, <1>4, <2>1, <3>1 DEF Free
  <2> QED
    BY <2>2, <2>3, <2>4
<1>8. RefusedIsOver'
  <2>1. \A q \in Request : Passed(req'[q]) => req'[q] = req[q]
    BY <1>2, <1>3
  <2> QED
    BY <1>1, <2>1 DEF RefusedIsOver
<1> QED
  BY <1>5, <1>6, <1>7, <1>8

(* What is sent carries the cookie: if that was revoked, the request that  *)
(* revoked it is on its way, and they share it.                            *)
LEMMA CalmSends ==
    ASSUME Inv, Replaced, Calm, NEW r \in Request, NEW t \in Tab, NEW kind \in Kinds \ {"none"},
           Send(r, t, kind)
    PROVE  Calm'
<1> USE DEF Calm
<1> DEFINE new == [kind |-> kind, tab |-> t, step |-> FirstStep(kind),
                   carried |-> IF Carries(kind) THEN cookie ELSE 0, made |-> 0, heard |-> TRUE]
<1>1. /\ req' = [req EXCEPT ![r] = new] /\ req[r] = Free
      /\ UNCHANGED <<session, cookie, refused>>
      /\ shared' = shared \cup {k \in Token : /\ Carries(kind) /\ k = cookie
                                             /\ \E q \in Request : req[q].carried = k}
  BY DEF Send
<1>0. cookie \in Token \cup {0} /\ 0 \notin Token
  BY DEF Inv, TablesTyped, Token
<1>2. /\ req'[r] = new /\ \A q \in Request : q # r => req'[q] = req[q]
  BY <1>1 DEF Inv, TablesTyped, RequestsTyped
<1>3. /\ new.kind = kind /\ new.step = FirstStep(kind) /\ new.made = 0 /\ new.heard
      /\ \/ new.carried = 0
         \/ Carries(kind) /\ new.carried = cookie
  OBVIOUS
<1>4. FirstStep(kind) \notin {"ok", "no"} /\ (kind \in {"restore", "retry"} => FirstStep(kind) = "find")
  BY DEF FirstStep, Kinds
<1>5. ~Passed(new) /\ ~Done(new) /\ ~Done(req[r]) /\ req[r].carried = 0
  BY <1>1, <1>3, <1>4 DEF Passed, Done, Free
<1> HIDE DEF new
<1>6. AllHeard'
  BY <1>2, <1>3 DEF AllHeard
<1>7. CookieWorks'
  BY <1>1, <1>2, <1>5 DEF CookieWorks
<1>8. RevokedIsLeft'
  <2> SUFFICES ASSUME NEW k \in Token \ shared', session[k].state = "revoked"
               PROVE  /\ \A q \in Request : req'[q].carried = k => Done(req'[q])
                      /\ \/ \E q \in Request : req'[q].carried = k
                         \/ cookie # k /\ \A q \in Request : req'[q].made # k
    BY <1>1 DEF RevokedIsLeft
  <2>1. k \notin shared
    BY <1>1
  <2>2. new.carried # k
    <3> SUFFICES ASSUME new.carried = k PROVE FALSE
      OBVIOUS
    <3>1. Carries(kind) /\ k = cookie
      BY <1>0, <1>3
    <3>2. \E q \in Request : req[q].carried = k
      BY <2>1, <3>1 DEF RevokedIsLeft
    <3> QED
      BY <1>1, <3>1, <3>2
  <2> QED
    BY <1>0, <1>2, <1>3, <1>5, <2>1, <2>2 DEF RevokedIsLeft
<1>9. RefusedIsOver'
  <2>1. shared \subseteq shared'
    BY <1>1
  <2>2. \A q \in Request : Passed(req'[q]) => req'[q] = req[q]
    BY <1>2, <1>5
  <2> QED
    BY <1>1, <2>1, <2>2 DEF RefusedIsOver
<1> QED
  BY <1>6, <1>7, <1>8, <1>9

LEMMA CalmExpires ==
    ASSUME Inv, Calm, NEW k \in Token, SessionExpires(k)
    PROVE  Calm'
<1> USE DEF Calm
<1>1. /\ UNCHANGED <<req, shared, refused>> /\ session[k].state = "live"
      /\ cookie' = IF cookie = k THEN 0 ELSE cookie
  BY DEF SessionExpires
<1>2. /\ session'[k].state = "expired"
      /\ \A l \in Token : l # k => session'[l] = session[l]
  BY DEF SessionExpires, Inv, TablesTyped, SessionsTyped
<1>3. cookie \in Token \cup {0}
  BY DEF Inv, TablesTyped
<1>4. CookieWorks'
  BY <1>1, <1>2, <1>3 DEF CookieWorks
<1>5. RevokedIsLeft'
  BY <1>1, <1>2, <1>3 DEF RevokedIsLeft, Token
<1>6. RefusedIsOver'
  BY <1>1, <1>2 DEF RefusedIsOver
<1> QED
  BY <1>1, <1>4, <1>5, <1>6 DEF AllHeard

CalmSoFar == faults \in Nat /\ (faults = 0 => Calm)

LEMMA CalmStep == Inv /\ Replaced /\ CalmSoFar /\ [Next]_vars => CalmSoFar'
<1> SUFFICES ASSUME Inv, Replaced, CalmSoFar, [Next]_vars PROVE CalmSoFar'
  OBVIOUS
<1> USE DEF CalmSoFar
<1>1. ASSUME NEW r \in Request, Serve(r) PROVE CalmSoFar'
  <2>1. UNCHANGED faults
    BY <1>1 DEF Serve, Find, RevokeOld, RefuseLogin, Issue, Logout, CheckAddress, InsertUser
  <2> QED
    BY <1>1, <2>1, CalmFind, CalmRevokes, CalmForms, CalmIssues DEF Serve
<1>2. ASSUME NEW r \in Request, NEW t \in Tab, TabActs(r, t) PROVE CalmSoFar'
  <2>1. PICK kind \in Kinds \ {"none"} : Send(r, t, kind)
    BY <1>2 DEF TabActs, Load, Rerender, Submit, StartRefresh, Kinds
  <2>2. UNCHANGED faults
    BY <1>2 DEF TabActs, Load, Rerender, Submit, StartRefresh
  <2> QED
    BY <2>1, <2>2, CalmSends
<1>3. ASSUME NEW r \in Request, Answer(r) PROVE CalmSoFar'
  BY <1>3, CalmDelivers DEF Answer
<1>4. ASSUME NEW k \in Token, SessionExpires(k) PROVE CalmSoFar'
  BY <1>4, CalmExpires DEF SessionExpires
<1>5. ASSUME Fault PROVE CalmSoFar'
  BY <1>5 DEF Fault
<1>6. ASSUME UNCHANGED <<session, cookie, req, shared, refused, faults>> PROVE CalmSoFar'
  BY <1>6 DEF Calm, AllHeard, CookieWorks, RevokedIsLeft, RefusedIsOver
<1>7. ASSUME NEW t \in Tab, CallApi(t) \/ JoinRefresh(t) \/ AccessExpires(t) PROVE CalmSoFar'
  BY <1>6, <1>7 DEF CallApi, JoinRefresh, AccessExpires
<1>8. CASE UNCHANGED vars
  BY <1>6, <1>8 DEF vars
<1> QED
  BY <1>1, <1>2, <1>3, <1>4, <1>5, <1>7, <1>8 DEF Next, TimeOut, Drop, Reload

LEMMA HistoryCorrect == Spec => [](Replaced /\ CalmSoFar)
<1>1. Init => Replaced /\ CalmSoFar
  BY InitReplaced, InitCalm DEF Init, CalmSoFar
<1> QED
  BY <1>1, InvCorrect, ReplacedStep, CalmStep, PTL DEF Spec

-----------------------------------------------------------------------------
(* Whatever tabs do at the same time, once all answers have arrived the    *)
(* browser has a cookie that works, or none.                               *)
THEOREM CookieStaysCurrent == Spec => []CookieIsCurrent
<1>1. Replaced /\ CalmSoFar => CookieIsCurrent
  <2> SUFFICES ASSUME CalmSoFar, faults = 0, InFlight = {}, cookie # 0
               PROVE  session[cookie].state = "live"
    BY DEF CookieIsCurrent
  <2>1. \A r \in Request : ~Done(req[r])
    BY DEF InFlight, Done, Free
  <2> QED
    BY <2>1 DEF CalmSoFar, Calm, CookieWorks
<1> QED
  BY <1>1, HistoryCorrect, PTL

(* A token that no two requests carried at the same time has one successor *)
(* at most, whatever is lost; and without faults it is refused only when   *)
(* it has expired.                                                         *)
THEOREM RotationSignsNobodyOut == Spec => []UnsharedIsServed
<1>1. Replaced /\ CalmSoFar => UnsharedIsServed
  <2> SUFFICES ASSUME Replaced, CalmSoFar, NEW k \in Token \ shared
               PROVE  /\ Cardinality(Children(k)) <= 1
                      /\ faults = 0 /\ k \in refused => session[k].state = "expired"
    BY DEF UnsharedIsServed
  <2>1. Cardinality(Children(k)) <= 1
    <3>1. CASE Children(k) = {}
      BY <3>1, FS_EmptySet
    <3>2. ASSUME NEW c \in Children(k) PROVE Children(k) = {c}
      BY DEF Children, Replaced, OneChild
    <3>3. \A c : Cardinality({c}) = 1
      BY FS_Singleton
    <3> QED
      BY <3>1, <3>2, <3>3
  <2> QED
    BY <2>1 DEF CalmSoFar, Calm, RefusedIsOver
<1> QED
  BY <1>1, HistoryCorrect, PTL
=============================================================================
