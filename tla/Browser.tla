-------------------------------- MODULE Browser --------------------------------
(***************************************************************************)
(* One person's browser and the pages of the service: internal/server's    *)
(* handlers as they look over HTTP, internal/csrf, and the forms of        *)
(* internal/ui.  Several tabs share the cookies; a request carries the     *)
(* cookies the browser held when it was sent, and Set-Cookie takes effect  *)
(* when the response arrives, so the requests of two tabs overlap freely.  *)
(*                                                                         *)
(* A handler is one step here: modules Login, Authorize, SessionEnd,       *)
(* AdminConsole and Enrollment take it apart into statements.  Of the      *)
(* database this module keeps the session rows a cookie can name and the   *)
(* locks of the one user; that user is declared and does not expire.       *)
(***************************************************************************)
EXTENDS Integers, SequencesExt

CONSTANTS
  Tabs,
  Addresses,     \* per tab, the handlers opened by a link or by their address
  Faults,        \* what else may happen (bounds the model)
  Tokens,        \* anti-forgery tokens
  SessionIds,
  Clients, PublicClients, RedirectURIs,
  AuthorizeRequests,  \* query strings of /authorize and /login
  LogoutRequests,     \* query strings of /logout
  Second, MaxTime     \* instants to a second; bound on the clock

VARIABLES
  now, jar,        \* the clock; the browser's cookies
  store, locks,    \* live session rows; locks of the user
  tab, net,        \* what a tab shows; its request or response under way
  stale,           \* history: see FormsAccepted
  settled          \* history: see OneLoginIsEnough

vars == <<now, jar, store, locks, tab, net, stale, settled>>

NoCookie == "none"
Keep == "keep"          \* a response that does not set the cookie

ASSUME BrowserAssumption ==
  /\ {NoCookie, Keep} \cap (Tokens \cup SessionIds) = {}
  /\ Second \in Nat \ {0} /\ MaxTime \in Nat

NoRequest == [client |-> "nobody"]
Absent == -1            \* max_age is not given
Untrue == "none"        \* no error; no redirect URI

Cookies == [csrf : Tokens \cup {NoCookie},
            sso : SessionIds \cup {NoCookie}, admin : SessionIds \cup {NoCookie}]
Cookieless == [csrf |-> NoCookie, sso |-> NoCookie, admin |-> NoCookie]
SetNothing == [csrf |-> Keep, sso |-> Keep, admin |-> Keep]

\* internal/ui: the protected forms of a page, by the handler they submit to.
signOutForm == {"adminLogOut"}
enrollmentDialog == {"processEnrollmentToken"}
lockActions == {"processLockChange"}

Forms == [login |-> {"processLogin"}, logout |-> {"processLogout"},
          panic |-> {"processPanic"}, enroll |-> {"processEnroll"},
          adminLogin |-> {"processAdminLogin"},
          adminHome |-> signOutForm \cup enrollmentDialog \cup lockActions,
          enrollmentToken |-> signOutForm, auditLog |-> signOutForm]

Protected == UNION {Forms[kind] : kind \in DOMAIN Forms}

\* A page: the field its forms carry and the query they or it came with; for
\* a page of a client, where it is and what it was sent.
Page(kind, token, q) ==
  [kind |-> kind, token |-> token, q |-> q, uri |-> Untrue, code |-> FALSE, age |-> 0]
Plain(kind) == Page(kind, NoCookie, NoRequest)
HasForm(page) == page.kind \in DOMAIN Forms

Idle == [phase |-> "idle"]

Init ==
  /\ now = 0 /\ jar = Cookieless /\ store = {} /\ locks = {}
  /\ tab = [t \in Tabs |-> Plain("blank")]
  /\ net = [t \in Tabs |-> Idle]
  /\ stale = [t \in Tabs |-> FALSE] /\ settled = [t \in Tabs |-> FALSE]

-----------------------------------------------------------------------------
(* The person *)

\* typed: the proof entered with a form verifies.
Send(t, handler, q, field, typed, cookies) ==
  /\ net' = [net EXCEPT ![t] = [phase |-> "sent", handler |-> handler, q |-> q,
                                field |-> field, typed |-> typed, cookies |-> cookies]]
  /\ stale' = [stale EXCEPT ![t] = FALSE]

Queries(handler) ==
  CASE handler \in {"authorize", "loginForm"} -> AuthorizeRequests
    [] handler = "logoutForm" -> LogoutRequests \cup {NoRequest}
    [] OTHER -> {NoRequest}

Open(t, handler, q) ==
  /\ net[t].phase = "idle" /\ handler \in Addresses[t] /\ q \in Queries(handler)
  /\ Send(t, handler, q, NoCookie, FALSE, jar)
  /\ tab' = [tab EXCEPT ![t] = Plain("blank")]
  /\ settled' = [settled EXCEPT ![t] = FALSE]
  /\ UNCHANGED <<now, jar, store, locks>>

\* Forms without a proof or a choice to enter.
Entered(handler) ==
  IF handler \in {"processLogout", "processPanic", "adminLogOut"} THEN {TRUE} ELSE BOOLEAN

Submit(t, handler, typed) ==
  /\ net[t].phase = "idle" /\ HasForm(tab[t]) /\ handler \in Forms[tab[t].kind]
  /\ Send(t, handler, tab[t].q, tab[t].token, typed, jar)
  /\ tab' = [tab EXCEPT ![t] = Plain("blank")]
  /\ settled' = [settled EXCEPT ![t] = FALSE]
  /\ UNCHANGED <<now, jar, store, locks>>

-----------------------------------------------------------------------------
(* Requests and responses *)

Asked(t, handler) == net[t].phase = "sent" /\ net[t].handler = handler
carried(t) == net[t].cookies

Respond(t, page, follow, set) ==
  /\ net' = [net EXCEPT ![t] = [phase |-> "answered", page |-> page, follow |-> follow, set |-> set,
                                first |-> carried(t).csrf = NoCookie]]
  /\ UNCHANGED <<now, jar, tab, stale, settled>>

Show(t, page) == Respond(t, page, "none", SetNothing)
Redirect(t, handler, q, set) == Respond(t, Page("blank", NoCookie, q), handler, set)
ToClient(t, q, uri, code, age, set) ==
  Respond(t, [Page("client", NoCookie, q) EXCEPT !.uri = uri, !.code = code, !.age = age], "none", set)

\* Tokens that a cookie, a form or a message of this browser holds.
TokensIn(m) ==
  CASE m.phase = "sent" -> {m.cookies.csrf, m.field}
    [] m.phase = "answered" -> {m.page.token, m.set.csrf}
    [] OTHER -> {}
UsedTokens == {jar.csrf} \cup UNION {{tab[t].token} \cup TokensIn(net[t]) : t \in Tabs}

\* csrf.Guard.Token: the cookie of the request, or a token nobody has yet.
Token(cookies) == IF cookies.csrf # NoCookie THEN {cookies.csrf} ELSE Tokens \ UsedTokens

\* Mutant of ShowForm: the form gets a token of its own and the cookie is set anew.
ShowFormRotating(t, kind, q) ==
  \E token \in Tokens \ UsedTokens :
    Respond(t, Page(kind, token, q), "none", [SetNothing EXCEPT !.csrf = token])

ShowForm(t, kind, q) ==
  \E token \in Token(carried(t)) :
    Respond(t, Page(kind, token, q), "none",
            [SetNothing EXCEPT !.csrf = IF token = carried(t).csrf THEN Keep ELSE token])

\* Mutant of Verify: two empty values match.
VerifyEqual(t) == net[t].field = carried(t).csrf

\* csrf.Guard.Verify
Verify(t) == carried(t).csrf # NoCookie /\ net[t].field = carried(t).csrf

Format(t) == (t \div Second) * Second
Session(id, kind) == {s \in store : s.id = id /\ s.kind = kind}

\* Rows no cookie of this browser can name any more are left out.
IdsIn(m) ==
  CASE m.phase = "sent" -> {m.cookies.sso, m.cookies.admin}
    [] m.phase = "answered" -> {m.set.sso, m.set.admin}
    [] OTHER -> {}
UsedIds == {jar.sso, jar.admin} \cup UNION {IdsIn(net[t]) : t \in Tabs}

Create(id, kind) ==
  /\ id \in SessionIds \ UsedIds
  /\ store' = {s \in store : s.id \in UsedIds}
                \cup {[id |-> id, kind |-> kind, createdAt |-> Format(now), authenticated |-> now]}

UserSessions == {s \in store : s.kind = "user"}

\* lock.LockSubject and PanicSubject: the lock and the sessions in one step.
Lock(l) == locks' = locks \cup {l} /\ store' = store \ UserSessions

-----------------------------------------------------------------------------
(* authorize.go *)

\* Mutant of Trusted: the URI may be that of any client.
TrustedAnywhere(q) ==
  /\ ~q.repeated
  /\ q.client \in Clients /\ \E c \in Clients : q.redirect_uri \in RedirectURIs[c]

\* A parameter given twice, an unknown client or a redirect URI the client
\* did not register: there is nowhere to send an error to.
Trusted(q) ==
  /\ ~q.repeated
  /\ q.client \in Clients /\ q.redirect_uri \in RedirectURIs[q.client]

\* validateAuthorizeRequest: the first rule broken is the error reported.
Rules(q) ==
  <<[broken |-> q.response_type # "code", error |-> "unsupported_response_type"],
    [broken |-> q.response_mode \notin {"", "query"}, error |-> "invalid_request"],
    [broken |-> "none" \in q.prompt /\ q.prompt # {"none"}, error |-> "invalid_request"],
    [broken |-> q.max_age # Absent /\ q.max_age \notin Nat, error |-> "invalid_request"],
    [broken |-> q.request, error |-> "request_not_supported"],
    [broken |-> q.request_uri, error |-> "request_uri_not_supported"],
    [broken |-> "openid" \notin q.scope, error |-> "invalid_scope"],
    [broken |-> /\ q.code_challenge = ""
                /\ (q.code_challenge_method # "" \/ q.client \in PublicClients),
     error |-> "invalid_request"],
    [broken |-> q.code_challenge # "" /\ (q.code_challenge_method # "S256" \/ q.code_challenge = "malformed"),
     error |-> "invalid_request"]>>

validateAuthorizeRequest(q) ==
  LET broken == {i \in DOMAIN Rules(q) : Rules(q)[i].broken}
  IN  IF broken = {} THEN Untrue ELSE Rules(q)[Min(broken)].error

\* parseAndValidateAuthorizeRequest, as /login uses it.
Pending(q) == Trusted(q) /\ validateAuthorizeRequest(q) = Untrue

\* Mutant of sessionWithinMaxAge: the age counts from the next second on.
sessionWithinMaxAgeLate(s, q) ==
  q.max_age = Absent \/ (now - s.createdAt - Second) \div Second <= q.max_age

\* Another: an age equal to max_age is too old.
sessionWithinMaxAgeStrict(s, q) ==
  q.max_age = Absent \/ (now - s.createdAt) \div Second < q.max_age

sessionWithinMaxAge(s, q) ==
  q.max_age = Absent \/ (now - s.createdAt) \div Second <= q.max_age

authorizeRefused(t) ==
  LET q == net[t].q IN
  /\ Asked(t, "authorize")
  /\ IF Trusted(q) THEN validateAuthorizeRequest(q) # Untrue /\ ToClient(t, q, q.redirect_uri, FALSE, 0, SetNothing)
                   ELSE Show(t, Plain("invalidRequest"))
  /\ UNCHANGED <<store, locks>>

\* A session the locks have ended is deleted; prompt=none never interacts.
authorize(t) ==
  LET q == net[t].q
      current == Session(carried(t).sso, "user")
      usable == {s \in current : locks = {} /\ sessionWithinMaxAge(s, q)}
  IN
  /\ Asked(t, "authorize") /\ Pending(q) /\ "login" \notin q.prompt
  /\ \/ \E s \in usable : ToClient(t, q, q.redirect_uri, TRUE, now - s.authenticated, SetNothing)
     \/ /\ usable = {}
        /\ IF "none" \in q.prompt THEN ToClient(t, q, q.redirect_uri, FALSE, 0, SetNothing)
                                  ELSE Redirect(t, "loginForm", q, SetNothing)
  /\ store' = IF locks = {} THEN store ELSE store \ current
  /\ UNCHANGED locks

\* prompt=login: before the session is looked at.
authorizePromptLogin(t) ==
  /\ Asked(t, "authorize") /\ Pending(net[t].q) /\ "login" \in net[t].q.prompt
  /\ Redirect(t, "loginForm", net[t].q, SetNothing)
  /\ UNCHANGED <<store, locks>>

-----------------------------------------------------------------------------
(* login.go *)

loginForm(t) ==
  /\ Asked(t, "loginForm")
  /\ IF Pending(net[t].q) THEN ShowForm(t, "login", net[t].q) ELSE Show(t, Plain("invalidRequest"))
  /\ UNCHANGED <<store, locks>>

\* The query of the form's action was found valid when the form was rendered, and
\* only a deploy that withdraws the client or its URI could change that: the
\* invalid-request page, which the code checks for first, is not met here.
processLogin(t) ==
  /\ Asked(t, "processLogin") /\ Pending(net[t].q) /\ Verify(t)
  /\ \/ /\ net[t].typed /\ locks = {}
        /\ \E id \in SessionIds :
             /\ Create(id, "user")
             /\ Redirect(t, "authorize", net[t].q, [SetNothing EXCEPT !.sso = id])
     \/ /\ ~net[t].typed \/ locks # {}
        /\ ShowForm(t, "login", net[t].q)
        /\ UNCHANGED store
  /\ UNCHANGED locks

\* The 403 page of every protected handler.
writeForbiddenPage(t) ==
  /\ net[t].phase = "sent" /\ net[t].handler \in Protected /\ ~Verify(t)
  /\ Show(t, Plain("forbidden"))
  /\ UNCHANGED <<store, locks>>

-----------------------------------------------------------------------------
(* logout.go *)

\* The hint is an ID token of this issuer that has not expired, for a client
\* that registered the URI.
logoutRedirectTarget(h) ==
  /\ h # NoRequest /\ h.authentic /\ now < h.exp
  /\ h.client \in Clients /\ h.redirect_uri \in RedirectURIs[h.client]

\* Without a cookie there is nothing to confirm.
logoutForm(t) ==
  LET h == net[t].q IN
  /\ Asked(t, "logoutForm")
  /\ \E token \in Token(carried(t)) :
       LET set == [SetNothing EXCEPT !.csrf = IF token = carried(t).csrf THEN Keep ELSE token] IN
       Respond(t, IF carried(t).sso = NoCookie THEN Plain("signedOut")
                  ELSE Page("logout", token, IF logoutRedirectTarget(h) THEN h ELSE NoRequest),
               "none", set)
  /\ UNCHANGED <<store, locks>>

processLogout(t) ==
  LET h == net[t].q
      clear == [SetNothing EXCEPT !.sso = NoCookie]
  IN
  /\ Asked(t, "processLogout") /\ Verify(t)
  /\ store' = store \ Session(carried(t).sso, "user")
  /\ IF logoutRedirectTarget(h) THEN ToClient(t, h, h.redirect_uri, FALSE, 0, clear)
                                ELSE Respond(t, Plain("signedOut"), "none", clear)
  /\ UNCHANGED locks

-----------------------------------------------------------------------------
(* panic.go, enroll.go *)

panicForm(t) ==
  /\ Asked(t, "panicForm")
  /\ \E token \in Token(carried(t)) :
       LET set == [SetNothing EXCEPT !.csrf = IF token = carried(t).csrf THEN Keep ELSE token] IN
       Respond(t, IF Session(carried(t).sso, "user") = {} THEN Plain("panicSessionRequired")
                  ELSE Page("panic", token, NoRequest), "none", set)
  /\ UNCHANGED <<store, locks>>

processPanic(t) ==
  /\ Asked(t, "processPanic") /\ Verify(t)
  /\ IF Session(carried(t).sso, "user") = {}
     THEN Show(t, Plain("panicSessionRequired")) /\ UNCHANGED <<store, locks>>
     ELSE /\ Lock("panic")
          /\ Respond(t, Plain("panicComplete"), "none", [SetNothing EXCEPT !.sso = NoCookie])

enrollForm(t) ==
  Asked(t, "enrollForm") /\ ShowForm(t, "enroll", NoRequest) /\ UNCHANGED <<store, locks>>

processEnroll(t) ==
  /\ Asked(t, "processEnroll") /\ Verify(t)
  /\ IF net[t].typed THEN Show(t, Plain("enrollmentReady")) ELSE ShowForm(t, "enroll", NoRequest)
  /\ UNCHANGED <<store, locks>>

-----------------------------------------------------------------------------
(* admin.go, locks.go, audit.go *)

\* The landing page, or the audit log: either shows the sign-in form to a
\* browser without an administrator session.
adminPage(t) ==
  /\ \/ Asked(t, "adminForm") \/ Asked(t, "auditLog")
  /\ ShowForm(t, IF Session(carried(t).admin, "admin") = {} THEN "adminLogin"
                 ELSE IF net[t].handler = "adminForm" THEN "adminHome" ELSE "auditLog", NoRequest)
  /\ UNCHANGED <<store, locks>>

\* The form of a denied attempt is rendered without a token.
processAdminLogin(t) ==
  /\ Asked(t, "processAdminLogin") /\ Verify(t)
  /\ IF net[t].typed
     THEN \E id \in SessionIds :
            /\ Create(id, "admin")
            /\ Redirect(t, "adminForm", NoRequest, [SetNothing EXCEPT !.admin = id])
     ELSE Show(t, Plain("adminLogin")) /\ UNCHANGED store
  /\ UNCHANGED locks

adminLogOut(t) ==
  /\ Asked(t, "adminLogOut") /\ Verify(t)
  /\ store' = {s \in store : s.id # carried(t).admin}
  /\ Redirect(t, "adminForm", NoRequest, [SetNothing EXCEPT !.admin = NoCookie])
  /\ UNCHANGED locks

\* Both actions of the landing page need an administrator session.
adminSignedOut(t) ==
  /\ Asked(t, "processEnrollmentToken") \/ Asked(t, "processLockChange")
  /\ Verify(t) /\ Session(carried(t).admin, "admin") = {}
  /\ Redirect(t, "adminForm", NoRequest, SetNothing)
  /\ UNCHANGED <<store, locks>>

\* An unknown subject or an expiration that is not in the future: home again.
processEnrollmentToken(t) ==
  /\ Asked(t, "processEnrollmentToken") /\ Verify(t) /\ Session(carried(t).admin, "admin") # {}
  /\ ShowForm(t, IF net[t].typed THEN "enrollmentToken" ELSE "adminHome", NoRequest)
  /\ UNCHANGED <<store, locks>>

processLockChange(t) ==
  /\ Asked(t, "processLockChange") /\ Verify(t) /\ Session(carried(t).admin, "admin") # {}
  /\ ShowForm(t, "adminHome", NoRequest)
  /\ \/ net[t].typed /\ Lock("admin")
     \/ \E l \in {"admin", "panic"} : net[t].typed /\ locks' = locks \ {l} /\ UNCHANGED store
     \/ ~net[t].typed /\ UNCHANGED <<store, locks>>

Serve(t) ==
  \/ authorizeRefused(t) \/ authorize(t) \/ authorizePromptLogin(t)
  \/ loginForm(t) \/ processLogin(t) \/ writeForbiddenPage(t)
  \/ logoutForm(t) \/ processLogout(t)
  \/ panicForm(t) \/ processPanic(t) \/ enrollForm(t) \/ processEnroll(t)
  \/ adminPage(t) \/ processAdminLogin(t) \/ adminLogOut(t) \/ adminSignedOut(t)
  \/ processEnrollmentToken(t) \/ processLockChange(t)

-----------------------------------------------------------------------------
(* The browser, and the rest of the world *)

\* Mutant of Stored: a cookie the response does not set is overwritten.
StoredAll(set) == set

Stored(set) == [c \in DOMAIN jar |-> IF set[c] = Keep THEN jar[c] ELSE set[c]]

\* Every tab but t, if the answer to t replaces the anti-forgery cookie and
\* its request was sent when there was none.
Outdated(t, answer) ==
  IF answer.first /\ answer.set.csrf \notin {Keep, jar.csrf} /\ jar.csrf # NoCookie
  THEN Tabs \ {t} ELSE {}

\* A response arrives: its cookies are stored, a redirect is followed.
Receive(t) ==
  LET a == net[t] IN
  /\ a.phase = "answered"
  /\ jar' = Stored(a.set)
  /\ settled' = [u \in Tabs |-> IF a.set.sso = Keep THEN settled[u]
                                ELSE u = t /\ a.follow = "authorize"]
  /\ IF a.follow = "none"
     THEN /\ net' = [net EXCEPT ![t] = Idle] /\ tab' = [tab EXCEPT ![t] = a.page]
          /\ stale' = [u \in Tabs |-> stale[u] \/ u \in Outdated(t, a)]
     ELSE /\ net' = [net EXCEPT ![t] = [phase |-> "sent", handler |-> a.follow, q |-> a.page.q,
                                        field |-> NoCookie, typed |-> FALSE, cookies |-> jar']]
          /\ stale' = [u \in Tabs |-> u # t /\ (stale[u] \/ u \in Outdated(t, a))]
          /\ UNCHANGED tab
  /\ UNCHANGED <<now, store, locks>>

\* The connection breaks, or the handler fails, before or after its effect.
Lose(t) ==
  /\ "lose" \in Faults /\ net[t].phase # "idle"
  /\ net' = [net EXCEPT ![t] = Idle] /\ tab' = [tab EXCEPT ![t] = Plain("error")]
  /\ UNCHANGED <<now, jar, store, locks, stale, settled>>

\* The browser is closed and opened again: the anti-forgery cookie has no
\* lifetime, the tabs are restored.
Reopen ==
  /\ "reopen" \in Faults /\ jar.csrf # NoCookie /\ \A t \in Tabs : net[t].phase = "idle"
  /\ jar' = [jar EXCEPT !.csrf = NoCookie]
  /\ stale' = [t \in Tabs |-> TRUE]
  /\ UNCHANGED <<now, store, locks, tab, net, settled>>

\* Someone else ends a session, or locks and unlocks the user.
Elsewhere ==
  /\ "elsewhere" \in Faults
  /\ \/ \E s \in store : store' = store \ {s} /\ UNCHANGED locks
     \/ \E l \in {"admin", "panic"} : Lock(l)
     \/ \E l \in locks : locks' = locks \ {l} /\ UNCHANGED store
  /\ UNCHANGED <<now, jar, tab, net, stale, settled>>

Tick ==
  /\ now < MaxTime /\ now' = now + 1
  /\ UNCHANGED <<jar, store, locks, tab, net, stale, settled>>

Next ==
  \/ \E t \in Tabs :
       \/ \E handler \in Addresses[t] : \E q \in Queries(handler) : Open(t, handler, q)
       \/ \E handler \in Protected : \E typed \in Entered(handler) : Submit(t, handler, typed)
       \/ Serve(t) \/ Receive(t) \/ Lose(t)
  \/ Reopen \/ Elsewhere \/ Tick

Spec == Init /\ [][Next]_vars

\* The server answers and the browser receives; a person shown the
\* sign-in form again and again submits it with the right proof, also again
\* and again (not the first time: a mistake, or a change of mind, is allowed).
SignInFairness ==
  \A t \in Tabs : /\ WF_vars(Serve(t)) /\ WF_vars(Receive(t))
                  /\ SF_vars(Submit(t, "processLogin", TRUE))

PatientSpec == Spec /\ SignInFairness

-----------------------------------------------------------------------------
(* Properties *)

TypeOK ==
  /\ now \in 0..MaxTime /\ jar \in Cookies /\ locks \in SUBSET {"admin", "panic"}
  /\ \A s \in store : s.id \in SessionIds /\ s.kind \in {"user", "admin"}
  /\ \A t \in Tabs : net[t].phase \in {"idle", "sent", "answered"}
  /\ stale \in [Tabs -> BOOLEAN] /\ settled \in [Tabs -> BOOLEAN]

Shown(t) == net[t].phase = "idle"

\* A form on the screen is accepted when it is submitted, unless since its
\* page was asked for the anti-forgery cookie was lost, or replaced by a
\* response to a request another tab sent when there was none
\* (csrf/guard.go, and every page of internal/ui with a form).
FormsAccepted ==
  \A t \in Tabs :
    Shown(t) /\ HasForm(tab[t]) /\ tab[t].token # NoCookie =>
      stale[t] \/ tab[t].token = jar.csrf

\* However sign-ins, sign-outs, errors and redirects follow one another, the
\* browser only ever lands at a URI registered by the very client whose
\* request, or whose ID token, sent it there (authorize.go, logout.go).
LandsRegistered ==
  \A t \in Tabs : tab[t].kind = "client" => tab[t].uri \in RedirectURIs[tab[t].q.client]

\* A code answers a request of a public client only with a challenge, and a
\* request with max_age only for an authentication at most that old, the
\* fractions of a second the records drop included (authorize.go).
CodeMeetsRequest ==
  \A t \in Tabs :
    tab[t].kind = "client" /\ tab[t].code =>
      LET q == tab[t].q IN
      /\ q.client \in PublicClients => q.code_challenge \notin {"", "malformed"}
      /\ q.max_age # Absent => tab[t].age < (q.max_age + 1) * Second

\* The session in the cookie is good for the request.
Good(id, q) ==
  /\ locks = {}
  /\ \E s \in Session(id, "user") :
       q.max_age # Absent => now - s.createdAt < (q.max_age + 1) * Second

\* A person who has just signed in for a request is not shown the form again
\* while the session in the cookie is good for it (login.go, authorize.go);
\* prompt=login is the exception, see SignInCompletes.
OneLoginIsEnough ==
  \A t \in Tabs :
    Shown(t) /\ tab[t].kind = "login" /\ settled[t] /\ "login" \notin tab[t].q.prompt =>
      ~Good(jar.sso, tab[t].q)

\* Opening an address never signs anybody in or out: apart from sessions that
\* end elsewhere, sign-ins and locks change only through a form the browser
\* got from the service (logout.go, panic.go: "The GET itself never changes
\* state").
ChangedBySubmission ==
  [][\A t \in Tabs :
       /\ net[t].phase = "sent" /\ net'[t].phase = "answered"
       /\ store' # store \/ locks' # locks
       => \/ net[t].handler = "authorize" /\ locks # {}
          \/ net[t].field = carried(t).csrf /\ net[t].field \in Tokens]_vars

\* Every protected form carries the token of the browser (csrf/guard.go).
FormsCarryToken ==
  \A t \in Tabs : HasForm(tab[t]) => tab[t].token # NoCookie

\* "On success, a session is created and the browser returns to the
\* application" (authentication.md).
SignInCompletes ==
  \A t \in Tabs : (Shown(t) /\ tab[t].kind = "login") ~> tab[t].kind = "client"
=============================================================================
