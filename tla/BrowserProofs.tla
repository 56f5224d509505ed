------------------------------ MODULE BrowserProofs ------------------------------
(***************************************************************************)
(* The properties of the pages, for any number of tabs, tokens, sessions   *)
(* and requests.  Every handler is first shown to be an Answer: what the   *)
(* browser is told is put in terms of what its request carried.  The       *)
(* proofs of the invariants then have one case for all handlers, and one   *)
(* for each thing that happens around them.                                *)
(***************************************************************************)
EXTENDS Browser, TLAPS

-----------------------------------------------------------------------------
(* Types                                                                   *)

\* What a response can do to the cookies; no page takes the anti-forgery
\* cookie away.
Settings == [csrf : Tokens \cup {Keep},
             sso : SessionIds \cup {NoCookie, Keep}, admin : SessionIds \cup {NoCookie, Keep}]

\* A session row keeps the second of its instant.
StoreOK ==
  \A s \in store :
    /\ s.authenticated \in Nat /\ s.authenticated <= now
    /\ s.createdAt = Format(s.authenticated)

\* The inductive invariant of the types.
TypeInv ==
  /\ TypeOK /\ StoreOK
  /\ DOMAIN net = Tabs /\ DOMAIN tab = Tabs
  /\ \A t \in Tabs : /\ net[t].phase = "sent" => net[t].cookies \in Cookies
                     /\ net[t].phase = "answered" => net[t].set \in Settings

\* Comparing whole seconds with max_age is comparing instants with the end of
\* the second it names.
LEMMA WholeAge ==
  ASSUME NEW d \in Nat, NEW m \in Nat
  PROVE  d \div Second <= m <=> d < (m + 1) * Second
<1> DEFINE k == d \div Second
<1>1. Second \in Nat \ {0}
  BY BrowserAssumption
<1>2. k \in Nat /\ d = Second * k + (d % Second) /\ d % Second \in 0..(Second - 1)
  BY <1>1
<1> HIDE DEF k
<1>3. Second * k \in Nat /\ (m + 1) * Second \in Nat
  BY <1>1, <1>2
<1>4. CASE k <= m
  <2>1. PICK e \in Nat : m + 1 = k + 1 + e
    <3>1. m - k \in Nat /\ m + 1 = k + 1 + (m - k)
      BY <1>2, <1>4
    <3> QED
      BY <3>1
  <2>2. (k + 1 + e) * Second = Second * k + Second + Second * e /\ Second * e \in Nat
    BY <1>1, <1>2, <2>1
  <2> QED
    BY <1>1, <1>2, <1>3, <1>4, <2>1, <2>2 DEF k
<1>5. CASE ~(k <= m)
  <2>1. PICK e \in Nat : k = m + 1 + e
    <3>1. k - m - 1 \in Nat /\ k = m + 1 + (k - m - 1)
      BY <1>2, <1>5
    <3> QED
      BY <3>1
  <2>2. Second * (m + 1 + e) = (m + 1) * Second + Second * e /\ Second * e \in Nat
    BY <1>1, <2>1
  <2> QED
    BY <1>1, <1>2, <1>3, <1>5, <2>1, <2>2 DEF k
<1> QED
  BY <1>4, <1>5

\* What Format returns.
LEMMA FormatCuts ==
  ASSUME NEW t \in Nat
  PROVE  Format(t) \in Nat /\ Format(t) <= t
<1>1. t \div Second \in Nat /\ t = Second * (t \div Second) + (t % Second) /\ t % Second \in Nat
  BY BrowserAssumption
<1>2. (t \div Second) * Second \in Nat /\ (t \div Second) * Second = Second * (t \div Second)
  BY <1>1, BrowserAssumption
<1> QED
  BY <1>1, <1>2 DEF Format

-----------------------------------------------------------------------------
(* Handlers                                                                *)

\* The anti-forgery token of a page is that of the request; a request without
\* one gets a token that the answer stores.
TokenFits(cookies, page, set) ==
  \/ set.csrf = Keep /\ page.token \in {NoCookie, cookies.csrf}
  \/ cookies.csrf = NoCookie /\ set.csrf \in Tokens /\ page.token \in {NoCookie, set.csrf}

\* A page of a client is at one of its URIs, with a code only as the request
\* it answers allows.
LandingOK(page) ==
  page.kind = "client" =>
    /\ page.uri \in RedirectURIs[page.q.client]
    /\ page.code =>
         /\ page.q.client \in PublicClients => page.q.code_challenge \notin {"", "malformed"}
         /\ page.q.max_age # Absent => page.age < (page.q.max_age + 1) * Second

\* What a handler may do to the rows: delete some, and create one.
StoreStep ==
  \/ store' \subseteq store
  \/ \E id \in SessionIds \ UsedIds, kind \in {"user", "admin"} :
       store' \subseteq store \cup {[id |-> id, kind |-> kind, createdAt |-> Format(now), authenticated |-> now]}

\* Rows and locks change because a form of this browser was submitted, or
\* because a session that the locks have ended was found.
Authorised(t) ==
  \/ UNCHANGED <<store, locks>>
  \/ net[t].handler = "authorize" /\ locks # {}
  \/ net[t].field = carried(t).csrf /\ net[t].field \in Tokens

\* None of the rows is good for the request as the session of the cookie,
\* whatever the locks: there is none, or it is too old.
Exhausted(rows, time, id, q) ==
  \A s \in rows : s.id = id /\ s.kind = "user" =>
    q.max_age \in Nat /\ time - s.createdAt >= (q.max_age + 1) * Second

\* The sign-in form may be shown again.
Excused(rows, time, id, q) == "login" \in q.prompt \/ Exhausted(rows, time, id, q)

\* Where the request that follows a sign-in leads.
Follows(t, page, follow, set) ==
  /\ net[t].handler = "authorize" =>
       /\ set.sso = Keep
       /\ \/ follow = "none" /\ page.kind # "login"
          \/ follow = "loginForm" /\ page.q = net[t].q /\ Excused(store', now, carried(t).sso, net[t].q)
  /\ net[t].handler = "loginForm" =>
       set.sso = Keep /\ follow = "none" /\ (page.kind = "login" => page.q = net[t].q)

\* What every handler does.
Answer(t) ==
  /\ net[t].phase = "sent"
  /\ StoreStep /\ Authorised(t) /\ locks' \in SUBSET {"admin", "panic"}
  /\ \E page, follow, set :
       /\ Respond(t, page, follow, set) /\ set \in Settings
       /\ TokenFits(carried(t), page, set) /\ LandingOK(page) /\ Follows(t, page, follow, set)

\* A response that sets no cookie, and one that shows a page without a form.
LEMMA Setting ==
  /\ SetNothing \in Settings
  /\ \A id \in SessionIds \cup {NoCookie} :
       /\ [SetNothing EXCEPT !.sso = id] \in Settings
       /\ [SetNothing EXCEPT !.admin = id] \in Settings
  /\ \A token \in Tokens : [SetNothing EXCEPT !.csrf = token] \in Settings
  BY DEF SetNothing, Settings

\* csrf.Guard.Token, and the form it is for.
LEMMA FormFits ==
  ASSUME TypeInv, NEW t \in Tabs, net[t].phase = "sent", NEW token \in Token(carried(t)),
         NEW page, page.token \in {NoCookie, token}
  PROVE  LET set == [SetNothing EXCEPT !.csrf = IF token = carried(t).csrf THEN Keep ELSE token]
         IN  set \in Settings /\ TokenFits(carried(t), page, set) /\ set.sso = Keep
<1>1. carried(t).csrf \in Tokens \cup {NoCookie} /\ NoCookie \notin Tokens
  BY BrowserAssumption DEF TypeInv, carried, Cookies
<1>2. CASE carried(t).csrf # NoCookie
  BY <1>1, <1>2 DEF Token, SetNothing, Settings, TokenFits
<1>3. CASE carried(t).csrf = NoCookie
  <2>1. token \in Tokens /\ token # carried(t).csrf
    BY <1>1, <1>3 DEF Token
  <2> QED
    BY <1>3, <2>1 DEF SetNothing, Settings, TokenFits
<1> QED
  BY <1>2, <1>3

\* A handler that shows a form and changes nothing else.
LEMMA FormAnswers ==
  ASSUME TypeInv, NEW t \in Tabs, net[t].phase = "sent", NEW kind, NEW q, ShowForm(t, kind, q),
         kind # "client", StoreStep, Authorised(t), locks' \in SUBSET {"admin", "panic"},
         net[t].handler # "authorize",
         net[t].handler = "loginForm" => q = net[t].q
  PROVE  Answer(t)
<1>1. PICK token \in Token(carried(t)) :
        Respond(t, Page(kind, token, q), "none",
                [SetNothing EXCEPT !.csrf = IF token = carried(t).csrf THEN Keep ELSE token])
  BY DEF ShowForm
<1> DEFINE page == Page(kind, token, q)
           set == [SetNothing EXCEPT !.csrf = IF token = carried(t).csrf THEN Keep ELSE token]
<1>2. page.token = token /\ page.kind = kind /\ page.q = q
  BY DEF Page
<1>3. set \in Settings /\ TokenFits(carried(t), page, set) /\ set.sso = Keep
  BY <1>2, FormFits
<1>4. Respond(t, page, "none", set)
  BY <1>1
<1> HIDE DEF page, set
<1>5. LandingOK(page) /\ Follows(t, page, "none", set)
  BY <1>2, <1>3 DEF LandingOK, Follows
<1> QED
  BY <1>3, <1>4, <1>5 DEF Answer

\* One that answers with a page without a form, or a redirect, and leaves the
\* anti-forgery cookie alone.
LEMMA PlainAnswers ==
  ASSUME TypeInv, NEW t \in Tabs, net[t].phase = "sent",
         NEW page, NEW follow, NEW set \in Settings, Respond(t, page, follow, set),
         page.token = NoCookie, page.kind # "login", set.csrf = Keep, LandingOK(page),
         StoreStep, Authorised(t), locks' \in SUBSET {"admin", "panic"},
         Follows(t, page, follow, set)
  PROVE  Answer(t)
  BY DEF Answer, TokenFits

\* Nothing changes behind the page.
LEMMA QuietHandler ==
  ASSUME TypeInv, NEW t \in Tabs, UNCHANGED <<store, locks>>
  PROVE  StoreStep /\ Authorised(t) /\ locks' \in SUBSET {"admin", "panic"}
  BY DEF TypeInv, TypeOK, StoreStep, Authorised

\* A submission that carries the token of its cookie.
LEMMA VerifiedHandler ==
  ASSUME TypeInv, NEW t \in Tabs, net[t].phase = "sent", Verify(t)
  PROVE  Authorised(t)
  BY DEF TypeInv, Verify, Authorised, carried, Cookies

\* A new row.
LEMMA Creates ==
  ASSUME NEW id, NEW kind \in {"user", "admin"}, Create(id, kind)
  PROVE  StoreStep
  BY DEF Create, StoreStep

\* Plain pages, and what a redirect takes along.
LEMMA PageFields ==
  /\ \A kind : Plain(kind).token = NoCookie /\ Plain(kind).kind = kind
  /\ \A q : LET page == Page("blank", NoCookie, q) IN page.token = NoCookie /\ page.kind = "blank" /\ page.q = q
  BY DEF Plain, Page

\* Handlers other than those of /authorize and GET /login.
Elsewhen(t) == net[t].handler \notin {"authorize", "loginForm"}

\* A page without a form, a redirect, or the page of a client.
LEMMA ShowAnswers ==
  ASSUME TypeInv, NEW t \in Tabs, net[t].phase = "sent", NEW kind, kind \notin {"client", "login"},
         NEW set \in Settings, set.csrf = Keep, set.sso = Keep \/ Elsewhen(t),
         Respond(t, Plain(kind), "none", set),
         StoreStep, Authorised(t), locks' \in SUBSET {"admin", "panic"}
  PROVE  Answer(t)
<1> DEFINE page == Plain(kind)
<1>1. page.token = NoCookie /\ page.kind = kind
  BY PageFields
<1>2. Respond(t, page, "none", set)
  OBVIOUS
<1> HIDE DEF page
<1>3. LandingOK(page) /\ Follows(t, page, "none", set)
  BY <1>1 DEF LandingOK, Follows, Elsewhen
<1> QED
  BY <1>1, <1>2, <1>3, PlainAnswers

\* A redirect to another address of the server, which changes nothing else.
LEMMA RedirectAnswers ==
  ASSUME TypeInv, NEW t \in Tabs, net[t].phase = "sent", NEW follow, NEW q,
         NEW set \in Settings, set.csrf = Keep,
         \/ Elsewhen(t)
         \/ /\ net[t].handler = "authorize" /\ set.sso = Keep /\ follow = "loginForm"
            /\ q = net[t].q /\ Excused(store', now, carried(t).sso, q),
         Redirect(t, follow, q, set),
         StoreStep, Authorised(t), locks' \in SUBSET {"admin", "panic"}
  PROVE  Answer(t)
<1> DEFINE page == Page("blank", NoCookie, q)
<1>1. page.token = NoCookie /\ page.kind = "blank" /\ page.q = q
  BY PageFields
<1>2. Respond(t, page, follow, set)
  BY DEF Redirect
<1> HIDE DEF page
<1>3. LandingOK(page) /\ Follows(t, page, follow, set)
  BY <1>1 DEF LandingOK, Follows, Elsewhen
<1> QED
  BY <1>1, <1>2, <1>3, PlainAnswers

\* A page of a client, with or without a code, where LandsRegistered allows it.
LEMMA ClientAnswers ==
  ASSUME TypeInv, NEW t \in Tabs, net[t].phase = "sent", NEW q, NEW uri, NEW code, NEW age,
         NEW set \in Settings, set.csrf = Keep, set.sso = Keep \/ Elsewhen(t),
         net[t].handler # "loginForm",
         ToClient(t, q, uri, code, age, set),
         uri \in RedirectURIs[q.client],
         code => /\ q.client \in PublicClients => q.code_challenge \notin {"", "malformed"}
                 /\ q.max_age # Absent => age < (q.max_age + 1) * Second,
         StoreStep, Authorised(t), locks' \in SUBSET {"admin", "panic"}
  PROVE  Answer(t)
<1> DEFINE page == [Page("client", NoCookie, q) EXCEPT !.uri = uri, !.code = code, !.age = age]
<1>1. /\ page.token = NoCookie /\ page.kind = "client" /\ page.q = q
      /\ page.uri = uri /\ page.code = code /\ page.age = age
  BY DEF Page
<1>2. Respond(t, page, "none", set)
  BY DEF ToClient
<1> HIDE DEF page
<1>3. LandingOK(page)
  BY <1>1, Zenon DEF LandingOK
<1>4. Follows(t, page, "none", set)
  BY <1>1 DEF Follows, Elsewhen
<1> QED
  BY <1>1, <1>2, <1>3, <1>4, PlainAnswers

\* The first rule that is broken is one of the rules.
LEMMA LeastRule ==
  ASSUME NEW S \in SUBSET (1..9), S # {}
  PROVE  Min(S) \in S
<1>1. \E x \in S : \A y \in S : x <= y
  <2>1. \A y \in S : y \in {1, 2, 3, 4, 5, 6, 7, 8, 9}
    OBVIOUS
  <2>2. CASE 1 \in S
    BY <2>1, <2>2
  <2>3. CASE 1 \notin S /\ 2 \in S
    BY <2>1, <2>3
  <2>4. CASE {1, 2} \cap S = {} /\ 3 \in S
    BY <2>1, <2>4
  <2>5. CASE {1, 2, 3} \cap S = {} /\ 4 \in S
    BY <2>1, <2>5
  <2>6. CASE {1, 2, 3, 4} \cap S = {} /\ 5 \in S
    BY <2>1, <2>6
  <2>7. CASE {1, 2, 3, 4, 5} \cap S = {} /\ 6 \in S
    BY <2>1, <2>7
  <2>8. CASE \A k \in 1..6 : k \notin S
    <3>1. CASE 7 \in S
      BY <2>1, <2>8, <3>1
    <3>2. CASE 7 \notin S /\ 8 \in S
      BY <2>1, <2>8, <3>2
    <3>3. CASE 7 \notin S /\ 8 \notin S
      <4>1. \A y \in S : y = 9
        BY <2>8, <3>3
      <4>2. PICK x \in S : TRUE
        OBVIOUS
      <4> QED
        BY <4>1, <4>2
    <3> QED
      BY <3>1, <3>2, <3>3
  <2> QED
    BY <2>2, <2>3, <2>4, <2>5, <2>6, <2>7, <2>8
<1> QED
  BY <1>1 DEF Min

\* There are nine of them.
LEMMA NineRules ==
  ASSUME NEW q
  PROVE  DOMAIN Rules(q) = 1..9
<1> DEFINE b(i) == Rules(q)[i]
<1>1. Rules(q) = <<b(1), b(2), b(3), b(4), b(5), b(6), b(7), b(8), b(9)>>
  BY DEF Rules
<1> HIDE DEF b
<1> QED
  BY <1>1

\* What an accepted request is known to satisfy (validateAuthorizeRequest).
LEMMA Validated ==
  ASSUME NEW q, Pending(q)
  PROVE  /\ q.redirect_uri \in RedirectURIs[q.client]
         /\ q.client \in PublicClients => q.code_challenge \notin {"", "malformed"}
         /\ q.max_age = Absent \/ q.max_age \in Nat
<1>1. \A i \in 1..9 : ~Rules(q)[i].broken
  <2> SUFFICES ASSUME NEW i \in 1..9, Rules(q)[i].broken PROVE FALSE
    OBVIOUS
  <2> DEFINE broken == {j \in DOMAIN Rules(q) : Rules(q)[j].broken}
  <2>1. DOMAIN Rules(q) = 1..9
    BY NineRules
  <2>2. i \in broken /\ broken # {}
    BY <2>1, Zenon
  <2>3. broken \in SUBSET (1..9)
    BY <2>1, Zenon
  <2>4. Min(broken) \in 1..9
    BY <2>2, <2>3, LeastRule
  <2>5. ASSUME NEW j \in 1..9 PROVE Rules(q)[j].error # Untrue
    <3>1. /\ Rules(q)[1].error # Untrue /\ Rules(q)[2].error # Untrue /\ Rules(q)[3].error # Untrue
          /\ Rules(q)[4].error # Untrue /\ Rules(q)[5].error # Untrue /\ Rules(q)[6].error # Untrue
          /\ Rules(q)[7].error # Untrue /\ Rules(q)[8].error # Untrue /\ Rules(q)[9].error # Untrue
      BY DEF Rules, Untrue
    <3>2. j \in {1, 2, 3, 4, 5, 6, 7, 8, 9}
      OBVIOUS
    <3> QED
      BY <3>1, <3>2
  <2>6. Rules(q)[Min(broken)].error = Untrue
    BY <2>2 DEF Pending, validateAuthorizeRequest
  <2> QED
    BY <2>4, <2>5, <2>6
<1>2. /\ ~(q.max_age # Absent /\ q.max_age \notin Nat)
      /\ ~(q.code_challenge = "" /\ (q.code_challenge_method # "" \/ q.client \in PublicClients))
      /\ ~(q.code_challenge # "" /\ (q.code_challenge_method # "S256" \/ q.code_challenge = "malformed"))
  <2>1. ~Rules(q)[4].broken /\ ~Rules(q)[8].broken /\ ~Rules(q)[9].broken
    BY <1>1
  <2> QED
    BY <2>1 DEF Rules
<1>3. q.redirect_uri \in RedirectURIs[q.client]
  BY DEF Pending, Trusted
<1> QED
  BY <1>2, <1>3

-----------------------------------------------------------------------------
(* One lemma for each file of handlers                                     *)

\* An age that was not within max_age.
LEMMA TooOld ==
  ASSUME TypeInv, NEW s \in store, NEW q, q.max_age = Absent \/ q.max_age \in Nat,
         ~sessionWithinMaxAge(s, q)
  PROVE  q.max_age \in Nat /\ now - s.createdAt >= (q.max_age + 1) * Second
<1>1. s.authenticated \in Nat /\ now \in Nat /\ s.createdAt \in Nat /\ s.createdAt <= now
  BY FormatCuts, BrowserAssumption DEF TypeInv, TypeOK, StoreOK
<1>2. q.max_age \in Nat /\ ~((now - s.createdAt) \div Second <= q.max_age)
  BY DEF sessionWithinMaxAge
<1>3. now - s.createdAt \in Nat
  BY <1>1
<1>4. ~(now - s.createdAt < (q.max_age + 1) * Second)
  BY <1>2, <1>3, WholeAge
<1>5. (q.max_age + 1) * Second \in Int
  BY <1>2, BrowserAssumption
<1> QED
  BY <1>2, <1>3, <1>4, <1>5

\* One that was.
LEMMA YoungEnough ==
  ASSUME TypeInv, NEW s \in store, NEW q, q.max_age = Absent \/ q.max_age \in Nat,
         sessionWithinMaxAge(s, q), q.max_age # Absent
  PROVE  now - s.authenticated < (q.max_age + 1) * Second
<1>1. /\ s.authenticated \in Nat /\ now \in Nat /\ s.createdAt \in Nat
      /\ s.createdAt <= s.authenticated /\ s.createdAt <= now
  BY FormatCuts, BrowserAssumption DEF TypeInv, TypeOK, StoreOK
<1>2. q.max_age \in Nat /\ (now - s.createdAt) \div Second <= q.max_age
  BY DEF sessionWithinMaxAge
<1>3. now - s.createdAt \in Nat
  BY <1>1
<1>4. now - s.createdAt < (q.max_age + 1) * Second
  BY <1>2, <1>3, WholeAge
<1>5. (q.max_age + 1) * Second \in Int
  BY <1>2, BrowserAssumption
<1> QED
  BY <1>1, <1>4, <1>5

\* Either answer of GET /authorize that involves no session (authorize.go).
LEMMA RefusedAnswer ==
  ASSUME TypeInv, NEW t \in Tabs, authorizeRefused(t) \/ authorizePromptLogin(t)
  PROVE  Answer(t)
<1> DEFINE q == net[t].q
<1>1. /\ net[t].phase = "sent" /\ net[t].handler = "authorize"
      /\ UNCHANGED <<store, locks>>
  BY DEF authorizeRefused, authorizePromptLogin, Asked
<1>2. StoreStep /\ Authorised(t) /\ locks' \in SUBSET {"admin", "panic"}
  BY <1>1, QuietHandler
<1>3. SetNothing \in Settings /\ SetNothing.csrf = Keep /\ SetNothing.sso = Keep
  BY Setting DEF SetNothing
<1>4. CASE authorizeRefused(t) /\ Trusted(q)
  <2>1. ToClient(t, q, q.redirect_uri, FALSE, 0, SetNothing) /\ q.redirect_uri \in RedirectURIs[q.client]
    BY <1>4 DEF authorizeRefused, Trusted
  <2> QED
    BY <1>1, <1>2, <1>3, <2>1, ClientAnswers
<1>5. CASE authorizeRefused(t) /\ ~Trusted(q)
  <2>1. Respond(t, Plain("invalidRequest"), "none", SetNothing)
    BY <1>5 DEF authorizeRefused, Show
  <2> QED
    BY <1>1, <1>2, <1>3, <2>1, ShowAnswers
<1>6. CASE authorizePromptLogin(t)
  <2>1. Redirect(t, "loginForm", q, SetNothing) /\ Excused(store', now, carried(t).sso, q)
    BY <1>6 DEF authorizePromptLogin, Excused
  <2> QED
    BY <1>1, <1>2, <1>3, <2>1, RedirectAnswers
<1> QED
  BY <1>4, <1>5, <1>6

\* GET /authorize with or without a session (authorize.go).
LEMMA AuthorizeAnswer ==
  ASSUME TypeInv, NEW t \in Tabs, authorize(t)
  PROVE  Answer(t)
<1> DEFINE q == net[t].q
           current == Session(carried(t).sso, "user")
           usable == {s \in current : locks = {} /\ sessionWithinMaxAge(s, q)}
<1>1. net[t].phase = "sent" /\ net[t].handler = "authorize" /\ UNCHANGED locks /\ Pending(q)
  BY DEF authorize, Asked
<1>2. store' = IF locks = {} THEN store ELSE store \ current
  BY DEF authorize
<1>3. StoreStep /\ Authorised(t) /\ locks' \in SUBSET {"admin", "panic"}
  BY <1>1, <1>2 DEF StoreStep, Authorised, TypeInv, TypeOK
<1>4. SetNothing \in Settings /\ SetNothing.csrf = Keep /\ SetNothing.sso = Keep
  BY Setting DEF SetNothing
<1>5. /\ q.redirect_uri \in RedirectURIs[q.client]
      /\ q.client \in PublicClients => q.code_challenge \notin {"", "malformed"}
      /\ q.max_age = Absent \/ q.max_age \in Nat
  BY <1>1, Validated
<1>6. \/ \E s \in usable : ToClient(t, q, q.redirect_uri, TRUE, now - s.authenticated, SetNothing)
      \/ usable = {} /\ ToClient(t, q, q.redirect_uri, FALSE, 0, SetNothing)
      \/ usable = {} /\ Redirect(t, "loginForm", q, SetNothing)
  BY DEF authorize
<1>7. ASSUME NEW s \in usable, ToClient(t, q, q.redirect_uri, TRUE, now - s.authenticated, SetNothing)
      PROVE  Answer(t)
  <2>1. s \in store /\ sessionWithinMaxAge(s, q)
    BY <1>7 DEF Session
  <2>2. q.max_age # Absent => now - s.authenticated < (q.max_age + 1) * Second
    BY <1>5, <2>1, YoungEnough
  <2> QED
    BY <1>1, <1>3, <1>4, <1>5, <1>7, <2>2, ClientAnswers
<1>8. CASE ToClient(t, q, q.redirect_uri, FALSE, 0, SetNothing)
  BY <1>1, <1>3, <1>4, <1>5, <1>8, ClientAnswers
<1>9. CASE usable = {} /\ Redirect(t, "loginForm", q, SetNothing)
  <2>1. Exhausted(store', now, carried(t).sso, q)
    <3>1. CASE locks # {}
      BY <1>2, <3>1 DEF Exhausted, Session
    <3>2. CASE locks = {}
      <4>1. ASSUME NEW s \in store, s.id = carried(t).sso, s.kind = "user"
            PROVE  ~sessionWithinMaxAge(s, q)
        BY <1>9, <3>2, <4>1 DEF Session
      <4> QED
        BY <1>2, <1>5, <3>2, <4>1, TooOld DEF Exhausted
    <3> QED
      BY <3>1, <3>2
  <2> QED
    BY <1>1, <1>3, <1>4, <1>9, <2>1, RedirectAnswers DEF Excused
<1> QED
  BY <1>6, <1>7, <1>8, <1>9

\* The handlers whose forms are protected are not those two.
LEMMA ProtectedElsewhen ==
  ASSUME NEW t \in Tabs, net[t].handler \in Protected
  PROVE  Elsewhen(t)
<1>1. "authorize" \notin Protected /\ "loginForm" \notin Protected
  BY DEF Protected, Forms, signOutForm, enrollmentDialog, lockActions
<1> QED
  BY <1>1 DEF Elsewhen

\* The sign-in form, its submission, and a submission that is refused
\* (login.go, responses.go).
LEMMA LoginAnswer ==
  ASSUME TypeInv, NEW t \in Tabs, loginForm(t) \/ processLogin(t) \/ writeForbiddenPage(t)
  PROVE  Answer(t)
<1>1. SetNothing \in Settings /\ SetNothing.csrf = Keep /\ SetNothing.sso = Keep
  BY Setting DEF SetNothing
<1>2. CASE loginForm(t)
  <2>1. net[t].phase = "sent" /\ net[t].handler = "loginForm" /\ UNCHANGED <<store, locks>>
    BY <1>2 DEF loginForm, Asked
  <2>2. StoreStep /\ Authorised(t) /\ locks' \in SUBSET {"admin", "panic"}
    BY <2>1, QuietHandler
  <2>3. CASE ShowForm(t, "login", net[t].q)
    BY <2>1, <2>2, <2>3, FormAnswers
  <2>4. CASE Respond(t, Plain("invalidRequest"), "none", SetNothing)
    BY <1>1, <2>1, <2>2, <2>4, ShowAnswers
  <2> QED
    BY <1>2, <2>3, <2>4 DEF loginForm, Show
<1>3. CASE processLogin(t)
  <2>1. net[t].phase = "sent" /\ net[t].handler = "processLogin" /\ Verify(t) /\ UNCHANGED locks
    BY <1>3 DEF processLogin, Asked
  <2>2. Authorised(t) /\ Elsewhen(t) /\ locks' \in SUBSET {"admin", "panic"}
    BY <2>1, VerifiedHandler DEF Elsewhen, TypeInv, TypeOK
  <2>3. ASSUME NEW id \in SessionIds, Create(id, "user"),
               Redirect(t, "authorize", net[t].q, [SetNothing EXCEPT !.sso = id])
        PROVE  Answer(t)
    <3>1. StoreStep
      BY <2>3, Creates
    <3>2. [SetNothing EXCEPT !.sso = id] \in Settings /\ [SetNothing EXCEPT !.sso = id].csrf = Keep
      BY Setting DEF SetNothing
    <3> QED
      BY <2>1, <2>2, <2>3, <3>1, <3>2, RedirectAnswers
  <2>4. CASE ShowForm(t, "login", net[t].q) /\ UNCHANGED store
    <3>1. StoreStep
      BY <2>4 DEF StoreStep
    <3> QED
      BY <2>1, <2>2, <2>4, <3>1, FormAnswers
  <2> QED
    BY <1>3, <2>3, <2>4 DEF processLogin
<1>4. CASE writeForbiddenPage(t)
  <2>1. net[t].phase = "sent" /\ UNCHANGED <<store, locks>>
    BY <1>4 DEF writeForbiddenPage
  <2>2. Elsewhen(t)
    BY <1>4, ProtectedElsewhen DEF writeForbiddenPage
  <2>3. Respond(t, Plain("forbidden"), "none", SetNothing)
    BY <1>4 DEF writeForbiddenPage, Show
  <2>4. StoreStep /\ Authorised(t) /\ locks' \in SUBSET {"admin", "panic"}
    BY <2>1, QuietHandler
  <2> QED
    BY <1>1, <2>1, <2>2, <2>3, <2>4, ShowAnswers
<1> QED
  BY <1>2, <1>3, <1>4

\* A confirmation page, which always sees to the anti-forgery cookie.
LEMMA ConfirmAnswers ==
  ASSUME TypeInv, NEW t \in Tabs, net[t].phase = "sent", Elsewhen(t), UNCHANGED <<store, locks>>,
         NEW token \in Token(carried(t)), NEW page,
         page.token \in {NoCookie, token}, page.kind # "client",
         Respond(t, page, "none", [SetNothing EXCEPT !.csrf = IF token = carried(t).csrf THEN Keep ELSE token])
  PROVE  Answer(t)
<1> DEFINE set == [SetNothing EXCEPT !.csrf = IF token = carried(t).csrf THEN Keep ELSE token]
<1>1. set \in Settings /\ TokenFits(carried(t), page, set)
  BY FormFits
<1>2. Respond(t, page, "none", set)
  OBVIOUS
<1> HIDE DEF set
<1>3. LandingOK(page) /\ Follows(t, page, "none", set)
  BY DEF LandingOK, Follows, Elsewhen
<1>4. StoreStep /\ Authorised(t) /\ locks' \in SUBSET {"admin", "panic"}
  BY QuietHandler
<1> QED
  BY <1>1, <1>2, <1>3, <1>4 DEF Answer

\* logout.go and panic.go.
LEMMA SignOutAnswer ==
  ASSUME TypeInv, NEW t \in Tabs, logoutForm(t) \/ processLogout(t) \/ panicForm(t) \/ processPanic(t)
  PROVE  Answer(t)
<1> DEFINE clear == [SetNothing EXCEPT !.sso = NoCookie]
<1>1. /\ SetNothing \in Settings /\ SetNothing.csrf = Keep
      /\ clear \in Settings /\ clear.csrf = Keep
  BY Setting DEF SetNothing
<1>2. net[t].phase = "sent" /\ Elsewhen(t)
  BY DEF logoutForm, processLogout, panicForm, processPanic, Asked, Elsewhen
<1>3. CASE logoutForm(t)
  <2>1. UNCHANGED <<store, locks>>
    BY <1>3 DEF logoutForm
  <2>2. PICK token \in Token(carried(t)) :
          \E page \in {Plain("signedOut"), Page("logout", token, net[t].q), Page("logout", token, NoRequest)} :
            Respond(t, page, "none", [SetNothing EXCEPT !.csrf = IF token = carried(t).csrf THEN Keep ELSE token])
    BY <1>3 DEF logoutForm
  <2>3. \A q : /\ Page("logout", token, q).token = token /\ Page("logout", token, q).kind # "client"
              /\ Plain("signedOut").token = NoCookie /\ Plain("signedOut").kind # "client"
    BY DEF Plain, Page
  <2> QED
    BY <1>2, <2>1, <2>2, <2>3, ConfirmAnswers
<1>4. CASE panicForm(t)
  <2>1. UNCHANGED <<store, locks>>
    BY <1>4 DEF panicForm
  <2>2. PICK token \in Token(carried(t)) :
          \E page \in {Plain("panicSessionRequired"), Page("panic", token, NoRequest)} :
            Respond(t, page, "none", [SetNothing EXCEPT !.csrf = IF token = carried(t).csrf THEN Keep ELSE token])
    BY <1>4 DEF panicForm
  <2>3. \A q : /\ Page("panic", token, q).token = token /\ Page("panic", token, q).kind # "client"
              /\ Plain("panicSessionRequired").token = NoCookie /\ Plain("panicSessionRequired").kind # "client"
    BY DEF Plain, Page
  <2> QED
    BY <1>2, <2>1, <2>2, <2>3, ConfirmAnswers
<1>5. CASE processLogout(t)
  <2> DEFINE h == net[t].q
  <2>1. Verify(t) /\ UNCHANGED locks /\ store' \subseteq store /\ net[t].handler = "processLogout"
    BY <1>5 DEF processLogout, Asked
  <2>2. StoreStep /\ Authorised(t) /\ locks' \in SUBSET {"admin", "panic"}
    BY <1>2, <2>1, VerifiedHandler DEF StoreStep, TypeInv, TypeOK
  <2>3. CASE logoutRedirectTarget(h) /\ ToClient(t, h, h.redirect_uri, FALSE, 0, clear)
    <3>1. h.redirect_uri \in RedirectURIs[h.client]
      BY <2>3 DEF logoutRedirectTarget
    <3> QED
      BY <1>1, <1>2, <2>1, <2>2, <2>3, <3>1, ClientAnswers
  <2>4. CASE Respond(t, Plain("signedOut"), "none", clear)
    BY <1>1, <1>2, <2>2, <2>4, ShowAnswers
  <2> QED
    BY <1>5, <2>3, <2>4 DEF processLogout
<1>6. CASE processPanic(t)
  <2>1. Verify(t) /\ Authorised(t)
    BY <1>2, <1>6, VerifiedHandler DEF processPanic
  <2>2. StoreStep /\ locks' \in SUBSET {"admin", "panic"}
    BY <1>6 DEF processPanic, Lock, StoreStep, TypeInv, TypeOK
  <2>3. \/ Respond(t, Plain("panicSessionRequired"), "none", SetNothing)
        \/ Respond(t, Plain("panicComplete"), "none", clear)
    BY <1>6 DEF processPanic, Show
  <2> QED
    BY <1>1, <1>2, <2>1, <2>2, <2>3, ShowAnswers
<1> QED
  BY <1>3, <1>4, <1>5, <1>6

\* enroll.go, and the pages of the administrator that change nothing.
LEMMA EnrollAnswer ==
  ASSUME TypeInv, NEW t \in Tabs, enrollForm(t) \/ processEnroll(t) \/ adminPage(t)
  PROVE  Answer(t)
<1>1. SetNothing \in Settings /\ SetNothing.csrf = Keep
  BY Setting DEF SetNothing
<1>2. net[t].phase = "sent" /\ Elsewhen(t) /\ UNCHANGED <<store, locks>>
  BY DEF enrollForm, processEnroll, adminPage, Asked, Elsewhen
<1>3. StoreStep /\ Authorised(t) /\ locks' \in SUBSET {"admin", "panic"}
  BY <1>2, QuietHandler
<1>4. ASSUME NEW kind \in {"enroll", "adminLogin", "adminHome", "auditLog"}, ShowForm(t, kind, NoRequest)
      PROVE  Answer(t)
  BY <1>2, <1>3, <1>4, FormAnswers DEF Elsewhen
<1>5. CASE Respond(t, Plain("enrollmentReady"), "none", SetNothing)
  BY <1>1, <1>2, <1>3, <1>5, ShowAnswers
<1> QED
  BY <1>4, <1>5 DEF enrollForm, processEnroll, adminPage, Show

\* admin.go and locks.go.
LEMMA AdminAnswer ==
  ASSUME TypeInv, NEW t \in Tabs,
         \/ processAdminLogin(t) \/ adminLogOut(t) \/ adminSignedOut(t)
         \/ processEnrollmentToken(t) \/ processLockChange(t)
  PROVE  Answer(t)
<1>1. /\ SetNothing \in Settings /\ SetNothing.csrf = Keep
      /\ \A id \in SessionIds \cup {NoCookie} :
           [SetNothing EXCEPT !.admin = id] \in Settings /\ [SetNothing EXCEPT !.admin = id].csrf = Keep
  BY Setting DEF SetNothing
<1>2. net[t].phase = "sent" /\ Elsewhen(t) /\ Verify(t)
  BY DEF processAdminLogin, adminLogOut, adminSignedOut, processEnrollmentToken, processLockChange, Asked, Elsewhen
<1>3. Authorised(t)
  BY <1>2, VerifiedHandler
<1>4. CASE processAdminLogin(t)
  <2>1. UNCHANGED locks /\ locks' \in SUBSET {"admin", "panic"}
    BY <1>4 DEF processAdminLogin, TypeInv, TypeOK
  <2>2. ASSUME NEW id \in SessionIds, Create(id, "admin"),
               Redirect(t, "adminForm", NoRequest, [SetNothing EXCEPT !.admin = id])
        PROVE  Answer(t)
    <3>1. StoreStep
      BY <2>2, Creates
    <3> QED
      BY <1>1, <1>2, <1>3, <2>1, <2>2, <3>1, RedirectAnswers
  <2>3. CASE Respond(t, Plain("adminLogin"), "none", SetNothing) /\ UNCHANGED store
    <3>1. StoreStep
      BY <2>3 DEF StoreStep
    <3> QED
      BY <1>1, <1>2, <1>3, <2>1, <2>3, <3>1, ShowAnswers
  <2> QED
    BY <1>4, <2>2, <2>3 DEF processAdminLogin, Show
<1>5. CASE adminLogOut(t)
  <2>1. StoreStep /\ locks' \in SUBSET {"admin", "panic"}
    BY <1>5 DEF adminLogOut, StoreStep, TypeInv, TypeOK
  <2>2. Redirect(t, "adminForm", NoRequest, [SetNothing EXCEPT !.admin = NoCookie])
    BY <1>5 DEF adminLogOut
  <2> QED
    BY <1>1, <1>2, <1>3, <2>1, <2>2, RedirectAnswers
<1>6. CASE adminSignedOut(t)
  <2>1. StoreStep /\ locks' \in SUBSET {"admin", "panic"} /\ Redirect(t, "adminForm", NoRequest, SetNothing)
    BY <1>6 DEF adminSignedOut, StoreStep, TypeInv, TypeOK
  <2> QED
    BY <1>1, <1>2, <1>3, <2>1, RedirectAnswers
<1>7. CASE processEnrollmentToken(t)
  <2>1. StoreStep /\ locks' \in SUBSET {"admin", "panic"}
    BY <1>7 DEF processEnrollmentToken, StoreStep, TypeInv, TypeOK
  <2>2. ShowForm(t, "enrollmentToken", NoRequest) \/ ShowForm(t, "adminHome", NoRequest)
    BY <1>7 DEF processEnrollmentToken
  <2> QED
    BY <1>2, <1>3, <2>1, <2>2, FormAnswers DEF Elsewhen
<1>8. CASE processLockChange(t)
  <2>1. StoreStep /\ locks' \in SUBSET {"admin", "panic"}
    BY <1>8 DEF processLockChange, Lock, StoreStep, TypeInv, TypeOK
  <2>2. ShowForm(t, "adminHome", NoRequest)
    BY <1>8 DEF processLockChange
  <2> QED
    BY <1>2, <1>3, <2>1, <2>2, FormAnswers DEF Elsewhen
<1> QED
  BY <1>4, <1>5, <1>6, <1>7, <1>8

\* Every handler.
LEMMA HandlerAnswers ==
  ASSUME TypeInv, NEW t \in Tabs, Serve(t)
  PROVE  Answer(t)
  BY RefusedAnswer, AuthorizeAnswer, LoginAnswer, SignOutAnswer, EnrollAnswer, AdminAnswer DEF Serve

-----------------------------------------------------------------------------
(* The steps                                                               *)

\* What a step can be: the person asks for a page, a handler answers, an
\* answer arrives, or none of these.
Asks(t) ==
  /\ net[t].phase = "idle"
  /\ \E handler, q, field, typed : Send(t, handler, q, field, typed, jar)
  /\ tab' = [tab EXCEPT ![t] = Plain("blank")]
  /\ settled' = [settled EXCEPT ![t] = FALSE]
  /\ UNCHANGED <<now, jar, store, locks>>

\* Every step sends, answers, delivers or drops a request, closes and reopens
\* the browser, happens elsewhere, or lets time pass.
LEMMA KindOfStep ==
  ASSUME [Next]_vars
  PROVE  \/ \E t \in Tabs : Asks(t) \/ Serve(t) \/ Receive(t) \/ Lose(t)
         \/ Reopen \/ Elsewhere \/ Tick \/ UNCHANGED vars
<1>1. ASSUME NEW t \in Tabs, NEW handler, NEW q, Open(t, handler, q)
      PROVE  Asks(t)
  BY <1>1 DEF Open, Asks
<1>2. ASSUME NEW t \in Tabs, NEW handler, NEW typed, Submit(t, handler, typed)
      PROVE  Asks(t)
  BY <1>2 DEF Submit, Asks
<1> QED
  BY <1>1, <1>2 DEF Next

\* What a browser stores.
LEMMA StoredOK ==
  ASSUME jar \in Cookies, NEW set \in Settings
  PROVE  /\ Stored(set) \in Cookies
         /\ Stored(set).csrf = IF set.csrf = Keep THEN jar.csrf ELSE set.csrf
         /\ Stored(set).sso = IF set.sso = Keep THEN jar.sso ELSE set.sso
  BY DEF Stored, Cookies, Settings

\* A row stays well formed as time goes on.
LEMMA StoreGoesOn ==
  ASSUME TypeInv, now' \in Nat, now <= now', StoreStep
  PROVE  /\ StoreOK'
         /\ \A s \in store' : s.id \in SessionIds /\ s.kind \in {"user", "admin"}
<1>1. now \in Nat
  BY BrowserAssumption DEF TypeInv, TypeOK
<1> QED
  BY <1>1 DEF StoreStep, TypeInv, TypeOK, StoreOK

\* No step leaves the types.
LEMMA TypeStep == TypeInv /\ [Next]_vars => TypeInv'
<1> SUFFICES ASSUME TypeInv, [Next]_vars PROVE TypeInv'
  OBVIOUS
<1>0. now \in Nat /\ MaxTime \in Nat
  BY BrowserAssumption DEF TypeInv, TypeOK
<1>1. ASSUME NEW t \in Tabs, Asks(t)
      PROVE  TypeInv'
  BY <1>1 DEF Asks, Send, TypeInv, TypeOK, StoreOK
<1>2. ASSUME NEW t \in Tabs, Serve(t)
      PROVE  TypeInv'
  <2>1. Answer(t)
    BY <1>2, HandlerAnswers
  <2>2. PICK page, follow, set : Respond(t, page, follow, set) /\ set \in Settings
    BY <2>1 DEF Answer
  <2>3. StoreStep /\ locks' \in SUBSET {"admin", "panic"} /\ UNCHANGED now
    BY <2>1, <2>2 DEF Answer, Respond
  <2>4. StoreOK' /\ \A s \in store' : s.id \in SessionIds /\ s.kind \in {"user", "admin"}
    BY <1>0, <2>3, StoreGoesOn
  <2> QED
    BY <2>2, <2>3, <2>4 DEF Respond, TypeInv, TypeOK
<1>3. ASSUME NEW t \in Tabs, Receive(t)
      PROVE  TypeInv'
  <2>1. net[t].phase = "answered" /\ net[t].set \in Settings /\ jar' = Stored(net[t].set)
    BY <1>3 DEF Receive, TypeInv
  <2>2. jar' \in Cookies
    BY <2>1, StoredOK DEF TypeInv, TypeOK
  <2>3. stale' \in [Tabs -> BOOLEAN]
    BY <1>3 DEF Receive, TypeInv, TypeOK
  <2>4. settled' \in [Tabs -> BOOLEAN]
    BY <1>3 DEF Receive, TypeInv, TypeOK
  <2>5. DOMAIN net' = Tabs /\ DOMAIN tab' = Tabs
    BY <1>3 DEF Receive, TypeInv
  <2>6. ASSUME NEW u \in Tabs
        PROVE  /\ net'[u].phase \in {"idle", "sent", "answered"}
               /\ net'[u].phase = "sent" => net'[u].cookies \in Cookies
               /\ net'[u].phase = "answered" => net'[u].set \in Settings
    BY <1>3, <2>2 DEF Receive, TypeInv, TypeOK, Idle
  <2>7. UNCHANGED <<now, store, locks>>
    BY <1>3 DEF Receive
  <2> QED
    BY <2>2, <2>3, <2>4, <2>5, <2>6, <2>7 DEF TypeInv, TypeOK, StoreOK
<1>4. ASSUME NEW t \in Tabs, Lose(t)
      PROVE  TypeInv'
  BY <1>4 DEF Lose, Idle, TypeInv, TypeOK, StoreOK
<1>5. CASE Reopen
  <2>1. jar' \in Cookies
    BY <1>5 DEF Reopen, Cookies, TypeInv, TypeOK
  <2> QED
    BY <1>5, <2>1 DEF Reopen, TypeInv, TypeOK, StoreOK
<1>6. CASE Elsewhere
  <2>1. store' \subseteq store /\ locks' \in SUBSET {"admin", "panic"}
    BY <1>6 DEF Elsewhere, Lock, TypeInv, TypeOK
  <2> QED
    BY <1>6, <2>1 DEF Elsewhere, TypeInv, TypeOK, StoreOK
<1>7. CASE Tick
  <2>1. now' \in 0..MaxTime /\ now < now'
    BY <1>0, <1>7 DEF Tick, TypeInv, TypeOK
  <2>2. StoreStep
    BY <1>7 DEF Tick, StoreStep
  <2>3. StoreOK'
    BY <1>0, <2>1, <2>2, StoreGoesOn
  <2> QED
    BY <1>7, <2>1, <2>3 DEF Tick, TypeInv, TypeOK
<1>8. CASE UNCHANGED vars
  BY <1>8 DEF vars, TypeInv, TypeOK, StoreOK
<1> QED
  BY <1>1, <1>2, <1>3, <1>4, <1>5, <1>6, <1>7, <1>8, KindOfStep

\* A browser without cookies has the types.
LEMMA TypeInit == Init => TypeInv
<1> SUFFICES ASSUME Init PROVE TypeInv
  OBVIOUS
<1>1. now \in 0..MaxTime
  BY BrowserAssumption DEF Init
<1>2. jar \in Cookies
  BY DEF Init, Cookieless, Cookies
<1> QED
  BY <1>1, <1>2 DEF Init, Idle, TypeInv, TypeOK, StoreOK

\* The types hold throughout.
LEMMA TypeInvariance == Spec => []TypeInv
  BY TypeInit, TypeStep, PTL DEF Spec

\* Cookies, rows and requests keep their type in every reachable state.
THEOREM BrowserTypes == Spec => []TypeOK
<1>1. TypeInv => TypeOK
  BY DEF TypeInv
<1> QED
  BY <1>1, TypeInvariance, PTL

-----------------------------------------------------------------------------
(* Forms                                                                   *)

\* The token of a request, of an answer and of a page is that of the browser,
\* unless it is known not to be; an answer that brings a new token answers a
\* request that had none.
CookieInv ==
  \A t \in Tabs :
    /\ net[t].phase = "sent" => stale[t] \/ net[t].cookies.csrf \in {NoCookie, jar.csrf}
    /\ net[t].phase = "answered" =>
         IF net[t].set.csrf = Keep THEN stale[t] \/ net[t].page.token \in {NoCookie, jar.csrf}
                                   ELSE net[t].first /\ net[t].page.token \in {NoCookie, net[t].set.csrf}
    /\ net[t].phase = "idle" => stale[t] \/ tab[t].token \in {NoCookie, jar.csrf}

\* The anti-forgery cookie and the tokens of pages stay together in every step
\* (csrf/guard.go).
LEMMA CookieStep == TypeInv /\ CookieInv /\ [Next]_vars => CookieInv'
<1> SUFFICES ASSUME TypeInv, CookieInv, [Next]_vars PROVE CookieInv'
  OBVIOUS
<1>1. ASSUME NEW t \in Tabs, Asks(t)
      PROVE  CookieInv'
  BY <1>1 DEF Asks, Send, TypeInv, TypeOK, CookieInv
<1>2. ASSUME NEW t \in Tabs, Serve(t)
      PROVE  CookieInv'
  <2>1. Answer(t)
    BY <1>2, HandlerAnswers
  <2>2. PICK page, follow, set :
          Respond(t, page, follow, set) /\ set \in Settings /\ TokenFits(carried(t), page, set)
    BY <2>1 DEF Answer
  <2>3. Keep \notin Tokens
    BY BrowserAssumption
  <2>4. net[t].phase = "sent" /\ carried(t) = net[t].cookies
    BY <2>1 DEF Answer, carried
  <2>5. /\ net'[t].phase = "answered" /\ net'[t].set = set /\ net'[t].page = page
        /\ net'[t].first <=> net[t].cookies.csrf = NoCookie
    BY <2>2 DEF Respond, TypeInv, carried
  <2>6. \A u \in Tabs \ {t} : net'[u] = net[u]
    BY <2>2 DEF Respond, TypeInv
  <2>7. UNCHANGED <<jar, tab, stale>>
    BY <2>2 DEF Respond
  <2> QED
    BY <2>2, <2>3, <2>4, <2>5, <2>6, <2>7 DEF TokenFits, CookieInv
<1>3. ASSUME NEW t \in Tabs, Receive(t)
      PROVE  CookieInv'
  <2> DEFINE a == net[t]
  <2>1. a.phase = "answered" /\ a.set \in Settings /\ jar' = Stored(a.set) /\ jar \in Cookies
    BY <1>3 DEF Receive, TypeInv, TypeOK
  <2>2. jar'.csrf = IF a.set.csrf = Keep THEN jar.csrf ELSE a.set.csrf
    BY <2>1, StoredOK
  <2>3. ASSUME NEW u \in Tabs \ {t}
        PROVE  /\ net'[u] = net[u] /\ tab'[u] = tab[u]
               /\ stale'[u] <=> stale[u] \/ u \in Outdated(t, a)
    BY <1>3 DEF Receive, TypeInv, TypeOK
  <2>4. ASSUME NEW u \in Tabs \ {t}, ~stale'[u]
        PROVE  ~stale[u] /\ jar.csrf \in {NoCookie, jar'.csrf}
    <3>1. ~stale[u] /\ u \notin Outdated(t, a)
      BY <2>3, <2>4
    <3>2. a.set.csrf = Keep \/ a.first
      BY <2>1 DEF CookieInv
    <3>3. a.set.csrf = Keep \/ a.set.csrf = jar.csrf \/ jar.csrf = NoCookie
      BY <3>1, <3>2 DEF Outdated
    <3> QED
      BY <2>2, <3>1, <3>3
  <2>5. ASSUME NEW u \in Tabs \ {t}
        PROVE  /\ net'[u].phase = "sent" => stale'[u] \/ net'[u].cookies.csrf \in {NoCookie, jar'.csrf}
               /\ net'[u].phase = "answered" =>
                    IF net'[u].set.csrf = Keep THEN stale'[u] \/ net'[u].page.token \in {NoCookie, jar'.csrf}
                                    ELSE net'[u].first /\ net'[u].page.token \in {NoCookie, net'[u].set.csrf}
               /\ net'[u].phase = "idle" => stale'[u] \/ tab'[u].token \in {NoCookie, jar'.csrf}
    BY <2>3, <2>4 DEF CookieInv
  <2>6. CASE a.follow = "none"
    <3>1. net'[t].phase = "idle" /\ tab'[t] = a.page
      BY <1>3, <2>6 DEF Receive, Idle, TypeInv
    <3>2. stale[t] => stale'[t]
      BY <1>3, <2>6, Zenon DEF Receive
    <3>3. stale[t] \/ a.page.token \in {NoCookie, jar'.csrf}
      BY <2>1, <2>2 DEF CookieInv
    <3> QED
      BY <2>5, <3>1, <3>2, <3>3 DEF CookieInv
  <2>7. CASE a.follow # "none"
    <3>1. net'[t].phase = "sent" /\ net'[t].cookies = jar'
      BY <1>3, <2>7 DEF Receive, TypeInv
    <3> QED
      BY <2>5, <3>1 DEF CookieInv
  <2> QED
    BY <2>6, <2>7
<1>4. ASSUME NEW t \in Tabs, Lose(t)
      PROVE  CookieInv'
  <2>1. tab'[t].token = NoCookie /\ net'[t].phase = "idle"
    BY <1>4 DEF Lose, Plain, Page, Idle, TypeInv
  <2> QED
    BY <1>4, <2>1 DEF Lose, TypeInv, CookieInv
<1>5. CASE Reopen
  BY <1>5 DEF Reopen, CookieInv
<1>6. CASE Elsewhere \/ Tick \/ UNCHANGED vars
  <2>1. UNCHANGED <<jar, tab, net, stale>>
    BY <1>6 DEF Elsewhere, Tick, vars
  <2> QED
    BY <2>1 DEF CookieInv
<1> QED
  BY <1>1, <1>2, <1>3, <1>4, <1>5, <1>6, KindOfStep

\* A form that a page carried a token for is accepted when it is submitted,
\* for any number of tabs, unless the browser was closed in between or another
\* tab's first request was answered later (csrf/guard.go).
THEOREM FormsStayAcceptable == Spec => []FormsAccepted
<1>1. Init => CookieInv
  BY DEF Init, Idle, Plain, Page, CookieInv
<1>2. CookieInv => FormsAccepted
  BY DEF CookieInv, FormsAccepted, Shown
<1> QED
  BY <1>1, <1>2, CookieStep, TypeInvariance, PTL DEF Spec

-----------------------------------------------------------------------------
(* Landings                                                                *)

\* Pages of clients are as the requests and hints that lead to them allow,
\* already when they are under way.
LandingInv ==
  \A t \in Tabs : LandingOK(tab[t]) /\ (net[t].phase = "answered" => LandingOK(net[t].page))

\* Other pages are nowhere.
LEMMA NoLanding ==
  ASSUME NEW kind, kind # "client"
  PROVE  LandingOK(Plain(kind))
<1> DEFINE page == Plain(kind)
<1>1. page.kind = kind
  BY PageFields
<1> HIDE DEF page
<1>2. LandingOK(page)
  BY <1>1 DEF LandingOK
<1> QED
  BY <1>2 DEF page

\* Only authorize.go and logout.go lead to a client, each as LandingOK asks.
LEMMA LandingStep == TypeInv /\ LandingInv /\ [Next]_vars => LandingInv'
<1> SUFFICES ASSUME TypeInv, LandingInv, [Next]_vars PROVE LandingInv'
  OBVIOUS
<1>0. LandingOK(Plain("blank")) /\ LandingOK(Plain("error"))
  BY NoLanding
<1> SUFFICES ASSUME NEW u \in Tabs
             PROVE  LandingOK(tab'[u]) /\ (net'[u].phase = "answered" => LandingOK(net'[u].page))
  BY DEF LandingInv, LandingOK
<1>1. ASSUME NEW t \in Tabs, Asks(t)
      PROVE  LandingOK(tab'[u]) /\ (net'[u].phase = "answered" => LandingOK(net'[u].page))
  <2>1. tab'[u] \in {tab[u], Plain("blank")} /\ (net'[u].phase = "answered" => net'[u] = net[u])
    BY <1>1 DEF Asks, Send, TypeInv
  <2> QED
    BY <1>0, <2>1 DEF LandingInv
<1>2. ASSUME NEW t \in Tabs, Serve(t)
      PROVE  LandingOK(tab'[u]) /\ (net'[u].phase = "answered" => LandingOK(net'[u].page))
  <2>1. Answer(t)
    BY <1>2, HandlerAnswers
  <2>2. PICK page, follow, set : Respond(t, page, follow, set) /\ LandingOK(page)
    BY <2>1 DEF Answer
  <2>3. tab'[u] = tab[u] /\ (net'[u] = net[u] \/ net'[u].page = page)
    BY <2>2 DEF Respond, TypeInv
  <2> QED
    BY <2>2, <2>3 DEF LandingInv
<1>3. ASSUME NEW t \in Tabs, Receive(t)
      PROVE  LandingOK(tab'[u]) /\ (net'[u].phase = "answered" => LandingOK(net'[u].page))
  <2>1. net[t].phase = "answered" /\ tab'[u] \in {tab[u], net[t].page}
        /\ (net'[u].phase = "answered" => net'[u] = net[u])
    BY <1>3 DEF Receive, Idle, TypeInv
  <2> QED
    BY <2>1 DEF LandingInv
<1>4. ASSUME NEW t \in Tabs, Lose(t)
      PROVE  LandingOK(tab'[u]) /\ (net'[u].phase = "answered" => LandingOK(net'[u].page))
  <2>1. tab'[u] \in {tab[u], Plain("error")} /\ (net'[u].phase = "answered" => net'[u] = net[u])
    BY <1>4 DEF Lose, Idle, TypeInv
  <2> QED
    BY <1>0, <2>1 DEF LandingInv
<1>5. CASE Reopen \/ Elsewhere \/ Tick \/ UNCHANGED vars
  <2>1. UNCHANGED <<tab, net>>
    BY <1>5 DEF Reopen, Elsewhere, Tick, vars
  <2> QED
    BY <2>1 DEF LandingInv
<1> QED
  BY <1>1, <1>2, <1>3, <1>4, <1>5, KindOfStep

\* Pages of clients are in order throughout.
LEMMA LandingInvariance == Spec => []LandingInv
<1>1. Init => LandingInv
  <2>1. LandingOK(Plain("blank"))
    BY NoLanding
  <2> QED
    BY <2>1 DEF Init, Idle, LandingInv
<1> QED
  BY <1>1, LandingStep, TypeInvariance, PTL DEF Spec

\* A browser only lands where the client of its request or hint registered
\* (authorize.go, logout.go).
THEOREM LandingsAreRegistered == Spec => []LandsRegistered
<1>1. LandingInv => LandsRegistered
  BY DEF LandingInv, LandingOK, LandsRegistered
<1> QED
  BY <1>1, LandingInvariance, PTL

\* A code goes out only as PKCE and max_age allow, whatever the length of a
\* second and the instants of sign-in and request (authorize.go).
THEOREM CodesMeetRequests == Spec => []CodeMeetsRequest
<1>1. LandingInv => CodeMeetsRequest
  BY DEF LandingInv, LandingOK, CodeMeetsRequest
<1> QED
  BY <1>1, LandingInvariance, PTL

-----------------------------------------------------------------------------
(* Signing in once                                                         *)

\* A tab that has just signed in carries the session of the cookie, and is
\* sent back to the form only if no session is good for the request.
SettledOK(t) ==
  settled[t] =>
    /\ net[t].phase = "sent" =>
         /\ net[t].cookies.sso = jar.sso
         /\ \/ net[t].handler = "authorize"
            \/ net[t].handler = "loginForm" /\ Excused(store, now, jar.sso, net[t].q)
    /\ net[t].phase = "answered" =>
         /\ net[t].set.sso = Keep
         /\ \/ net[t].follow = "none" /\ (net[t].page.kind = "login" => Excused(store, now, jar.sso, net[t].page.q))
            \/ net[t].follow = "loginForm" /\ Excused(store, now, jar.sso, net[t].page.q)
    /\ net[t].phase = "idle" /\ tab[t].kind = "login" => Excused(store, now, jar.sso, tab[t].q)

\* The inductive invariant of OneLoginIsEnough.
SettledInv == \A t \in Tabs : SettledOK(t)

\* The session of the cookie does not become good again: identifiers that the
\* browser can name are not used for new rows, and sessions only grow older.
LEMMA ExcusedGoesOn ==
  ASSUME TypeInv, StoreStep, now' \in Nat, now <= now', NEW q, Excused(store, now, jar.sso, q)
  PROVE  Excused(store', now', jar.sso, q)
<1>1. CASE "login" \in q.prompt
  BY <1>1 DEF Excused
<1>2. CASE Exhausted(store, now, jar.sso, q)
  <2>1. \A s \in store' : s.id = jar.sso => s \in store
    BY DEF StoreStep, UsedIds
  <2>2. ASSUME NEW s \in store', s.id = jar.sso, s.kind = "user"
        PROVE  q.max_age \in Nat /\ now' - s.createdAt >= (q.max_age + 1) * Second
    <3>1. s \in store
      BY <2>1, <2>2
    <3>2. q.max_age \in Nat /\ now - s.createdAt >= (q.max_age + 1) * Second
      BY <1>2, <2>2, <3>1 DEF Exhausted
    <3>3. s.createdAt \in Nat /\ now \in Nat
      BY <3>1, FormatCuts, BrowserAssumption DEF TypeInv, TypeOK, StoreOK
    <3>4. (q.max_age + 1) * Second \in Nat
      BY <3>2, BrowserAssumption
    <3> QED
      BY <3>2, <3>3, <3>4
  <2> QED
    BY <2>2 DEF Excused, Exhausted
<1> QED
  BY <1>1, <1>2 DEF Excused

\* A tab that a step leaves alone.
SameTab(t) == net'[t] = net[t] /\ tab'[t] = tab[t] /\ (settled'[t] => settled[t])

\* What happens in one tab does not unsettle another.
LEMMA SettledStays ==
  ASSUME TypeInv, SettledInv, NEW t \in Tabs, SameTab(t), StoreStep, now' \in Nat, now <= now',
         settled'[t] => jar'.sso = jar.sso
  PROVE  SettledOK(t)'
<1> SUFFICES ASSUME settled'[t]
             PROVE  /\ net'[t].phase = "sent" =>
                         /\ net'[t].cookies.sso = jar'.sso
                         /\ \/ net'[t].handler = "authorize"
                            \/ net'[t].handler = "loginForm" /\ Excused(store', now', jar'.sso, net'[t].q)
                    /\ net'[t].phase = "answered" =>
                         /\ net'[t].set.sso = Keep
                         /\ \/ /\ net'[t].follow = "none"
                               /\ net'[t].page.kind = "login" => Excused(store', now', jar'.sso, net'[t].page.q)
                            \/ net'[t].follow = "loginForm" /\ Excused(store', now', jar'.sso, net'[t].page.q)
                    /\ net'[t].phase = "idle" /\ tab'[t].kind = "login" => Excused(store', now', jar'.sso, tab'[t].q)
  BY DEF SettledOK
<1>1. settled[t] /\ net'[t] = net[t] /\ tab'[t] = tab[t] /\ jar'.sso = jar.sso
  BY DEF SameTab
<1>2. \A q : Excused(store, now, jar.sso, q) => Excused(store', now', jar'.sso, q)
  BY <1>1, ExcusedGoesOn
<1> QED
  BY <1>1, <1>2 DEF SettledInv, SettledOK

\* A tab becomes settled with the answer to a sign-in, which brings the cookie
\* of the session it created (login.go).
LEMMA SettledStep == TypeInv /\ SettledInv /\ [Next]_vars => SettledInv'
<1> SUFFICES ASSUME TypeInv, SettledInv, [Next]_vars, NEW u \in Tabs PROVE SettledOK(u)'
  BY DEF SettledInv
<1>0. now \in Nat /\ (UNCHANGED store => StoreStep) /\ jar \in Cookies
  BY BrowserAssumption DEF TypeInv, TypeOK, StoreStep
<1>1. ASSUME NEW t \in Tabs, Asks(t)
      PROVE  SettledOK(u)'
  <2>1. UNCHANGED <<now, jar, store>> /\ ~settled'[t]
    BY <1>1 DEF Asks, TypeInv, TypeOK
  <2>2. CASE u = t
    BY <2>1, <2>2 DEF SettledOK
  <2>3. CASE u # t
    <3>1. SameTab(u)
      BY <1>1, <2>3 DEF Asks, Send, SameTab, TypeInv, TypeOK
    <3> QED
      BY <1>0, <2>1, <3>1, SettledStays
  <2> QED
    BY <2>2, <2>3
<1>2. ASSUME NEW t \in Tabs, Serve(t)
      PROVE  SettledOK(u)'
  <2>1. Answer(t)
    BY <1>2, HandlerAnswers
  <2>2. PICK page, follow, set : Respond(t, page, follow, set) /\ Follows(t, page, follow, set)
    BY <2>1 DEF Answer
  <2>3. UNCHANGED <<now, jar, tab, settled>> /\ StoreStep /\ net[t].phase = "sent"
    BY <2>1, <2>2 DEF Answer, Respond
  <2>4. CASE u = t
    <3>1. /\ net'[t].phase = "answered" /\ net'[t].set = set
          /\ net'[t].page = page /\ net'[t].follow = follow
      BY <2>2 DEF Respond, TypeInv
    <3>2. SUFFICES ASSUME settled[t]
                   PROVE  /\ set.sso = Keep
                          /\ \/ follow = "none" /\ (page.kind = "login" => Excused(store', now, jar.sso, page.q))
                             \/ follow = "loginForm" /\ Excused(store', now, jar.sso, page.q)
      BY <2>3, <2>4, <3>1 DEF SettledOK
    <3>3. /\ carried(t).sso = jar.sso
          /\ \/ net[t].handler = "authorize"
             \/ net[t].handler = "loginForm" /\ Excused(store, now, jar.sso, net[t].q)
      BY <2>3, <3>2 DEF SettledInv, SettledOK, carried
    <3>4. Excused(store, now, jar.sso, net[t].q) => Excused(store', now, jar.sso, net[t].q)
      BY <1>0, <2>3, ExcusedGoesOn
    <3> QED
      BY <2>2, <3>3, <3>4 DEF Follows
  <2>5. CASE u # t
    <3>1. SameTab(u)
      BY <2>2, <2>5 DEF Respond, SameTab, TypeInv
    <3> QED
      BY <1>0, <2>3, <3>1, SettledStays
  <2> QED
    BY <2>4, <2>5
<1>3. ASSUME NEW t \in Tabs, Receive(t)
      PROVE  SettledOK(u)'
  <2> DEFINE a == net[t]
  <2>1. /\ a.phase = "answered" /\ a.set \in Settings /\ jar' = Stored(a.set)
        /\ UNCHANGED <<now, store>> /\ StoreStep
    BY <1>0, <1>3 DEF Receive, TypeInv
  <2>2. jar'.sso = IF a.set.sso = Keep THEN jar.sso ELSE a.set.sso
    BY <1>0, <2>1, StoredOK
  <2>3. settled'[u] <=> IF a.set.sso = Keep THEN settled[u] ELSE u = t /\ a.follow = "authorize"
    BY <1>3 DEF Receive, TypeInv, TypeOK
  <2>4. CASE u # t
    <3>1. SameTab(u)
      BY <1>3, <2>3, <2>4 DEF Receive, SameTab, TypeInv
    <3> QED
      BY <1>0, <2>1, <2>2, <2>3, <2>4, <3>1, SettledStays
  <2>5. CASE u = t /\ a.follow = "none"
    <3>1. net'[t].phase = "idle" /\ tab'[t] = a.page
      BY <1>3, <2>5 DEF Receive, Idle, TypeInv
    <3>2. settled'[t] => settled[t] /\ jar'.sso = jar.sso
      BY <2>2, <2>3, <2>5
    <3>3. settled[t] /\ a.page.kind = "login" => Excused(store, now, jar.sso, a.page.q)
      BY <2>1, <2>5 DEF SettledInv, SettledOK
    <3> QED
      BY <2>1, <2>5, <3>1, <3>2, <3>3 DEF SettledOK
  <2>6. CASE u = t /\ a.follow # "none"
    <3>1. /\ net'[t].phase = "sent" /\ net'[t].cookies = jar'
          /\ net'[t].handler = a.follow /\ net'[t].q = a.page.q
      BY <1>3, <2>6 DEF Receive, TypeInv
    <3>2. settled'[t] /\ a.follow # "authorize" =>
            a.follow = "loginForm" /\ jar'.sso = jar.sso /\ Excused(store, now, jar.sso, a.page.q)
      BY <2>1, <2>2, <2>3, <2>6 DEF SettledInv, SettledOK
    <3> QED
      BY <2>1, <2>6, <3>1, <3>2 DEF SettledOK
  <2> QED
    BY <2>4, <2>5, <2>6
<1>4. ASSUME NEW t \in Tabs, Lose(t)
      PROVE  SettledOK(u)'
  <2>1. UNCHANGED <<now, jar, store, settled>>
    BY <1>4 DEF Lose
  <2>2. CASE u = t
    <3>1. net'[t].phase = "idle" /\ tab'[t].kind = "error"
      BY <1>4 DEF Lose, Idle, Plain, Page, TypeInv
    <3> QED
      BY <2>2, <3>1 DEF SettledOK
  <2>3. CASE u # t
    <3>1. SameTab(u)
      BY <1>4, <2>3 DEF Lose, SameTab, TypeInv
    <3> QED
      BY <1>0, <2>1, <3>1, SettledStays
  <2> QED
    BY <2>2, <2>3
<1>5. CASE Reopen \/ Elsewhere \/ Tick \/ UNCHANGED vars
  <2>1. UNCHANGED <<net, tab, settled>> /\ StoreStep /\ now' \in Nat /\ now <= now'
    BY <1>0, <1>5 DEF Reopen, Elsewhere, Lock, Tick, vars, StoreStep
  <2>2. jar'.sso = jar.sso
    BY <1>0, <1>5 DEF Reopen, Elsewhere, Tick, vars, Cookies
  <2> QED
    BY <2>1, <2>2, SettledStays DEF SameTab
<1> QED
  BY <1>1, <1>2, <1>3, <1>4, <1>5, KindOfStep

\* Whoever has just signed in for a request is not asked again while the
\* session is good for it, in any interleaving of tabs (login.go, authorize.go).
THEOREM OneSignInSuffices == Spec => []OneLoginIsEnough
<1>1. Init => SettledInv
  BY DEF Init, SettledInv, SettledOK
<1>2. TypeInv /\ SettledInv => OneLoginIsEnough
  <2> SUFFICES ASSUME TypeInv, NEW t \in Tabs, Excused(store, now, jar.sso, tab[t].q),
                      "login" \notin tab[t].q.prompt, Good(jar.sso, tab[t].q)
               PROVE  FALSE
    BY DEF SettledInv, SettledOK, OneLoginIsEnough, Shown
  <2>1. PICK s \in store : /\ s.id = jar.sso /\ s.kind = "user"
                           /\ tab[t].q.max_age # Absent =>
                                now - s.createdAt < (tab[t].q.max_age + 1) * Second
    BY DEF Good, Session
  <2>2. tab[t].q.max_age \in Nat /\ now - s.createdAt >= (tab[t].q.max_age + 1) * Second
    BY <2>1 DEF Excused, Exhausted
  <2>3. now - s.createdAt \in Int /\ (tab[t].q.max_age + 1) * Second \in Int
    BY <2>1, <2>2, FormatCuts, BrowserAssumption DEF TypeInv, TypeOK, StoreOK
  <2> QED
    BY <2>1, <2>2, <2>3 DEF Absent
<1> QED
  BY <1>1, <1>2, SettledStep, TypeInvariance, PTL DEF Spec

-----------------------------------------------------------------------------
(* Submissions                                                             *)

\* The action of ChangedBySubmission.
Submitted(t) ==
  /\ net[t].phase = "sent" /\ net'[t].phase = "answered"
  /\ store' # store \/ locks' # locks
  => \/ net[t].handler = "authorize" /\ locks # {}
     \/ net[t].field = carried(t).csrf /\ net[t].field \in Tokens

\* A handler that changes anything was sent the token of its cookie, or found
\* its subject locked.
LEMMA SubmissionStep ==
  ASSUME TypeInv, [Next]_vars, NEW u \in Tabs
  PROVE  Submitted(u)
<1> SUFFICES ASSUME net[u].phase = "sent", net'[u].phase = "answered"
             PROVE  UNCHANGED <<store, locks>> \/ Authorised(u)
  BY DEF Submitted, Authorised
<1>1. ASSUME NEW t \in Tabs, Asks(t) \/ Receive(t) \/ Lose(t)
      PROVE  UNCHANGED <<store, locks>>
  BY <1>1 DEF Asks, Receive, Lose
<1>2. ASSUME NEW t \in Tabs, Serve(t)
      PROVE  Authorised(u)
  <2>1. Answer(t)
    BY <1>2, HandlerAnswers
  <2>2. u = t
    BY <2>1 DEF Answer, Respond, TypeInv
  <2> QED
    BY <2>1, <2>2 DEF Answer
<1>3. CASE Reopen \/ Elsewhere \/ Tick \/ UNCHANGED vars
  BY <1>3 DEF Reopen, Elsewhere, Tick, vars
<1> QED
  BY <1>1, <1>2, <1>3, KindOfStep

\* No address that is opened, and no form of another origin, signs anybody in
\* or out or changes a lock, whatever the tabs do (csrf/guard.go, logout.go).
THEOREM OnlySubmissionsChange == Spec => ChangedBySubmission
<1>1. TypeInv /\ [Next]_vars => [\A t \in Tabs : Submitted(t)]_vars
  BY SubmissionStep
<1>2. [\A t \in Tabs : Submitted(t)]_vars
      => [\A t \in Tabs :
            /\ net[t].phase = "sent" /\ net'[t].phase = "answered"
            /\ store' # store \/ locks' # locks
            => \/ net[t].handler = "authorize" /\ locks # {}
               \/ net[t].field = carried(t).csrf /\ net[t].field \in Tokens]_vars
  BY DEF Submitted
<1> QED
  BY <1>1, <1>2, TypeInvariance, PTL DEF Spec, ChangedBySubmission
=============================================================================
