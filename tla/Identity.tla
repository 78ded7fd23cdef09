------------------------------ MODULE Identity ------------------------------
(***************************************************************************)
(* Who the platform takes a learner for (internal/auth): the cookies of    *)
(* one browser, the requests that carry a copy of them, and the login      *)
(* round trips of its tabs.                                                *)
(*                                                                         *)
(* The server keeps no state of its own here: what it answers depends on   *)
(* the cookies a request carried when it was sent, and what it answers is  *)
(* applied to the browser's cookies as they are when the answer arrives.   *)
(* A handler is therefore one step, taken when its answer arrives.         *)
(***************************************************************************)
EXTENDS Naturals

CONSTANTS
  Tab,        \* tabs showing the platform's own pages
  Sender,     \* whatever has at most one request on the wire, tabs included
  Account,    \* accounts the learner has with the configured providers
  Scenario,   \* who takes part in a behaviour, and on what kind of site
  Name,       \* bound: anonymous names that can be told apart at once
  Token,      \* bound: login states that can be
  None        \* no cookie, no login under way

ASSUME SenderAssumption ==
  /\ Tab \subseteq Sender
  /\ \A x \in Scenario : x.cast \subseteq Sender /\ {x.sameSite, x.social} \subseteq BOOLEAN
ASSUME NoneAssumption ==
  None \notin Name \union Token \union Account /\ Account \intersect Name = {}

VARIABLES
  cast,              \* who takes part; fixed, like the next two
  sameSite, social,  \* pages outside Tab are same-site; a provider is configured
  jar,               \* the browser's cookies for the platform's host
  wire,              \* wire[s]: the request of s on the wire
  solves,            \* the store: pairs of challenge and identity
  flow,              \* flow[t]: the state t's login round trip is to return
  refused,           \* history: tabs whose last round trip was refused
  spoiled,           \* history: tabs whose state cookie another step took
  raced              \* history: two requests without a name were on the wire

world == <<cast, sameSite, social>>
logins == <<flow, refused, spoiled>>
identity == <<world, jar, wire, raced, logins>>
identityVars == <<identity, solves>>

Kind == {"visit", "login", "callback", "logout", "script", "library", "attempt"}
Cookies == [name : Name \union {None},
            session : Account \union {None},
            state : Token \union {None}]
Request == [for : Kind, cookies : Cookies, name : Name]

NoCookies == [name |-> None, session |-> None, state |-> None]
NoRequest == [for |-> "none"]

IdentityInit(x) ==
  /\ cast = x.cast /\ sameSite = x.sameSite /\ social = x.social
  /\ jar = NoCookies
  /\ wire = [s \in Sender |-> NoRequest]
  /\ flow = [t \in Tab |-> None]
  /\ solves = {}
  /\ refused = {} /\ spoiled = {} /\ raced = FALSE

-----------------------------------------------------------------------------
(* Requests.  Every cookie is SameSite=Lax: a fetch or a script of a page    *)
(* that is not same-site neither carries nor sets one.                       *)

Keeps(s) == s \in Tab \/ sameSite

\* Of the cookies a request carries, those its handlers read: the name always,
\* the session where somebody is credited, the state in the callback.
Carried(s, kind) ==
  IF ~Keeps(s) THEN NoCookies
  ELSE [name |-> jar.name,
        session |-> IF kind = "attempt" THEN jar.session ELSE None,
        state |-> IF kind = "callback" THEN jar.state ELSE None]

OnWire(s) == wire[s] # NoRequest

\* A request whose answer sets the name cookie.
Nameless(s) == Keeps(s) /\ OnWire(s) /\ wire[s].cookies.name = None

\* Random names and states do not collide; one that nothing holds any more
\* stands for a new one.
NewName ==
  Name \ ({jar.name} \union {x[2] : x \in solves} \union {wire[s].name : s \in {x \in Sender : OnWire(x)}})

NewState ==
  Token \ ({jar.state} \union {flow[t] : t \in Tab}
           \union {wire[s].cookies.state : s \in {x \in Sender : OnWire(x)}})

\* AnonymousMiddleware: the request is named after its cookie or given a new
\* name.  It is drawn here, at the send: nobody sees it before the answer.
Send(s, kind) ==
  LET c == Carried(s, kind) IN
  /\ ~OnWire(s)
  /\ c.name = None => NewName # {}
  /\ wire' = [wire EXCEPT ![s] =
       [for |-> kind, cookies |-> c,
        name |-> IF c.name = None THEN CHOOSE n \in NewName : TRUE ELSE c.name]]
  /\ raced' = (raced \/ (Keeps(s) /\ c.name = None /\ \E x \in Sender : Nameless(x)))
  /\ UNCHANGED <<world, jar>>

\* The cookies once the middleware's Set-Cookie for s has been applied.
SetName(s) ==
  IF Nameless(s) THEN [jar EXCEPT !.name = wire[s].name] ELSE jar

\* The request of s is over, answered or not.
Over(s) ==
  /\ wire' = [wire EXCEPT ![s] = NoRequest]
  /\ UNCHANGED <<world, raced>>

\* UserIDFunc: the signed session of the request, else its anonymous name.
UserID(s) ==
  IF wire[s].cookies.session # None THEN wire[s].cookies.session ELSE wire[s].name

-----------------------------------------------------------------------------
(* Tabs on the platform.                                                     *)

\* Any page, asset or API call; a tab at a provider's page gives up its login.
Visit(t) ==
  /\ t \in cast
  /\ Send(t, "visit")
  /\ flow' = [flow EXCEPT ![t] = None]
  /\ UNCHANGED <<refused, spoiled>>

Visited(t) ==
  /\ wire[t].for = "visit"
  /\ jar' = SetName(t)
  /\ Over(t)
  /\ UNCHANGED logins

Logout(t) ==
  /\ social
  /\ t \in cast /\ flow[t] = None
  /\ Send(t, "logout")
  /\ UNCHANGED logins

\* Mutant: logging out clears every cookie of the platform, the name too.
LoggedOutOfAll(t) ==
  /\ wire[t].for = "logout"
  /\ jar' = NoCookies
  /\ Over(t)
  /\ UNCHANGED logins

LoggedOut(t) ==
  /\ wire[t].for = "logout"
  /\ jar' = [SetName(t) EXCEPT !.session = None]
  /\ Over(t)
  /\ UNCHANGED logins

Login(t) ==
  /\ social
  /\ t \in cast /\ flow[t] = None
  /\ Send(t, "login")
  /\ UNCHANGED logins

\* The round trips other than t's whose state cookie a step of t takes away.
Others(t) == {x \in Tab \ {t} : flow[x] # None}

\* Mutant: a state cookie the browser already has is left as it is.
RedirectedOnce(t) ==
  /\ wire[t].for = "login"
  /\ NewState # {}
  /\ LET k == CHOOSE k \in NewState : TRUE IN
       /\ jar' = [SetName(t) EXCEPT !.state = IF @ = None THEN k ELSE @]
       /\ flow' = [flow EXCEPT ![t] = k]
  /\ spoiled' = (spoiled \ {t}) \union Others(t)
  /\ refused' = refused \ {t}
  /\ Over(t)

\* handleLogin: a state of its own, in the one cookie all tabs share.
Redirected(t) ==
  /\ wire[t].for = "login"
  /\ NewState # {}
  /\ LET k == CHOOSE k \in NewState : TRUE IN
       /\ jar' = [SetName(t) EXCEPT !.state = k]
       /\ flow' = [flow EXCEPT ![t] = k]
  /\ spoiled' = (spoiled \ {t}) \union Others(t)
  /\ refused' = refused \ {t}
  /\ Over(t)

\* The provider sends the tab back; also a reload of a callback that got no answer.
Callback(t) ==
  /\ flow[t] # None
  /\ Send(t, "callback")
  /\ UNCHANGED logins

\* handleCallback: the state it set must be the one returned.
Matches(t) == wire[t].cookies.state = flow[t]

\* Logged in; whatever state cookie there is by now goes.
SignedIn(t) ==
  /\ wire[t].for = "callback" /\ Matches(t)
  /\ \E a \in Account :
       jar' = [SetName(t) EXCEPT !.session = a, !.state = None]
  /\ flow' = [flow EXCEPT ![t] = None]
  /\ spoiled' = spoiled \union Others(t)
  /\ Over(t)
  /\ UNCHANGED refused

\* The exchange or the profile fails, or takes more than 15 s: 502.
ExchangeFails(t) ==
  /\ wire[t].for = "callback" /\ Matches(t)
  /\ jar' = SetName(t)
  /\ flow' = [flow EXCEPT ![t] = None]
  /\ Over(t)
  /\ UNCHANGED <<refused, spoiled>>

\* 400 invalid oauth state.
Refused(t) ==
  /\ wire[t].for = "callback" /\ ~Matches(t)
  /\ jar' = SetName(t)
  /\ flow' = [flow EXCEPT ![t] = None]
  /\ refused' = refused \union {t}
  /\ Over(t)
  /\ UNCHANGED spoiled

\* The request or its answer is lost.
Lost(t) ==
  /\ OnWire(t)
  /\ Over(t)
  /\ UNCHANGED <<jar, logins>>

\* The state cookie is ten minutes old.
StateExpires ==
  /\ jar.state # None
  /\ jar' = [jar EXCEPT !.state = None]
  /\ spoiled' = spoiled \union {x \in Tab : flow[x] # None}
  /\ UNCHANGED <<world, wire, raced, flow, refused>>

\* The session cookie is twelve hours old.
SessionExpires ==
  /\ jar.session # None
  /\ jar' = [jar EXCEPT !.session = None]
  /\ UNCHANGED <<world, wire, raced, logins>>

TabStep(t) ==
  \/ Visit(t) \/ Visited(t) \/ Logout(t) \/ LoggedOut(t)
  \/ Login(t) \/ Redirected(t) \/ Callback(t)
  \/ SignedIn(t) \/ ExchangeFails(t) \/ Refused(t) \/ Lost(t)

IdentityNext ==
  /\ \/ \E t \in Tab : TabStep(t)
     \/ StateExpires
     \/ SessionExpires
  /\ UNCHANGED solves

-----------------------------------------------------------------------------
IdentityTypeOK ==
  /\ cast \subseteq Sender /\ {sameSite, social} \subseteq BOOLEAN
  /\ jar \in Cookies
  /\ wire \in [Sender -> Request \union {NoRequest}]
  /\ flow \in [Tab -> Token \union {None}]
  /\ refused \subseteq Tab /\ spoiled \subseteq Tab
  /\ raced \in BOOLEAN

\* A login is refused only when its state cookie was replaced by a later login
\* of another tab, cleared by another one's success (auth.go:184) or expired:
\* the check against forged callbacks (auth.go:164) never hits a learner who
\* logs in once, however the answers of the tabs' requests are interleaved.
RefusedOnlyIfSpoiled == refused \subseteq spoiled
=============================================================================
