------------------------ MODULE ExerciseVerifyProofs ------------------------
(***************************************************************************)
(* Proofs about ExerciseVerify and the cookies of Identity it works on, for*)
(* any pages, submissions, tabs, senders, accounts and names: first what   *)
(* each kind of step does to the cookies, then the result page.            *)
(***************************************************************************)
EXTENDS ExerciseVerify, TLAPS

\* The state cookie, and the copy a callback carries, are those of a login
\* that nothing has spoiled.
Returning ==
  \A t \in Tab :
    /\ flow[t] # None /\ t \notin spoiled => jar.state = flow[t]
    /\ wire[t].for = "callback" =>
         /\ flow[t] # None
         /\ t \notin spoiled => Matches(t)

\* Until a browser of same-site pages has a name its requests carry none.
Unnamed ==
  sameSite /\ jar.name = None =>
    \A s \in Sender : OnWire(s) => wire[s].cookies.name = None

\* Without a race all requests are of one name: the browser's, or that of the
\* first request, which is alone.
OneName ==
  sameSite /\ ~raced =>
    \A s \in Sender : OnWire(s) =>
      /\ jar.name # None => wire[s].name = jar.name
      /\ jar.name = None => \A x \in Sender : OnWire(x) => x = s

IdInv == IdentityTypeOK /\ Returning /\ RefusedOnlyIfSpoiled /\ Unnamed /\ OneName

\* What the steps say of the browser's name: one it has is never lost, and
\* without a race never replaced.
NameKept ==
  /\ jar.name # None => jar'.name # None
  /\ (sameSite /\ ~raced' /\ jar.name # None) => jar'.name = jar.name
  /\ UNCHANGED world /\ (raced => raced')

LEMMA RequestOnWire ==
  ASSUME IdentityTypeOK, NEW s \in Sender, OnWire(s)
  PROVE  wire[s] \in Request
BY DEF IdentityTypeOK, OnWire

-----------------------------------------------------------------------------
(* A request is sent, by a tab or by anything else.                          *)

LEMMA SendTypes ==
  ASSUME IdentityTypeOK, NEW s \in Sender, NEW kind \in Kind, Send(s, kind)
  PROVE  /\ wire' \in [Sender -> Request \union {NoRequest}]
         /\ wire'[s] \in Request /\ wire'[s].for = kind
         /\ wire'[s].cookies = Carried(s, kind)
         /\ Keeps(s) /\ jar.name # None => wire'[s].name = jar.name
         /\ \A x \in Sender : x # s => wire'[x] = wire[x]
         /\ ~OnWire(s) /\ UNCHANGED <<world, jar>>
         /\ raced' \in BOOLEAN /\ (raced => raced')
<1> DEFINE c == Carried(s, kind)
           n == IF c.name = None THEN CHOOSE n \in NewName : TRUE ELSE c.name
<1>1. c \in Cookies
  BY DEF Carried, Cookies, NoCookies, IdentityTypeOK
<1>2. n \in Name
  <2>1. CASE c.name = None
    <3>1. NewName # {} /\ NewName \subseteq Name
      BY <2>1 DEF Send, NewName
    <3> QED BY <2>1, <3>1
  <2>2. CASE c.name # None
    BY <1>1, <2>2 DEF Cookies
  <2> QED BY <2>1, <2>2
<1>3. wire' = [wire EXCEPT ![s] = [for |-> kind, cookies |-> c, name |-> n]]
  BY DEF Send
<1>4. [for |-> kind, cookies |-> c, name |-> n] \in Request
  BY <1>1, <1>2 DEF Request
<1>5. Keeps(s) /\ jar.name # None => n = jar.name
  BY DEF Carried
<1>6. raced' \in BOOLEAN /\ (raced => raced') /\ ~OnWire(s) /\ UNCHANGED <<world, jar>>
  BY DEF Send, IdentityTypeOK
<1> HIDE DEF c, n
<1>7. wire \in [Sender -> Request \union {NoRequest}]
  BY DEF IdentityTypeOK
<1>8. wire'[s] = [for |-> kind, cookies |-> c, name |-> n]
  BY <1>3, <1>7
<1> QED BY <1>3, <1>4, <1>5, <1>6, <1>7, <1>8 DEF c

LEMMA SendKeepsNames ==
  ASSUME IdInv, NEW s \in Sender, NEW kind \in Kind, Send(s, kind)
  PROVE  Unnamed' /\ OneName' /\ NameKept
<1> USE DEF IdInv
<1>1. /\ \A x \in Sender : x # s => wire'[x] = wire[x]
      /\ UNCHANGED <<world, jar>> /\ (raced => raced')
      /\ ~OnWire(s) /\ wire'[s] \in Request
      /\ wire'[s].cookies = Carried(s, kind)
      /\ Keeps(s) /\ jar.name # None => wire'[s].name = jar.name
  BY SendTypes
<1>2. NameKept
  BY <1>1 DEF NameKept
<1>3. \A x \in Sender : x # s => (OnWire(x)' <=> OnWire(x))
  BY <1>1 DEF OnWire
<1>4. Unnamed'
  <2> SUFFICES ASSUME sameSite, jar.name = None, NEW x \in Sender, OnWire(x)'
               PROVE  wire'[x].cookies.name = None
    BY <1>1 DEF Unnamed, world
  <2>1. CASE x = s
    BY <1>1, <2>1 DEF Carried, NoCookies
  <2>2. CASE x # s
    BY <1>1, <1>3, <2>2 DEF Unnamed
  <2> QED BY <2>1, <2>2
<1>5. OneName'
  <2> SUFFICES ASSUME sameSite, ~raced', NEW x \in Sender, OnWire(x)'
               PROVE  /\ jar.name # None => wire'[x].name = jar.name
                      /\ jar.name = None => \A y \in Sender : OnWire(y)' => y = x
    BY <1>1 DEF OneName, world
  <2>1. ~raced /\ Keeps(s)
    BY <1>1 DEF Keeps
  <2>2. jar.name # None => wire'[x].name = jar.name
    BY <1>1, <1>3, <2>1 DEF OneName
  <2>3. ASSUME jar.name = None PROVE \A y \in Sender : ~OnWire(y)
    <3> SUFFICES ASSUME NEW y \in Sender, OnWire(y) PROVE FALSE
      OBVIOUS
    <3>1. Nameless(y)
      BY <2>3 DEF Nameless, Keeps, Unnamed
    <3>2. Carried(s, kind).name = None
      BY <2>3 DEF Carried, NoCookies
    <3> QED BY <2>1, <3>1, <3>2 DEF Send
  <2>4. jar.name = None => \A y \in Sender : OnWire(y)' => y = x
    BY <1>3, <2>3
  <2> QED BY <2>2, <2>4
<1> QED BY <1>2, <1>4, <1>5

-----------------------------------------------------------------------------
(* A request is over; its answer may have set the name.                      *)

LEMMA SetNameTypes ==
  ASSUME IdentityTypeOK, NEW s \in Sender
  PROVE  /\ SetName(s) \in Cookies
         /\ SetName(s).session = jar.session /\ SetName(s).state = jar.state
         /\ SetName(s).name = IF Nameless(s) THEN wire[s].name ELSE jar.name
         /\ Nameless(s) => wire[s].name \in Name
BY RequestOnWire, NoneAssumption DEF SetName, Nameless, Cookies, Request, IdentityTypeOK

LEMMA OverTypes ==
  ASSUME IdentityTypeOK, NEW s \in Sender, Over(s)
  PROVE  /\ wire' \in [Sender -> Request \union {NoRequest}]
         /\ wire'[s] = NoRequest
         /\ \A x \in Sender : x # s => wire'[x] = wire[x]
         /\ UNCHANGED <<world, raced>>
BY DEF Over, IdentityTypeOK

\* Whatever ends requests and leaves the name, or takes it from an answer.
LEMMA EndKeepsNames ==
  ASSUME IdInv, NEW s \in Sender, UNCHANGED <<world, raced>>,
         \A x \in Sender : wire'[x] \in {wire[x], NoRequest},
         jar'.name = jar.name \/ (jar'.name = SetName(s).name /\ wire'[s] = NoRequest)
  PROVE  Unnamed' /\ OneName' /\ NameKept
<1> USE DEF IdInv
<1>1. \A x \in Sender : OnWire(x)' => OnWire(x) /\ wire'[x] = wire[x]
  BY DEF OnWire
<1>2. jar'.name = jar.name \/ (Nameless(s) /\ jar'.name = wire[s].name /\ jar'.name \in Name
                                 /\ wire'[s] = NoRequest)
  BY SetNameTypes
<1>3. None \notin Name
  BY NoneAssumption
<1>4. Unnamed'
  BY <1>1, <1>2, <1>3 DEF Unnamed, world
<1>5. NameKept
  BY <1>2, <1>3 DEF NameKept, OneName, Nameless, world
<1>6. OneName'
  <2>1. CASE jar'.name = jar.name
    BY <1>1, <2>1 DEF OneName, world
  <2>2. CASE jar'.name # jar.name
    <3> SUFFICES ASSUME sameSite, ~raced, NEW x \in Sender, OnWire(x)'
                 PROVE  FALSE
      BY DEF OneName, world
    <3>1. x # s /\ OnWire(x) /\ OnWire(s)
      BY <1>1, <1>2, <2>2 DEF OnWire, Nameless
    <3> QED BY <1>2, <2>2, <3>1 DEF OneName
  <2> QED BY <2>1, <2>2
<1> QED BY <1>4, <1>5, <1>6

-----------------------------------------------------------------------------
(* Login round trips.                                                        *)

\* Who is not logging in leaves them alone.
LEMMA OthersKeepLogins ==
  ASSUME IdInv, UNCHANGED logins, jar'.state = jar.state,
         \A t \in Tab : wire'[t] = wire[t] \/ wire'[t].for # "callback"
  PROVE  Returning' /\ RefusedOnlyIfSpoiled'
BY DEF IdInv, Returning, RefusedOnlyIfSpoiled, Matches, logins

\* What a step of tab t is to the requests and the names.
TabKept(t) ==
  /\ IdInv' /\ NameKept
  /\ \A s \in Sender : s # t => wire'[s] = wire[s]

LEMMA SendingTab ==
  ASSUME IdInv, NEW t \in Tab, NEW kind \in Kind, Send(t, kind),
         flow' \in [Tab -> Token \union {None}], UNCHANGED <<refused, spoiled>>,
         Returning'
  PROVE  TabKept(t)
<1>1. t \in Sender
  BY SenderAssumption
<1>2. Unnamed' /\ OneName' /\ NameKept
  BY <1>1, SendKeepsNames
<1>3. IdentityTypeOK'
  BY <1>1, SendTypes DEF IdInv, IdentityTypeOK, world
<1>4. \A s \in Sender : s # t => wire'[s] = wire[s]
  BY <1>1, SendTypes DEF IdInv
<1> QED BY <1>2, <1>3, <1>4 DEF TabKept, IdInv, RefusedOnlyIfSpoiled

LEMMA EndingTab ==
  ASSUME IdInv, NEW t \in Tab, Over(t),
         jar' \in Cookies, jar'.name = SetName(t).name \/ jar'.name = jar.name,
         flow' \in [Tab -> Token \union {None}], refused' \subseteq Tab, spoiled' \subseteq Tab,
         Returning', RefusedOnlyIfSpoiled'
  PROVE  TabKept(t)
<1>1. t \in Sender
  BY SenderAssumption
<1>2. /\ wire' \in [Sender -> Request \union {NoRequest}]
      /\ wire'[t] = NoRequest
      /\ \A s \in Sender : s # t => wire'[s] = wire[s]
      /\ UNCHANGED <<world, raced>>
  BY <1>1, OverTypes DEF IdInv
<1>3. Unnamed' /\ OneName' /\ NameKept
  <2>1. \A s \in Sender : wire'[s] \in {wire[s], NoRequest}
    BY <1>2
  <2> QED BY <1>1, <1>2, <2>1, EndKeepsNames
<1>4. IdentityTypeOK'
  BY <1>2 DEF IdInv, IdentityTypeOK, world
<1> QED BY <1>2, <1>3, <1>4 DEF TabKept, IdInv

LEMMA TabKeeps ==
  ASSUME IdInv, NEW t \in Tab, TabStep(t)
  PROVE  TabKept(t)
<1> USE DEF IdInv
<1>0. /\ t \in Sender
      /\ {"visit", "login", "callback", "logout"} \subseteq Kind
      /\ flow \in [Tab -> Token \union {None}] /\ refused \subseteq Tab /\ spoiled \subseteq Tab
      /\ jar \in Cookies
  BY SenderAssumption DEF Kind, IdentityTypeOK
<1>1. SetName(t) \in Cookies /\ SetName(t).session = jar.session /\ SetName(t).state = jar.state
  BY <1>0, SetNameTypes
<1>2. Over(t) => /\ wire'[t].for = "none"
                 /\ \A x \in Tab : x # t => wire'[x] = wire[x]
  BY <1>0, OverTypes, SenderAssumption DEF NoRequest
<1>3. ASSUME NEW kind \in Kind, Send(t, kind)
      PROVE  /\ wire'[t].for = kind /\ wire'[t].cookies = Carried(t, kind)
             /\ \A x \in Tab : x # t => wire'[x] = wire[x]
             /\ UNCHANGED jar
  BY <1>0, <1>3, SendTypes, SenderAssumption
<1>4. CASE Visit(t)
  <2>1. Send(t, "visit") /\ flow' = [flow EXCEPT ![t] = None] /\ UNCHANGED <<refused, spoiled>>
    BY <1>4 DEF Visit
  <2>2. Returning'
    BY <1>0, <1>3, <2>1 DEF Returning, Matches
  <2> QED BY <1>0, <2>1, <2>2, SendingTab
<1>5. CASE Logout(t) \/ Login(t)
  <2>1. PICK kind \in {"login", "logout"} : Send(t, kind) /\ UNCHANGED logins
    BY <1>5 DEF Logout, Login
  <2>2. Returning'
    BY <1>0, <1>3, <2>1 DEF Returning, Matches, logins
  <2> QED BY <1>0, <2>1, <2>2, SendingTab DEF logins
<1>6. CASE Callback(t)
  <2>1. Send(t, "callback") /\ UNCHANGED logins /\ flow[t] # None
    BY <1>6 DEF Callback
  <2>2. wire'[t].cookies.state = jar.state
    <3>1. wire'[t].cookies = Carried(t, "callback")
      BY <1>0, <1>3, <2>1
    <3>2. Carried(t, "callback").state = jar.state
      BY DEF Carried, Keeps
    <3> QED BY <3>1, <3>2
  <2>3. Returning'
    BY <1>0, <1>3, <2>1, <2>2 DEF Returning, Matches, logins
  <2> QED BY <1>0, <2>1, <2>3, SendingTab DEF logins
<1>7. CASE Visited(t) \/ LoggedOut(t) \/ Lost(t)
  <2>1. Over(t) /\ UNCHANGED logins
    BY <1>7 DEF Visited, LoggedOut, Lost
  <2>2. jar' \in Cookies /\ jar'.state = jar.state
           /\ (jar'.name = SetName(t).name \/ jar'.name = jar.name)
    BY <1>0, <1>1, <1>7 DEF Visited, LoggedOut, Lost, Cookies
  <2>3. Returning' /\ RefusedOnlyIfSpoiled'
    BY <1>2, <2>1, <2>2, OthersKeepLogins
  <2> QED BY <1>0, <2>1, <2>2, <2>3, EndingTab DEF logins
<1>8. CASE Redirected(t)
  <2>1. PICK k \in Token : jar' = [SetName(t) EXCEPT !.state = k] /\ flow' = [flow EXCEPT ![t] = k]
    BY <1>8 DEF Redirected, NewState
  <2>2. /\ Over(t) /\ spoiled' = (spoiled \ {t}) \union Others(t) /\ refused' = refused \ {t}
    BY <1>8 DEF Redirected
  <2>3. jar' \in Cookies /\ jar'.state = k /\ jar'.name = SetName(t).name
    BY <1>1, <2>1 DEF Cookies
  <2>4. Returning'
    BY <1>0, <1>2, <2>1, <2>2, <2>3 DEF Returning, Matches, Others
  <2>5. RefusedOnlyIfSpoiled' /\ spoiled' \subseteq Tab /\ refused' \subseteq Tab
    BY <1>0, <2>2 DEF RefusedOnlyIfSpoiled, Others
  <2> QED BY <1>0, <2>1, <2>2, <2>3, <2>4, <2>5, EndingTab
<1>9. CASE SignedIn(t)
  <2>1. PICK a \in Account : jar' = [SetName(t) EXCEPT !.session = a, !.state = None]
    BY <1>9 DEF SignedIn
  <2>2. /\ Over(t) /\ spoiled' = spoiled \union Others(t) /\ UNCHANGED refused
        /\ flow' = [flow EXCEPT ![t] = None]
    BY <1>9 DEF SignedIn
  <2>3. jar' \in Cookies /\ jar'.name = SetName(t).name
    BY <1>1, <2>1 DEF Cookies
  <2>4. Returning'
    BY <1>0, <1>2, <2>2 DEF Returning, Matches, Others
  <2>5. RefusedOnlyIfSpoiled' /\ spoiled' \subseteq Tab /\ refused' \subseteq Tab
    BY <1>0, <2>2 DEF RefusedOnlyIfSpoiled, Others
  <2> QED BY <1>0, <2>2, <2>3, <2>4, <2>5, EndingTab
<1>10. CASE ExchangeFails(t) \/ Refused(t)
  <2>1. /\ jar' = SetName(t) /\ Over(t) /\ UNCHANGED spoiled
        /\ flow' = [flow EXCEPT ![t] = None]
    BY <1>10 DEF ExchangeFails, Refused
  <2>2. Returning'
    BY <1>0, <1>1, <1>2, <2>1 DEF Returning, Matches
  <2>3. refused' \subseteq Tab /\ RefusedOnlyIfSpoiled'
    <3>1. CASE ExchangeFails(t)
      BY <1>0, <3>1 DEF ExchangeFails, RefusedOnlyIfSpoiled
    <3>2. CASE Refused(t)
      <4>1. t \in spoiled /\ refused' = refused \union {t}
        BY <3>2 DEF Refused, Returning
      <4> QED BY <1>0, <2>1, <4>1 DEF RefusedOnlyIfSpoiled
    <3> QED BY <1>10, <3>1, <3>2
  <2> QED BY <1>0, <1>1, <2>1, <2>2, <2>3, EndingTab
<1> QED BY <1>4, <1>5, <1>6, <1>7, <1>8, <1>9, <1>10 DEF TabStep

\* Cookies that expire disturb no request and no name.
LEMMA ExpiryKeeps ==
  ASSUME IdInv, StateExpires \/ SessionExpires
  PROVE  IdInv' /\ NameKept /\ UNCHANGED wire
<1> USE DEF IdInv
<1>1. /\ UNCHANGED <<world, wire, raced, refused, flow>>
      /\ jar' \in Cookies /\ jar'.name = jar.name
  BY DEF StateExpires, SessionExpires, IdentityTypeOK, Cookies, logins
<1>2. spoiled \subseteq spoiled' /\ spoiled' \subseteq Tab
  BY DEF StateExpires, SessionExpires, IdentityTypeOK, logins
<1>3. Returning'
  <2>1. jar'.state = jar.state \/ \A t \in Tab : flow[t] # None => t \in spoiled'
    BY DEF StateExpires, SessionExpires, IdentityTypeOK, Cookies
  <2> QED BY <1>1, <1>2, <2>1 DEF Returning, Matches
<1>4. Unnamed' /\ OneName' /\ NameKept
  BY <1>1 DEF Unnamed, OneName, NameKept, OnWire, world
<1>5. IdentityTypeOK'
  BY <1>1, <1>2 DEF IdentityTypeOK, world
<1> QED BY <1>1, <1>2, <1>3, <1>4, <1>5 DEF RefusedOnlyIfSpoiled

LEMMA IdInit ==
  ASSUME NEW x \in Scenario, IdentityInit(x)
  PROVE  IdInv
<1>1. IdentityTypeOK
  BY SenderAssumption DEF IdentityInit, IdentityTypeOK, Cookies, NoCookies, Request
<1>2. Returning /\ RefusedOnlyIfSpoiled /\ Unnamed /\ OneName
  BY SenderAssumption
     DEF IdentityInit, Returning, RefusedOnlyIfSpoiled, Unnamed, OneName, OnWire, NoRequest
<1> QED BY <1>1, <1>2 DEF IdInv

-----------------------------------------------------------------------------
(* The result page.                                                          *)

\* The script of a page runs once its browser has a name, if it may keep one;
\* what it sets off comes after.
Attended ==
  /\ \A p \in Page : trigger[p] # "none" => script[p] = "ran"
  /\ sameSite =>
       /\ \A p \in Page : script[p] = "ran" => jar.name # None
       /\ \A j \in Job : Busy(j) => jar.name # None

\* An answer that says "correct" is about a solve of whoever sent the proof.
Credited ==
  \A j \in Job :
    Busy(j) /\ job[j].at = "graded" /\ job[j].answer = "correct"
      => <<job[j].page, UserID(j)>> \in solves

Shown == AcceptedIsCredited /\ ProgressFollowsBrowser /\ NeverStuck

IInv == TypeOK /\ IdInv /\ Attended /\ Credited /\ Shown

-----------------------------------------------------------------------------
(* What the requests of pages and submissions are to the cookies.            *)

\* Only s's slot on the wire changes, and nothing of the browser but its name.
Apart(s) ==
  /\ IdInv' /\ NameKept
  /\ \A x \in Page \union Job : x # s => wire'[x] = wire[x]

LEMMA SendApart ==
  ASSUME IdInv, NEW s \in Page \union Job, NEW kind \in Kind, Send(s, kind),
         UNCHANGED logins
  PROVE  Apart(s) /\ wire'[s].for = kind /\ OnWire(s)' /\ UNCHANGED jar
<1>1. s \in Sender /\ s \notin Tab
  BY PageAssumption
<1>2. Unnamed' /\ OneName' /\ NameKept
  BY <1>1, SendKeepsNames
<1>3. /\ wire' \in [Sender -> Request \union {NoRequest}]
      /\ wire'[s] \in Request /\ wire'[s].for = kind
      /\ \A x \in Sender : x # s => wire'[x] = wire[x]
      /\ UNCHANGED <<world, jar>> /\ raced' \in BOOLEAN
  BY <1>1, SendTypes DEF IdInv
<1>4. Returning' /\ RefusedOnlyIfSpoiled'
  BY <1>1, <1>3, OthersKeepLogins, SenderAssumption
<1>5. IdentityTypeOK'
  BY <1>3 DEF IdInv, IdentityTypeOK, world, logins
<1>6. OnWire(s)'
  BY <1>3 DEF OnWire, NoRequest, Request, Kind
<1> QED BY <1>2, <1>3, <1>4, <1>5, <1>6, PageAssumption DEF Apart, IdInv

LEMMA EndApart ==
  ASSUME IdInv, NEW s \in Page \union Job, Over(s), UNCHANGED logins,
         jar' = jar \/ jar' = SetName(s)
  PROVE  Apart(s) /\ wire'[s] = NoRequest /\ ~OnWire(s)'
<1>1. s \in Sender /\ s \notin Tab
  BY PageAssumption
<1>2. /\ wire' \in [Sender -> Request \union {NoRequest}]
      /\ wire'[s] = NoRequest
      /\ \A x \in Sender : x # s => wire'[x] = wire[x]
      /\ UNCHANGED <<world, raced>>
  BY <1>1, OverTypes DEF IdInv
<1>3. jar' \in Cookies /\ jar'.state = jar.state
         /\ (jar'.name = jar.name \/ jar'.name = SetName(s).name)
  BY <1>1, SetNameTypes DEF IdInv, IdentityTypeOK
<1>4. Unnamed' /\ OneName' /\ NameKept
  <2>1. \A x \in Sender : wire'[x] \in {wire[x], NoRequest}
    BY <1>2
  <2> QED BY <1>1, <1>2, <1>3, <2>1, EndKeepsNames
<1>5. Returning' /\ RefusedOnlyIfSpoiled'
  <2>1. \A t \in Tab : wire'[t] = wire[t]
    BY <1>1, <1>2, SenderAssumption
  <2> QED BY <1>3, <2>1, OthersKeepLogins
<1>6. IdentityTypeOK'
  BY <1>2, <1>3 DEF IdInv, IdentityTypeOK, world, logins
<1> QED BY <1>2, <1>4, <1>5, <1>6, PageAssumption DEF Apart, IdInv, OnWire

LEMMA StillApart ==
  ASSUME IdInv, UNCHANGED identity
  PROVE  IdInv' /\ NameKept
BY DEF IdInv, IdentityTypeOK, Returning, RefusedOnlyIfSpoiled, Unnamed, OneName, NameKept,
       Matches, OnWire, identity, world, logins

-----------------------------------------------------------------------------
(* What is enough for the invariants that speak of the whole system.         *)

LEMMA ProgressKeeps ==
  ASSUME TypeOK, ProgressFollowsBrowser, NameKept, UNCHANGED solves
  PROVE  ProgressFollowsBrowser'
<1> SUFFICES ASSUME sameSite', ~raced', NEW s \in solves
             PROVE  s[2] \in Account \union {jar'.name}
  BY DEF ProgressFollowsBrowser
<1>1. sameSite /\ ~raced
  BY DEF NameKept, world
<1>2. s[2] \in Account \union {jar.name} /\ s[2] \in Name \union Account
  BY <1>1 DEF ProgressFollowsBrowser, TypeOK, OwnTypes
<1>3. CASE jar.name = None
  BY <1>2, <1>3, NoneAssumption
<1>4. CASE jar.name # None
  BY <1>1, <1>2, <1>4 DEF NameKept
<1> QED BY <1>3, <1>4

-----------------------------------------------------------------------------
(* Steps of a page and of a submission.                                      *)

LEMMA LoadKeeps ==
  ASSUME IInv, NEW p \in Page, Load(p)
  PROVE  IInv'
<1> USE DEF IInv, Shown, TypeOK
<1>1. UNCHANGED identity
  BY DEF Load
<1>2. IdInv' /\ NameKept /\ UNCHANGED <<wire, jar>>
  BY <1>1, StillApart DEF identity
<1>3. OwnTypes'
  BY
     DEF Load, fixed, identity, OwnTypes, Doc, Trigger, Chip, Verdict, Submission, NoJob,
         Answer, At, Busy
<1>4. Wired'
  BY <1>2, PageAssumption
     DEF Load, fixed, identity, Wired, OnWire, NoRequest, OwnTypes, NoJob, Submission,
         At, Busy
<1>5. Attended'
  BY <1>2 DEF Load, fixed, identity, Attended, NameKept, world, OwnTypes, NoJob, Busy, At
<1>6. Credited'
  BY <1>2, PageAssumption
     DEF Load, fixed, identity, Credited, UserID, OwnTypes, NoJob, Submission, Busy, At
<1>7. AcceptedIsCredited'
  BY DEF Load, fixed, identity, AcceptedIsCredited, OwnTypes
<1>8. ProgressFollowsBrowser'
  BY <1>2, ProgressKeeps DEF Load, fixed, identity
<1>9. NeverStuck'
  BY DEF Load, fixed, identity, NeverStuck, Of, Busy, OwnTypes, Submission, NoJob, At
<1> QED BY <1>2, <1>3, <1>4, <1>5, <1>6, <1>7, <1>8, <1>9 DEF IdInv

LEMMA ChangeKeeps ==
  ASSUME IInv, NEW p \in Page, Change(p)
  PROVE  IInv'
<1> USE DEF IInv, Shown, TypeOK
<1>1. UNCHANGED identity
  BY DEF Change
<1>2. IdInv' /\ NameKept /\ UNCHANGED <<wire, jar>>
  BY <1>1, StillApart DEF identity
<1>3. OwnTypes'
  BY
     DEF Change, fixed, identity, OwnTypes, Doc, Trigger, Chip, Verdict, Submission,
         NoJob, Answer, At, Busy
<1>4. Wired'
  BY <1>2, PageAssumption
     DEF Change, fixed, identity, Wired, OnWire, NoRequest, OwnTypes, NoJob, Submission,
         At, Busy
<1>5. Attended'
  BY <1>2 DEF Change, fixed, identity, Attended, NameKept, world, OwnTypes, NoJob, Busy, At
<1>6. Credited'
  BY <1>2, PageAssumption
     DEF Change, fixed, identity, Credited, UserID, OwnTypes, NoJob, Submission, Busy,
         At
<1>7. AcceptedIsCredited'
  BY DEF Change, fixed, identity, AcceptedIsCredited, OwnTypes
<1>8. ProgressFollowsBrowser'
  BY <1>2, ProgressKeeps DEF Change, fixed, identity
<1>9. NeverStuck'
  BY DEF Change, fixed, identity, NeverStuck, Of, Busy, OwnTypes, Submission, NoJob, At
<1> QED BY <1>2, <1>3, <1>4, <1>5, <1>6, <1>7, <1>8, <1>9 DEF IdInv

LEMMA LoaderKeeps ==
  ASSUME IInv, NEW p \in Page, Loader(p)
  PROVE  IInv'
<1> USE DEF IInv, Shown, TypeOK
<1>1. Send(p, "script") /\ UNCHANGED logins /\ "script" \in Kind
  BY DEF Loader, Kind
<1>2. Apart(p) /\ wire'[p].for = "script" /\ OnWire(p)' /\ UNCHANGED jar
  BY <1>1, SendApart
<1>3. OwnTypes'
  BY
     DEF Loader, fixed, OwnTypes, Doc, Trigger, Chip, Verdict, Submission, NoJob, Answer,
         At, Busy
<1>4. Wired'
  BY <1>2, PageAssumption
     DEF Loader, fixed, Wired, OnWire, NoRequest, OwnTypes, NoJob, Submission, At, Busy,
         Apart
<1>5. Attended'
  BY <1>2 DEF Loader, fixed, Attended, NameKept, world, OwnTypes, NoJob, Busy, At, Apart
<1>6. Credited'
  BY <1>2, PageAssumption
     DEF Loader, fixed, Credited, UserID, OwnTypes, NoJob, Submission, Busy, At, Apart
<1>7. AcceptedIsCredited'
  BY DEF Loader, fixed, AcceptedIsCredited, OwnTypes
<1>8. ProgressFollowsBrowser'
  BY <1>2, ProgressKeeps DEF Loader, fixed, Apart
<1>9. NeverStuck'
  BY DEF Loader, fixed, NeverStuck, Of, Busy, OwnTypes, Submission, NoJob, At
<1> QED BY <1>2, <1>3, <1>4, <1>5, <1>6, <1>7, <1>8, <1>9 DEF IdInv, Apart

LEMMA ScriptFailsKeeps ==
  ASSUME IInv, NEW p \in Page, ScriptFails(p)
  PROVE  IInv'
<1> USE DEF IInv, Shown, TypeOK
<1>1. Over(p) /\ UNCHANGED logins /\ (jar' = jar \/ jar' = SetName(p))
  BY DEF ScriptFails
<1>2. Apart(p) /\ wire'[p] = NoRequest /\ ~OnWire(p)'
  BY <1>1, EndApart
<1>3. OwnTypes'
  BY
     DEF ScriptFails, fixed, OwnTypes, Doc, Trigger, Chip, Verdict, Submission, NoJob,
         Answer, At, Busy
<1>4. Wired'
  BY <1>2, PageAssumption
     DEF ScriptFails, fixed, Wired, OnWire, NoRequest, OwnTypes, NoJob, Submission, At,
         Busy, Apart
<1>5. Attended'
  BY <1>2
     DEF ScriptFails, fixed, Attended, NameKept, world, OwnTypes, NoJob, Busy, At, Apart
<1>6. Credited'
  BY <1>2, PageAssumption
     DEF ScriptFails, fixed, Credited, UserID, OwnTypes, NoJob, Submission, Busy, At,
         Apart
<1>7. AcceptedIsCredited'
  BY DEF ScriptFails, fixed, AcceptedIsCredited, OwnTypes
<1>8. ProgressFollowsBrowser'
  BY <1>2, ProgressKeeps DEF ScriptFails, fixed, Apart
<1>9. NeverStuck'
  BY DEF ScriptFails, fixed, NeverStuck, Of, Busy, OwnTypes, Submission, NoJob, At
<1> QED BY <1>2, <1>3, <1>4, <1>5, <1>6, <1>7, <1>8, <1>9 DEF IdInv, Apart

LEMMA RunKeeps ==
  ASSUME IInv, NEW p \in Page, Run(p)
  PROVE  IInv'
<1> USE DEF IInv, Shown, TypeOK
<1>1. Over(p) /\ UNCHANGED logins /\ (jar' = jar \/ jar' = SetName(p))
  BY DEF Run
<1>2. Apart(p) /\ wire'[p] = NoRequest /\ ~OnWire(p)'
  BY <1>1, EndApart
<1>3. OwnTypes'
  BY
     DEF Run, Start, fixed, OwnTypes, Doc, Trigger, Chip, Verdict, Submission, NoJob,
         Answer, At, Busy
<1>4. Wired'
  BY <1>2, PageAssumption
     DEF Run, Start, fixed, Wired, OnWire, NoRequest, OwnTypes, NoJob, Submission, At,
         Busy, Apart
<1>5. Attended'
  <2>1. ASSUME sameSite PROVE jar'.name # None
    <3>1. p \in Sender /\ OnWire(p) /\ Keeps(p) /\ jar' = SetName(p)
      BY <2>1, PageAssumption DEF Run, Wired, Keeps, OnWire, NoRequest
    <3>2. CASE Nameless(p)
      BY <3>1, <3>2, SetNameTypes, NoneAssumption
    <3>3. CASE ~Nameless(p)
      BY <2>1, <3>1, <3>3, SetNameTypes DEF Nameless, IdInv, Unnamed
    <3> QED BY <3>2, <3>3
  <2> QED BY <1>2, <2>1 DEF Run, Start, fixed, Attended, NameKept, world, OwnTypes, Apart
<1>6. Credited'
  BY <1>2, PageAssumption, ZenonT(60)
     DEF Run, Start, fixed, Credited, UserID, OwnTypes, NoJob, Submission, Busy, At,
         Apart
<1>7. AcceptedIsCredited'
  BY DEF Run, Start, fixed, AcceptedIsCredited, OwnTypes
<1>8. ProgressFollowsBrowser'
  BY <1>2, ProgressKeeps DEF Run, Start, fixed, Apart
<1>9. NeverStuck'
  BY DEF Run, Start, fixed, NeverStuck, Of, Busy, OwnTypes, Submission, NoJob, At
<1> QED BY <1>2, <1>3, <1>4, <1>5, <1>6, <1>7, <1>8, <1>9 DEF IdInv, Apart

LEMMA LoadedKeeps ==
  ASSUME IInv, NEW p \in Page, Loaded(p)
  PROVE  IInv'
<1> USE DEF IInv, Shown, TypeOK
<1>1. UNCHANGED identity
  BY DEF Loaded
<1>2. IdInv' /\ NameKept /\ UNCHANGED <<wire, jar>>
  BY <1>1, StillApart DEF identity
<1>3. OwnTypes'
  BY
     DEF Loaded, Start, fixed, identity, OwnTypes, Doc, Trigger, Chip, Verdict,
         Submission, NoJob, Answer, At, Busy
<1>4. Wired'
  BY <1>2, PageAssumption
     DEF Loaded, Start, fixed, identity, Wired, OnWire, NoRequest, OwnTypes, NoJob,
         Submission, At, Busy
<1>5. Attended'
  BY <1>2
     DEF Loaded, Start, fixed, identity, Attended, NameKept, world, OwnTypes, NoJob,
         Busy, At
<1>6. Credited'
  BY <1>2, PageAssumption
     DEF Loaded, Start, fixed, identity, Credited, UserID, OwnTypes, NoJob, Submission,
         Busy, At
<1>7. AcceptedIsCredited'
  BY DEF Loaded, Start, fixed, identity, AcceptedIsCredited, OwnTypes
<1>8. ProgressFollowsBrowser'
  BY <1>2, ProgressKeeps DEF Loaded, Start, fixed, identity
<1>9. NeverStuck'
  BY
     DEF Loaded, Start, fixed, identity, NeverStuck, Of, Busy, OwnTypes, Submission,
         NoJob, At
<1> QED BY <1>2, <1>3, <1>4, <1>5, <1>6, <1>7, <1>8, <1>9 DEF IdInv

LEMMA LibraryLoadsKeeps ==
  ASSUME IInv, NEW j \in Job, LibraryLoads(j)
  PROVE  IInv'
<1> USE DEF IInv, Shown, TypeOK
<1>1. Over(j) /\ UNCHANGED logins /\ (jar' = jar \/ jar' = SetName(j))
  BY DEF LibraryLoads
<1>2. Apart(j) /\ wire'[j] = NoRequest /\ ~OnWire(j)'
  BY <1>1, EndApart
<1>3. OwnTypes'
  BY
     DEF LibraryLoads, fixed, document, OwnTypes, Doc, Trigger, Chip, Verdict,
         Submission, NoJob, Answer, At, Busy
<1>4. Wired'
  BY <1>2, PageAssumption
     DEF LibraryLoads, fixed, document, Wired, OnWire, NoRequest, OwnTypes, NoJob,
         Submission, At, Busy, Apart
<1>5. Attended'
  BY <1>2
     DEF LibraryLoads, fixed, document, Attended, NameKept, world, OwnTypes, NoJob, Busy,
         At, Apart
<1>6. Credited'
  BY <1>2, PageAssumption
     DEF LibraryLoads, fixed, document, Credited, UserID, OwnTypes, NoJob, Submission,
         Busy, At, Apart
<1>7. AcceptedIsCredited'
  BY DEF LibraryLoads, fixed, document, AcceptedIsCredited, OwnTypes
<1>8. ProgressFollowsBrowser'
  BY <1>2, ProgressKeeps DEF LibraryLoads, fixed, document, Apart
<1>9. NeverStuck'
  BY
     DEF LibraryLoads, fixed, document, NeverStuck, Of, Busy, OwnTypes, Submission,
         NoJob, At
<1> QED BY <1>2, <1>3, <1>4, <1>5, <1>6, <1>7, <1>8, <1>9 DEF IdInv, Apart

LEMMA LibraryIsNoneKeeps ==
  ASSUME IInv, NEW j \in Job, LibraryIsNone(j)
  PROVE  IInv'
<1> USE DEF IInv, Shown, TypeOK
<1>1. Over(j) /\ UNCHANGED logins /\ (jar' = jar \/ jar' = SetName(j))
  BY DEF LibraryIsNone
<1>2. Apart(j) /\ wire'[j] = NoRequest /\ ~OnWire(j)'
  BY <1>1, EndApart
<1>3. OwnTypes'
  BY
     DEF LibraryIsNone, fixed, document, OwnTypes, Doc, Trigger, Chip, Verdict,
         Submission, NoJob, Answer, At, Busy
<1>4. Wired'
  BY <1>2, PageAssumption
     DEF LibraryIsNone, fixed, document, Wired, OnWire, NoRequest, OwnTypes, NoJob,
         Submission, At, Busy, Apart
<1>5. Attended'
  BY <1>2
     DEF LibraryIsNone, fixed, document, Attended, NameKept, world, OwnTypes, NoJob,
         Busy, At, Apart
<1>6. Credited'
  BY <1>2, PageAssumption
     DEF LibraryIsNone, fixed, document, Credited, UserID, OwnTypes, NoJob, Submission,
         Busy, At, Apart
<1>7. AcceptedIsCredited'
  BY DEF LibraryIsNone, fixed, document, AcceptedIsCredited, OwnTypes
<1>8. ProgressFollowsBrowser'
  BY <1>2, ProgressKeeps DEF LibraryIsNone, fixed, document, Apart
<1>9. NeverStuck'
  BY
     DEF LibraryIsNone, fixed, document, NeverStuck, Of, Busy, OwnTypes, Submission,
         NoJob, At
<1> QED BY <1>2, <1>3, <1>4, <1>5, <1>6, <1>7, <1>8, <1>9 DEF IdInv, Apart

LEMMA LibraryFailsKeeps ==
  ASSUME IInv, NEW j \in Job, LibraryFails(j)
  PROVE  IInv'
<1> USE DEF IInv, Shown, TypeOK
<1>1. Over(j) /\ UNCHANGED logins /\ (jar' = jar \/ jar' = SetName(j))
  BY DEF LibraryFails
<1>2. Apart(j) /\ wire'[j] = NoRequest /\ ~OnWire(j)'
  BY <1>1, EndApart
<1>3. OwnTypes'
  BY
     DEF LibraryFails, Show, fixed, document, OwnTypes, Doc, Trigger, Chip, Verdict,
         Submission, NoJob, Answer, At, Busy
<1>4. Wired'
  BY <1>2, PageAssumption
     DEF LibraryFails, Show, fixed, document, Wired, OnWire, NoRequest, OwnTypes, NoJob,
         Submission, At, Busy, Apart
<1>5. Attended'
  BY <1>2
     DEF LibraryFails, Show, fixed, document, Attended, NameKept, world, OwnTypes, NoJob,
         Busy, At, Apart
<1>6. Credited'
  BY <1>2, PageAssumption
     DEF LibraryFails, Show, fixed, document, Credited, UserID, OwnTypes, NoJob,
         Submission, Busy, At, Apart
<1>7. AcceptedIsCredited'
  BY DEF LibraryFails, Show, fixed, document, AcceptedIsCredited, OwnTypes
<1>8. ProgressFollowsBrowser'
  BY <1>2, ProgressKeeps DEF LibraryFails, Show, fixed, document, Apart
<1>9. NeverStuck'
  BY
     DEF LibraryFails, Show, fixed, document, NeverStuck, Of, Busy, OwnTypes, Submission,
         NoJob, At
<1> QED BY <1>2, <1>3, <1>4, <1>5, <1>6, <1>7, <1>8, <1>9 DEF IdInv, Apart

LEMMA CapturedKeeps ==
  ASSUME IInv, NEW j \in Job, Captured(j)
  PROVE  IInv'
<1> USE DEF IInv, Shown, TypeOK
<1>1. Send(j, "attempt") /\ UNCHANGED logins /\ "attempt" \in Kind
  BY DEF Captured, Kind
<1>2. Apart(j) /\ wire'[j].for = "attempt" /\ OnWire(j)' /\ UNCHANGED jar
  BY <1>1, SendApart
<1>3. OwnTypes'
  <2>1. job[j] \in Submission /\ job[j].page \in Page
    BY DEF Captured, At, Busy, OwnTypes, Submission
  <2>2. job' = [job EXCEPT ![j] = [job[j] EXCEPT !.at = "posted", !.shot = looks[job[j].page]]]
    BY DEF Captured, OwnTypes
  <2>3. [job[j] EXCEPT !.at = "posted", !.shot = looks[job[j].page]] \in Submission
    BY <2>1 DEF Submission, OwnTypes
  <2> QED BY <2>1, <2>2, <2>3 DEF Captured, Show, fixed, document, OwnTypes, Chip
<1>4. Wired'
  BY <1>2, PageAssumption, SMTT(30)
     DEF Captured, Show, fixed, document, Wired, OnWire, NoRequest, OwnTypes, NoJob,
         Submission, At, Busy, Apart
<1>5. Attended'
  BY <1>2
     DEF Captured, Show, fixed, document, Attended, NameKept, world, OwnTypes, NoJob,
         Busy, At, Apart
<1>6. Credited'
  BY <1>2, PageAssumption
     DEF Captured, Show, fixed, document, Credited, UserID, OwnTypes, NoJob, Submission,
         Busy, At, Apart
<1>7. AcceptedIsCredited'
  BY DEF Captured, Show, fixed, document, AcceptedIsCredited, OwnTypes
<1>8. ProgressFollowsBrowser'
  BY <1>2, ProgressKeeps DEF Captured, Show, fixed, document, Apart
<1>9. NeverStuck'
  <2>1. job[j] \in Submission /\ job[j].page \in Page
    BY DEF Captured, At, Busy, OwnTypes, Submission
  <2>2. job' = [job EXCEPT ![j] = [job[j] EXCEPT !.at = "posted", !.shot = looks[job[j].page]]]
    BY DEF Captured, OwnTypes
  <2>3. [job[j] EXCEPT !.at = "posted", !.shot = looks[job[j].page]] \in Submission
    BY <2>1 DEF Submission, OwnTypes
  <2>4. /\ job'[j].page = job[j].page /\ job'[j].live = job[j].live
        /\ \A x \in Job : x # j => job'[x] = job[x]
        /\ Busy(j)'
    BY <2>1, <2>2, <2>3 DEF OwnTypes, Submission, Busy, NoJob
  <2>5. /\ UNCHANGED faulty /\ chip' = [chip EXCEPT ![job[j].page] = "submitting"]
        /\ job[j].live
    BY DEF Captured, Show, fixed, At
  <2>6. \A p \in Page : Of(p) # {} => Of(p)' # {}
    BY <2>4 DEF Of, Busy
  <2>7. \A p \in Page : p = job[j].page => j \in Of(p)'
    BY <2>4, <2>5 DEF Of
  <2>8. \A p \in Page : p # job[j].page => chip'[p] = chip[p]
    BY <2>1, <2>5 DEF OwnTypes
  <2>9. \A p \in Page : p = job[j].page => Of(p)' # {}
    BY <2>7
  <2> QED BY <2>5, <2>6, <2>8, <2>9 DEF NeverStuck
<1> QED BY <1>2, <1>3, <1>4, <1>5, <1>6, <1>7, <1>8, <1>9 DEF IdInv, Apart

LEMMA CaptureFailsKeeps ==
  ASSUME IInv, NEW j \in Job, CaptureFails(j)
  PROVE  IInv'
<1> USE DEF IInv, Shown, TypeOK
<1>1. UNCHANGED identity
  BY DEF CaptureFails
<1>2. IdInv' /\ NameKept /\ UNCHANGED <<wire, jar>>
  BY <1>1, StillApart DEF identity
<1>3. OwnTypes'
  BY
     DEF CaptureFails, Show, fixed, document, identity, OwnTypes, Doc, Trigger, Chip,
         Verdict, Submission, NoJob, Answer, At, Busy
<1>4. Wired'
  BY <1>2, PageAssumption
     DEF CaptureFails, Show, fixed, document, identity, Wired, OnWire, NoRequest,
         OwnTypes, NoJob, Submission, At, Busy
<1>5. Attended'
  BY <1>2
     DEF CaptureFails, Show, fixed, document, identity, Attended, NameKept, world,
         OwnTypes, NoJob, Busy, At
<1>6. Credited'
  BY <1>2, PageAssumption
     DEF CaptureFails, Show, fixed, document, identity, Credited, UserID, OwnTypes,
         NoJob, Submission, Busy, At
<1>7. AcceptedIsCredited'
  BY DEF CaptureFails, Show, fixed, document, identity, AcceptedIsCredited, OwnTypes
<1>8. ProgressFollowsBrowser'
  BY <1>2, ProgressKeeps DEF CaptureFails, Show, fixed, document, identity
<1>9. NeverStuck'
  BY
     DEF CaptureFails, Show, fixed, document, identity, NeverStuck, Of, Busy, OwnTypes,
         Submission, NoJob, At
<1> QED BY <1>2, <1>3, <1>4, <1>5, <1>6, <1>7, <1>8, <1>9 DEF IdInv

LEMMA PostFailsKeeps ==
  ASSUME IInv, NEW j \in Job, PostFails(j)
  PROVE  IInv'
<1> USE DEF IInv, Shown, TypeOK
<1>1. Over(j) /\ UNCHANGED logins /\ (jar' = jar \/ jar' = SetName(j))
  BY DEF PostFails
<1>2. Apart(j) /\ wire'[j] = NoRequest /\ ~OnWire(j)'
  BY <1>1, EndApart
<1>3. OwnTypes'
  BY
     DEF PostFails, Show, fixed, document, OwnTypes, Doc, Trigger, Chip, Verdict,
         Submission, NoJob, Answer, At, Busy
<1>4. Wired'
  BY <1>2, PageAssumption
     DEF PostFails, Show, fixed, document, Wired, OnWire, NoRequest, OwnTypes, NoJob,
         Submission, At, Busy, Apart
<1>5. Attended'
  BY <1>2
     DEF PostFails, Show, fixed, document, Attended, NameKept, world, OwnTypes, NoJob,
         Busy, At, Apart
<1>6. Credited'
  BY <1>2, PageAssumption
     DEF PostFails, Show, fixed, document, Credited, UserID, OwnTypes, NoJob, Submission,
         Busy, At, Apart
<1>7. AcceptedIsCredited'
  BY DEF PostFails, Show, fixed, document, AcceptedIsCredited, OwnTypes
<1>8. ProgressFollowsBrowser'
  BY <1>2, ProgressKeeps DEF PostFails, Show, fixed, document, Apart
<1>9. NeverStuck'
  BY
     DEF PostFails, Show, fixed, document, NeverStuck, Of, Busy, OwnTypes, Submission,
         NoJob, At
<1> QED BY <1>2, <1>3, <1>4, <1>5, <1>6, <1>7, <1>8, <1>9 DEF IdInv, Apart

LEMMA AnsweredKeeps ==
  ASSUME IInv, NEW j \in Job, Answered(j)
  PROVE  IInv'
<1> USE DEF IInv, Shown, TypeOK
<1>1. Over(j) /\ UNCHANGED logins /\ (jar' = jar \/ jar' = SetName(j))
  BY DEF Answered
<1>2. Apart(j) /\ wire'[j] = NoRequest /\ ~OnWire(j)'
  BY <1>1, EndApart
<1>3. OwnTypes'
  <2>1. job[j] \in Submission /\ wire[j].cookies.session \in Account \union {None}
    BY PageAssumption, RequestOnWire
       DEF Answered, Busy, OwnTypes, Wired, OnWire, NoRequest, Request, Cookies
  <2>2. job[j].page \in Page /\ Told(job[j].answer) \in Verdict
    BY <2>1 DEF Submission, Answer, Told, Verdict
  <2> QED BY <2>1, <2>2 DEF Answered, Show, fixed, document, OwnTypes, Chip
<1>4. Wired'
  BY <1>2, PageAssumption
     DEF Answered, Show, Told, fixed, document, Wired, OnWire, NoRequest, OwnTypes,
         NoJob, Submission, At, Busy, Apart
<1>5. Attended'
  BY <1>2
     DEF Answered, Show, Told, fixed, document, Attended, NameKept, world, OwnTypes,
         NoJob, Busy, At, Apart
<1>6. Credited'
  BY <1>2, PageAssumption
     DEF Answered, Show, Told, fixed, document, Credited, UserID, OwnTypes, NoJob,
         Submission, Busy, At, Apart
<1>7. AcceptedIsCredited'
  <2>1. job[j] \in Submission /\ job[j].page \in Page
    BY DEF Answered, Busy, OwnTypes, Submission
  <2>2. UNCHANGED solves /\ solves \subseteq Page \X (Name \union Account)
    BY DEF Answered, OwnTypes
  <2>3. CASE ~job[j].live
    BY <2>2, <2>3 DEF Answered, AcceptedIsCredited
  <2>4. CASE job[j].live
    <3>1. /\ chip' = [chip EXCEPT ![job[j].page] = Told(job[j].answer)]
          /\ account' = [account EXCEPT ![job[j].page] = wire[j].cookies.session]
      BY <2>4 DEF Answered, Show
    <3>2. Told(job[j].answer) = "accepted" => job[j].answer = "correct"
      BY <2>1 DEF Told, Submission, Answer
    <3>3. job[j].answer = "correct" => <<job[j].page, UserID(j)>> \in solves
      BY DEF Answered, Credited
    <3>4. wire[j].cookies.session # None => UserID(j) = wire[j].cookies.session
      BY DEF UserID
    <3>5. UserID(j) \in Name \union Account \/ job[j].answer # "correct"
      BY <2>2, <3>3
    <3> QED BY <2>1, <2>2, <3>1, <3>2, <3>3, <3>4, <3>5 DEF AcceptedIsCredited, OwnTypes
  <2> QED BY <2>3, <2>4
<1>8. ProgressFollowsBrowser'
  BY <1>2, ProgressKeeps DEF Answered, Show, Told, fixed, document, Apart
<1>9. NeverStuck'
  <2>1. job[j] \in Submission /\ job[j].page \in Page
    BY DEF Answered, Busy, OwnTypes, Submission
  <2>2. Told(job[j].answer) \in Verdict
    BY <2>1 DEF Submission, Answer, Told, Verdict
  <2>3. \A p \in Page : j \notin Of(p) /\ Of(p) # {} => Of(p)' # {}
    BY DEF Answered, Of, Busy, OwnTypes
  <2>4. ~job[j].live => \A p \in Page : j \notin Of(p)
    BY DEF Of
  <2>5. \A p \in Page : p # job[j].page => j \notin Of(p)
    BY DEF Of
  <2> QED BY <2>1, <2>2, <2>3, <2>4, <2>5
          DEF NeverStuck, Answered, Show, fixed, OwnTypes, Verdict
<1> QED BY <1>2, <1>3, <1>4, <1>5, <1>6, <1>7, <1>8, <1>9 DEF IdInv, Apart

LEMMA SubmitKeeps ==
  ASSUME IInv, NEW p \in Page, Submit(p), trigger[p] # "none",
         trigger' \in [Page -> Trigger],
         \A q \in Page : trigger'[q] # "none" => trigger[q] # "none"
  PROVE  IInv'
<1> USE DEF IInv, Shown, TypeOK
<1>1. PICK j \in Job :
        /\ ~Busy(j)
        /\ chip' = [chip EXCEPT ![p] = "capturing"]
        /\ job' = [job EXCEPT ![j] =
             [page |-> p, at |-> IF lib[p] THEN "capture" ELSE "library",
              shot |-> FALSE, answer |-> "unknown", live |-> TRUE]]
        /\ IF lib[p] THEN UNCHANGED <<world, jar, wire, raced>> ELSE Send(j, "library")
        /\ UNCHANGED <<logins, fixed, doc, looks, script, lib, solves, account>>
  BY DEF Submit, Show
<1>2. /\ IdInv' /\ NameKept /\ UNCHANGED jar
      /\ \A x \in Page \union Job : x # j => wire'[x] = wire[x]
      /\ IF lib[p] THEN wire'[j] = wire[j] ELSE wire'[j].for = "library"
  <2>1. CASE lib[p]
    <3>1. UNCHANGED identity
      BY <1>1, <2>1 DEF identity
    <3> QED BY <2>1, <3>1, StillApart DEF identity
  <2>2. CASE ~lib[p]
    <3>1. Send(j, "library") /\ UNCHANGED logins /\ "library" \in Kind
      BY <1>1, <2>2 DEF Kind
    <3> QED BY <2>2, <3>1, SendApart DEF Apart
  <2> QED BY <2>1, <2>2
<1>3. /\ job'[j] \in Submission /\ job'[j].at = (IF lib[p] THEN "capture" ELSE "library")
      /\ job'[j].page = p /\ job'[j].live
      /\ \A x \in Job : x # j => job'[x] = job[x]
      /\ job' \in [Job -> Submission \union {NoJob}]
  BY <1>1 DEF OwnTypes, Submission, Answer
<1>4. OwnTypes'
  BY <1>1, <1>3 DEF OwnTypes, fixed, Chip
<1>5. Wired'
  BY <1>1, <1>2, <1>3, PageAssumption DEF Wired, OnWire, Busy, NoJob, NoRequest
<1>6. Attended'
  BY <1>1, <1>2, <1>3 DEF Attended, NameKept, world, Busy
<1>7. Credited'
  BY <1>1, <1>2, <1>3 DEF Credited, UserID, Busy
<1>8. AcceptedIsCredited'
  BY <1>1 DEF AcceptedIsCredited, OwnTypes
<1>9. ProgressFollowsBrowser'
  BY <1>1, <1>2, ProgressKeeps
<1>10. NeverStuck'
  <2>1. j \in Of(p)'
    BY <1>3 DEF Of, Busy, Submission, NoJob
  <2>2. \A q \in Page : Of(q) # {} => Of(q)' # {}
    BY <1>1, <1>3 DEF Of, Busy
  <2>3. UNCHANGED faulty /\ \A q \in Page : q # p => chip'[q] = chip[q]
    BY <1>1 DEF fixed, OwnTypes
  <2>4. Of(p)' # {}
    BY <2>1
  <2> QED BY <2>2, <2>3, <2>4 DEF NeverStuck
<1> QED BY <1>2, <1>4, <1>5, <1>6, <1>7, <1>8, <1>9, <1>10 DEF IdInv

LEMMA ClickKeeps ==
  ASSUME IInv, NEW p \in Page, Timeout(p) \/ Click(p)
  PROVE  IInv'
<1>1. /\ Submit(p) /\ trigger[p] # "none"
      /\ trigger' = trigger \/ trigger' = [trigger EXCEPT ![p] = "done"]
  BY DEF Timeout, Click
<1>2. trigger \in [Page -> Trigger]
  BY DEF IInv, TypeOK, OwnTypes
<1> QED BY <1>1, <1>2, SubmitKeeps DEF Trigger

LEMMA GradeKeeps ==
  ASSUME IInv, NEW j \in Job, Grade(j)
  PROVE  IInv'
<1> USE DEF IInv, Shown, TypeOK
<1> DEFINE p == job[j].page
           answer == IF setup[p].hash # "known" THEN "unknown"
                     ELSE IF job[j].shot THEN "correct" ELSE "incorrect"
           graded == [job[j] EXCEPT !.at = "graded", !.answer = answer]
<1>1. /\ UNCHANGED identity /\ UNCHANGED <<fixed, document, lib, chip, account>>
      /\ Busy(j) /\ job[j].at = "posted"
      /\ job' = [job EXCEPT ![j] = graded]
      /\ answer = "correct" => solves' = solves \union {<<p, UserID(j)>>}
      /\ answer # "correct" => solves' = solves
  BY DEF Grade, OwnTypes
<1>2. IdInv' /\ NameKept /\ UNCHANGED <<wire, jar>>
  BY <1>1, StillApart DEF identity
<1>3. /\ job[j] \in Submission /\ p \in Page
      /\ graded \in Submission /\ graded.page = p /\ graded.live = job[j].live
      /\ graded.at = "graded" /\ graded.answer = answer
  <2>1. job[j] \in Submission
    BY <1>1 DEF OwnTypes, Busy
  <2> QED BY <2>1 DEF Submission, Answer
<1>4. /\ wire[j] \in Request /\ UserID(j) \in Name \union Account
      /\ UserID(j) \in Account \/ UserID(j) = wire[j].name
  <2>1. j \in Sender /\ OnWire(j)
    BY <1>1, PageAssumption DEF Wired, OnWire, NoRequest
  <2>2. wire[j] \in Request
    BY <2>1, RequestOnWire
  <2> QED BY <2>2 DEF UserID, Request, Cookies
<1>5. /\ solves \subseteq solves'
      /\ solves' \subseteq Page \X (Name \union Account)
  BY <1>1, <1>3, <1>4 DEF OwnTypes
<1>6. /\ job'[j] = graded /\ \A x \in Job : x # j => job'[x] = job[x]
      /\ job' \in [Job -> Submission \union {NoJob}]
  BY <1>1, <1>3 DEF OwnTypes
<1> HIDE DEF p, answer, graded
<1>7. OwnTypes'
  BY <1>1, <1>5, <1>6 DEF OwnTypes, fixed, document
<1>8. Wired'
  BY <1>1, <1>2, <1>3, <1>6 DEF Wired, OnWire, document
<1>9. Attended'
  BY <1>1, <1>2, <1>6 DEF Attended, Busy, identity, world, document
<1>10. Credited'
  <2>1. UserID(j)' = UserID(j) /\ \A x \in Job : UserID(x)' = UserID(x)
    BY <1>2 DEF UserID
  <2> QED BY <1>1, <1>3, <1>5, <1>6, <2>1 DEF Credited, Busy
<1>11. AcceptedIsCredited'
  BY <1>1, <1>5 DEF AcceptedIsCredited
<1>12. ProgressFollowsBrowser'
  <2> SUFFICES ASSUME sameSite, ~raced, NEW s \in solves'
               PROVE  s[2] \in Account \union {jar.name}
    BY <1>1 DEF ProgressFollowsBrowser, identity, world
  <2>1. CASE s \in solves
    BY <2>1 DEF ProgressFollowsBrowser
  <2>2. CASE s \notin solves
    <3>1. s[2] = UserID(j)
      BY <1>1, <2>2
    <3>2. jar.name # None /\ j \in Sender /\ OnWire(j)
      BY <1>1, PageAssumption DEF Attended, Wired, OnWire, NoRequest
    <3>3. wire[j].name = jar.name
      BY <3>2 DEF IdInv, OneName
    <3> QED BY <1>4, <3>1, <3>3
  <2> QED BY <2>1, <2>2
<1>13. NeverStuck'
  <2>1. \A q \in Page : Of(q) # {} => Of(q)' # {}
    <3>1. job'[j].page = job[j].page /\ job'[j].live = job[j].live /\ Busy(j)'
      BY <1>3, <1>6 DEF p, Busy, NoJob
    <3> QED BY <1>6, <3>1 DEF Of, Busy
  <2> QED BY <1>1, <2>1 DEF NeverStuck, fixed
<1> QED BY <1>2, <1>7, <1>8, <1>9, <1>10, <1>11, <1>12, <1>13 DEF IdInv

LEMMA LeaveKeeps ==
  ASSUME IInv, NEW p \in Page, Leave(p)
  PROVE  IInv'
<1> USE DEF IInv, Shown, TypeOK
<1>1. /\ UNCHANGED <<world, jar, raced, logins, solves>>
      /\ p \in Sender /\ p \notin Tab
  BY PageAssumption DEF Leave
<1>2. \A s \in Sender : wire'[s] \in {wire[s], NoRequest}
  BY DEF Leave
<1>3. \A t \in Tab : wire'[t] = wire[t]
  BY <1>1, SenderAssumption, PageAssumption DEF Leave, Of
<1>4. Unnamed' /\ OneName' /\ NameKept
  BY <1>1, <1>2, EndKeepsNames
<1>5. Returning' /\ RefusedOnlyIfSpoiled'
  BY <1>1, <1>3, OthersKeepLogins
<1>6. IdentityTypeOK'
  BY <1>1 DEF Leave, IdentityTypeOK, world, logins
<1>7. \A j \in Job :
        \/ j \notin Of(p) /\ job'[j] = job[j] /\ wire'[j] = wire[j]
        \/ /\ j \in Of(p) /\ job[j].at \in {"posted", "graded"}
           /\ job'[j] = [job[j] EXCEPT !.live = FALSE] /\ wire'[j] = wire[j]
        \/ j \in Of(p) /\ job'[j] = NoJob /\ ~OnWire(j)'
  BY PageAssumption DEF Leave, Wired, OnWire
<1>8. \A j \in Job : j \in Of(p) => job[j] \in Submission
  BY DEF Of, Busy, OwnTypes
<1>9. OwnTypes'
  <2>1. job' \in [Job -> Submission \union {NoJob}]
    BY <1>7, <1>8, ZenonT(60) DEF Leave, OwnTypes, Submission
  <2> QED BY <2>1 DEF Leave, OwnTypes, fixed, Doc, Trigger, Chip
<1>10. Wired'
  <2>1. ASSUME NEW q \in Page
        PROVE  IF script'[q] = "asked" THEN wire'[q].for = "script" ELSE ~OnWire(q)'
    BY PageAssumption DEF Leave, Wired, OnWire, OwnTypes, Of
  <2>2. ASSUME NEW j \in Job
        PROVE  CASE job'[j].at = "library" -> wire'[j].for = "library"
                 [] job'[j].at \in {"posted", "graded"} -> wire'[j].for = "attempt"
                 [] OTHER -> ~OnWire(j)'
    <3>1. CASE j \notin Of(p)
      BY <1>7, <3>1 DEF Wired, OnWire
    <3>2. CASE j \in Of(p) /\ job'[j] # NoJob
      <4>1. /\ job[j].at \in {"posted", "graded"} /\ wire'[j] = wire[j]
            /\ job'[j].at = job[j].at
        BY <1>7, <1>8, <3>2 DEF Submission
      <4> QED BY <4>1 DEF Wired
    <3>3. CASE j \in Of(p) /\ job'[j] = NoJob
      <4>1. ~OnWire(j)'
        BY <1>7, <1>8, <3>3 DEF Submission, NoJob
      <4> QED BY <3>3, <4>1 DEF NoJob
    <3> QED BY <3>1, <3>2, <3>3
  <2> QED BY <2>1, <2>2 DEF Wired
<1>11. Attended'
  <2>1. \A j \in Job : Busy(j)' => Busy(j)
    BY <1>7 DEF Of, Busy
  <2> QED BY <1>1, <2>1 DEF Leave, Attended, OwnTypes, world
<1>12. Credited'
  BY <1>1, <1>7, <1>8, ZenonT(60) DEF Credited, UserID, Of, Busy, Submission, NoJob
<1>13. AcceptedIsCredited'
  BY <1>1 DEF Leave, AcceptedIsCredited, OwnTypes
<1>14. ProgressFollowsBrowser'
  BY <1>1, <1>4, ProgressKeeps
<1>15. NeverStuck'
  <2>1. \A q \in Page : q # p /\ Of(q) # {} => Of(q)' # {}
    BY <1>7 DEF Of, Busy
  <2> QED BY <2>1 DEF Leave, NeverStuck, OwnTypes, fixed
<1> QED BY <1>4, <1>5, <1>6, <1>9, <1>10, <1>11, <1>12, <1>13, <1>14, <1>15 DEF IdInv

LEMMA IdentityKeeps ==
  ASSUME IInv, IdentityNext, UNCHANGED proofs
  PROVE  IInv'
<1> USE DEF IInv, Shown, TypeOK
<1>1. /\ IdInv' /\ NameKept /\ UNCHANGED solves
      /\ \A x \in Page \union Job : wire'[x] = wire[x]
  <2>1. ASSUME NEW t \in Tab, TabStep(t)
        PROVE  IdInv' /\ NameKept /\ \A x \in Page \union Job : wire'[x] = wire[x]
    <3>1. TabKept(t)
      BY <2>1, TabKeeps
    <3> QED BY <3>1, PageAssumption DEF TabKept
  <2>2. ASSUME StateExpires \/ SessionExpires
        PROVE  IdInv' /\ NameKept /\ UNCHANGED wire
    BY <2>2, ExpiryKeeps
  <2> QED BY <2>1, <2>2 DEF IdentityNext
<1>2. OwnTypes' /\ Wired' /\ NeverStuck'
  BY <1>1 DEF OwnTypes, Wired, NeverStuck, OnWire, Of, Busy, proofs, fixed, document
<1>3. Attended'
  BY <1>1 DEF Attended, NameKept, Busy, world, proofs, document
<1>4. Credited' /\ AcceptedIsCredited'
  BY <1>1 DEF Credited, AcceptedIsCredited, UserID, Busy, proofs
<1>5. ProgressFollowsBrowser'
  BY <1>1, ProgressKeeps
<1> QED BY <1>1, <1>2, <1>3, <1>4, <1>5 DEF IdInv

LEMMA StutterKeeps ==
  ASSUME IInv, UNCHANGED vars
  PROVE  IInv'
<1> USE DEF IInv, Shown, TypeOK
<1>1. UNCHANGED identity /\ UNCHANGED <<proofs, solves>> /\ UNCHANGED <<wire, jar>>
  BY DEF vars, identity
<1>2. IdInv' /\ NameKept
  BY <1>1, StillApart
<1>3. OwnTypes' /\ Wired' /\ NeverStuck'
  BY <1>1 DEF OwnTypes, Wired, NeverStuck, OnWire, Of, Busy, proofs, fixed, document
<1>4. Attended'
  BY <1>1, <1>2 DEF Attended, NameKept, Busy, world, proofs, document
<1>5. Credited' /\ AcceptedIsCredited'
  BY <1>1 DEF Credited, AcceptedIsCredited, UserID, Busy, proofs
<1>6. ProgressFollowsBrowser'
  BY <1>1, <1>2, ProgressKeeps
<1> QED BY <1>2, <1>3, <1>4, <1>5, <1>6 DEF IdInv

-----------------------------------------------------------------------------
LEMMA InitInv == Init => IInv
<1> SUFFICES ASSUME Init PROVE IInv
  OBVIOUS
<1>1. PICK x \in Scenario : IdentityInit(x) /\ setup = x.setup /\ faulty = x.faulty
  BY DEF Init
<1>2. IdInv
  BY <1>1, IdInit
<1>3. OwnTypes
  BY <1>1, SetupAssumption
     DEF Init, IdentityInit, OwnTypes, Doc, Trigger, Chip, NoJob
<1>4. Wired
  BY <1>1, PageAssumption DEF Init, IdentityInit, Wired, OnWire, NoJob
<1>5. Attended /\ Credited
  BY <1>1 DEF Init, Attended, Credited, Busy
<1>6. Shown
  BY <1>1
     DEF Init, IdentityInit, Shown, AcceptedIsCredited, ProgressFollowsBrowser,
         NeverStuck
<1> QED BY <1>2, <1>3, <1>4, <1>5, <1>6 DEF IInv, TypeOK, IdInv

LEMMA InvStep == IInv /\ [Next]_vars => IInv'
<1> SUFFICES ASSUME IInv, [Next]_vars PROVE IInv'
  OBVIOUS
<1>1. CASE IdentityNext /\ UNCHANGED proofs
  BY <1>1, IdentityKeeps
<1>2. ASSUME NEW p \in Page, PageStep(p) PROVE IInv'
  BY <1>2, LoadKeeps, LeaveKeeps, ChangeKeeps, LoaderKeeps, ScriptFailsKeeps, RunKeeps,
     LoadedKeeps, ClickKeeps DEF PageStep
<1>3. ASSUME NEW j \in Job, JobStep(j) PROVE IInv'
  BY <1>3, LibraryLoadsKeeps, LibraryIsNoneKeeps, LibraryFailsKeeps, CapturedKeeps,
     CaptureFailsKeeps, GradeKeeps, AnsweredKeeps, PostFailsKeeps DEF JobStep
<1>4. CASE UNCHANGED vars
  BY <1>4, StutterKeeps
<1> QED BY <1>1, <1>2, <1>3, <1>4 DEF Next

-----------------------------------------------------------------------------
\* The strengthening is an invariant.
THEOREM Invariant == Spec => []IInv
<1> QED BY InitInv, InvStep, PTL DEF Spec

\* Every variable keeps its type, and no stage of a page or a submission is
\* without the request it waits for.
THEOREM TypeCorrect == Spec => []TypeOK
<1>1. IInv => TypeOK
  BY DEF IInv
<1> QED BY <1>1, Invariant, PTL

\* handleCallback (auth.go:158-169) refuses nobody whose state cookie no other
\* login or expiry has taken, with any number of tabs.
THEOREM OnlySpoiledAreRefused == Spec => []RefusedOnlyIfSpoiled
<1>1. IInv => RefusedOnlyIfSpoiled
  BY DEF IInv, IdInv
<1> QED BY <1>1, Invariant, PTL

\* What "proof accepted" (exercise-verify.js:69) says has happened, for the
\* account that was logged in when the proof was posted (http.go:106).
THEOREM AcceptedProofsAreCredited == Spec => []AcceptedIsCredited
<1>1. IInv => AcceptedIsCredited
  BY DEF IInv, Shown
<1> QED BY <1>1, Invariant, PTL

\* One browser, one anonymous name (anon.go:45-60), unless its first requests
\* ran in parallel.
THEOREM SolvesFollowBrowser == Spec => []ProgressFollowsBrowser
<1>1. IInv => ProgressFollowsBrowser
  BY DEF IInv, Shown
<1> QED BY <1>1, Invariant, PTL

\* However many submissions of a page overlap, the chip (exercise-verify.js:28-32)
\* is left on "capturing" or "submitting" by none of them.
THEOREM ChipIsNeverStuck == Spec => []NeverStuck
<1>1. IInv => NeverStuck
  BY DEF IInv, Shown
<1> QED BY <1>1, Invariant, PTL
=============================================================================
