----------------------------- MODULE LessonPage -----------------------------
(***************************************************************************)
(* The console of a rendered lesson page (internal/content/layout.go): one *)
(* tab with a panel per terminal, the pods behind them and the names the   *)
(* tab's sessionStorage keeps across reloads.                              *)
(*                                                                         *)
(* The page runs one callback at a time; what interleaves are the pieces   *)
(* of its async functions between two awaits (start, stop, keepalive,      *)
(* reattach, a socket's onclose), timers, clicks, and the world: sockets   *)
(* that drop, pods that end, calls that fail, reloads.                     *)
(***************************************************************************)
EXTENDS Naturals, FiniteSets

CONSTANTS
  MaxTerms,   \* bound: terminals of a lesson (0-6 in the front matter)
  MaxPod,     \* bound: pods booted, numbered in that order
  MaxSock,    \* bound: chains of a socket and its reconnects at once
  Ping,       \* keepalives that may be under way at once
  Stopper,    \* clicks on Stop that may be under way at once
  Tries,      \* reconnects in a row without an open socket (5)
  Scenario,   \* the sets of things an environment may be capable of
  MaxDrop,    \* bound: sockets lost by the network
  MaxReload,  \* bound: reloads of the page
  None        \* no pod, no socket, nothing saved

Pod == 1..MaxPod
Sock == 1..MaxSock
Ids == Ping \union Stopper \union {"reattach"}

\* bootfail: POST /sessions fails; callfail: another call fails; drop: the
\* network loses sockets; die: a pod ends or is reaped; noshell: pods the bridge starts no shell in;
\* midway: a reload while Start or Stop is at work; eager: Start is clicked
\* while reattach still looks; peek: the tab is hidden and shown again while
\* Start is at work; slow: another call outlasts a boot requested after it.
Capability ==
  {"bootfail", "callfail", "drop", "die", "noshell", "midway", "eager", "peek", "slow"}

ASSUME BoundAssumption ==
  /\ MaxTerms \in Nat \ {0}
  /\ MaxPod \in Nat
  /\ MaxSock \in Nat
  /\ Tries \in Nat
  /\ Scenario \subseteq SUBSET Capability
  /\ MaxDrop \in Nat
  /\ MaxReload \in Nat

ASSUME NameAssumption ==
  /\ None \notin Pod \union Sock
  /\ \A S \in SUBSET (1..MaxTerms) : None \notin [S -> Pod \union {None}]
  /\ Ping \intersect Stopper = {}
  /\ "reattach" \notin Ping \union Stopper

VARIABLES
  flags, terms,          \* the environment and the lesson's TERMS, fixed
  cluster,               \* cluster[p]: "new", "live", "ended" (its container), "gone"
  pod, ws,               \* node.pod; node.ws, None also for a socket that is closed
  stopped, retries,      \* node.stopped, node.retries
  sock,                  \* the chains: where, whose node, for which pod
  saved,                 \* sessionStorage: the pods, or None
  up,                    \* Stop is offered and Start is not
  timer,                 \* the keepalive interval is set
  start,                 \* the node start() boots, 0 when it does not run
  stop, ping, look,      \* stop(), keepalive() and reattach() under way
  elder,                 \* those that were when the pending boot was requested
  learned,               \* history: pods whose names the page has had
  drops, reloads

nodeVars == <<pod, ws, stopped, retries>>
buttons == <<up, timer>>
history == <<learned, drops, reloads>>
page == <<nodeVars, sock, saved, buttons>>
world == <<flags, terms, cluster, history>>
vars == <<page, world, start, stop, ping, look, elder>>

-----------------------------------------------------------------------------
Node == 1..terms

Exists(p) == p \in Pod /\ cluster[p] \in {"live", "ended"}
Runs(p) == p \in Pod /\ cluster[p] = "live"

Least(S) == CHOOSE x \in S : \A y \in S : x <= y

NoSock == [st |-> "free", node |-> 0, pod |-> None]
NoStop == [node |-> 0, pod |-> None]
NoPing == [pc |-> "idle", left |-> {}, pod |-> None, all |-> TRUE]
NoLook == [pc |-> "idle", pods |-> None]

\* Functions of the page that have awaited something and are not done.
UnderWay ==
  {k \in Ping : ping[k] # NoPing} \union
  {j \in Stopper : stop[j] # NoStop} \union
  {x \in {"reattach"} : look # NoLook}

Idle(n) == [i \in Node |-> n]

Init ==
  /\ flags \in Scenario
  /\ terms \in 1..MaxTerms
  /\ cluster = [p \in Pod |-> "new"]
  /\ pod = Idle(None) /\ ws = Idle(None)
  /\ stopped = Idle(FALSE) /\ retries = Idle(0)
  /\ sock = [k \in Sock |-> NoSock]
  /\ saved = None
  /\ up = FALSE /\ timer = FALSE
  /\ start = 0
  /\ stop = [j \in Stopper |-> NoStop]
  /\ ping = [k \in Ping |-> NoPing]
  /\ look = NoLook
  /\ elder = {}
  /\ learned = {} /\ drops = 0 /\ reloads = 0

-----------------------------------------------------------------------------
(* Sockets.  One chain is a socket, its onclose and the timer that connects  *)
(* again; connect() on behalf of a boot or a reattach begins another.        *)

Free == {k \in Sock : sock[k].st = "free"}

Connecting(n, p) == [st |-> "connecting", node |-> n, pod |-> p]

\* sock with close() called on the sockets of the nodes in S.
Closing(S) ==
  [k \in Sock |-> IF sock[k].st \in {"connecting", "open"} /\ \E n \in S : ws[n] = k
                    THEN [sock[k] EXCEPT !.st = "closing"] ELSE sock[k]]

Release(k) ==
  /\ sock' = [sock EXCEPT ![k] = NoSock]
  /\ ws' = [n \in Node |-> IF ws[n] = k THEN None ELSE ws[n]]

\* All a socket's own callbacks leave alone.
session == <<flags, terms, cluster, pod, saved, buttons, start, stop, ping,
             look, elder, learned, reloads>>

Opened(k) ==
  /\ sock[k].st = "connecting"
  /\ sock' = [sock EXCEPT ![k].st = "open"]
  /\ retries' = [retries EXCEPT ![sock[k].node] = 0]
  /\ UNCHANGED <<session, ws, stopped, drops>>

\* onclose up to its await.  A count beyond Tries makes no difference.
OnClose(k) ==
  LET n == sock[k].node IN
  IF stopped[n] \/ retries[n] >= Tries
    THEN Release(k) /\ UNCHANGED retries
    ELSE /\ retries' = [retries EXCEPT ![n] = @ + 1]
         /\ sock' = [sock EXCEPT ![k] = [st |-> "asking", node |-> n, pod |-> pod[n]]]
         /\ UNCHANGED ws

Closed(k) ==
  /\ sock[k].st = "closing"
  /\ OnClose(k)
  /\ UNCHANGED <<session, stopped, drops>>

\* The bridge upgrades before it execs: a pod that is gone, or has no shell,
\* opens a socket and loses it.
Lost(k) ==
  /\ sock[k].st \in {"connecting", "open"}
  /\ IF ~Runs(sock[k].pod) \/ "noshell" \in flags
       THEN UNCHANGED drops
       ELSE "drop" \in flags /\ drops < MaxDrop /\ drops' = drops + 1
  /\ OnClose(k)
  /\ UNCHANGED <<session, stopped>>

\* Mutant: whatever the answer says of the pod, the page connects again.
AskedAnyway(k) ==
  /\ sock[k].st = "asking"
  /\ sock' = [sock EXCEPT ![k].st = "timer"]
  /\ UNCHANGED <<session, ws, stopped, retries, drops>>

Asked(k) ==
  /\ sock[k].st = "asking"
  /\ \/ /\ Runs(sock[k].pod)
        /\ sock' = [sock EXCEPT ![k].st = "timer"]
        /\ UNCHANGED ws
     \/ ~Runs(sock[k].pod) /\ Release(k)
     \/ "callfail" \in flags /\ Release(k)
  /\ UNCHANGED <<session, stopped, retries, drops>>

\* Mutant: connects to the pod onclose asked about, not to the node's.
ReconnectToAsked(k) ==
  /\ sock[k].st = "timer"
  /\ LET n == sock[k].node IN
       /\ sock' = [sock EXCEPT ![k] = Connecting(n, sock[k].pod)]
       /\ ws' = [ws EXCEPT ![n] = k]
  /\ UNCHANGED <<session, stopped, retries, drops>>

Reconnect(k) ==
  /\ sock[k].st = "timer"
  /\ LET n == sock[k].node IN
       /\ sock' = [sock EXCEPT ![k] = Connecting(n, pod[n])]
       /\ ws' = [ws EXCEPT ![n] = k]
  /\ UNCHANGED <<session, stopped, retries, drops>>

-----------------------------------------------------------------------------
(* start(), and sessionUp() at its end. *)

\* Mutant: names that are saved are not replaced.
SessionUpSavesOnce ==
  /\ up' = TRUE
  /\ timer' = TRUE
  /\ saved' = IF saved = None THEN pod' ELSE saved

SessionUp ==
  /\ up' = TRUE
  /\ timer' = TRUE
  /\ saved' = pod'

Start ==
  /\ ~up /\ start = 0
  /\ look = NoLook \/ "eager" \in flags
  /\ start' = 1
  /\ elder' = UnderWay
  /\ UNCHANGED <<world, page, stop, ping, look>>

\* POST /sessions answers with the next pod: bootNode goes on, connects, and
\* start() asks for the next terminal's.  A boot takes seconds: unless "slow",
\* whatever was under way when it was requested is done by now.
Booted(p, k) ==
  /\ start # 0
  /\ "slow" \in flags \/ elder = {}
  /\ cluster[p] = "new" /\ \A q \in Pod : cluster[q] = "new" => p <= q
  /\ k \in Free /\ \A l \in Free : k <= l
  /\ cluster' = [cluster EXCEPT ![p] = "live"]
  /\ learned' = learned \union {p}
  /\ pod' = [pod EXCEPT ![start] = p]
  /\ ws' = [ws EXCEPT ![start] = k]
  /\ sock' = [sock EXCEPT ![k] = Connecting(start, p)]
  /\ IF start < terms
       THEN start' = start + 1 /\ elder' = UnderWay /\ UNCHANGED <<saved, buttons>>
       ELSE start' = 0 /\ elder' = {} /\ SessionUp
  /\ UNCHANGED <<flags, terms, stopped, retries, stop, ping, look, drops, reloads>>

BootFails ==
  /\ start # 0
  /\ "bootfail" \in flags
  /\ start' = 0
  /\ elder' = {}
  /\ UNCHANGED <<world, page, stop, ping, look>>

-----------------------------------------------------------------------------
(* stop(): node by node; only a node with a pod awaits its DELETE. *)

\* Mutant: the saved names are cleared first.
StopWalkClearsFirst(j, answered) ==
  LET next == Least({i \in Node : i > answered /\ pod[i] # None} \union {terms + 1})
      over == {i \in Node : answered <= i /\ i < next} IN
  /\ pod' = [i \in Node |-> IF i \in over THEN None ELSE pod[i]]
  /\ retries' = [i \in Node |-> IF i \in over THEN 0 ELSE retries[i]]
  /\ stopped' = [i \in Node |-> i = next \/ (stopped[i] /\ i \notin over)]
  /\ sock' = Closing({i \in Node : answered < i /\ i <= next})
  /\ saved' = None
  /\ stop' = [stop EXCEPT ![j] =
       IF next \in Node THEN [node |-> next, pod |-> pod[next]] ELSE NoStop]
  /\ IF next \in Node
       THEN UNCHANGED <<up, elder>>
       ELSE up' = FALSE /\ elder' = elder \ {j}
  /\ UNCHANGED <<flags, terms, ws, start, ping, look, history>>

\* From the node whose DELETE was answered (0: none yet) to the next await.
StopWalk(j, answered) ==
  LET next == Least({i \in Node : i > answered /\ pod[i] # None} \union {terms + 1})
      over == {i \in Node : answered <= i /\ i < next} IN
  /\ pod' = [i \in Node |-> IF i \in over THEN None ELSE pod[i]]
  /\ retries' = [i \in Node |-> IF i \in over THEN 0 ELSE retries[i]]
  /\ stopped' = [i \in Node |-> i = next \/ (stopped[i] /\ i \notin over)]
  /\ sock' = Closing({i \in Node : answered < i /\ i <= next})
  /\ IF next \in Node
       THEN /\ stop' = [stop EXCEPT ![j] = [node |-> next, pod |-> pod[next]]]
            /\ UNCHANGED <<saved, up, elder>>
       ELSE /\ stop' = [stop EXCEPT ![j] = NoStop]
            /\ saved' = None
            /\ up' = FALSE
            /\ elder' = elder \ {j}
  /\ UNCHANGED <<flags, terms, ws, start, ping, look, history>>

Stop(j) ==
  /\ up
  /\ stop[j] = NoStop
  /\ timer' = FALSE
  /\ StopWalk(j, 0)
  /\ UNCHANGED cluster

DeleteArrives(j) ==
  /\ stop[j] # NoStop
  /\ Exists(stop[j].pod)
  /\ cluster' = [cluster EXCEPT ![stop[j].pod] = "gone"]
  /\ UNCHANGED <<flags, terms, history, page, start, stop, ping, look, elder>>

\* Mutant: an error of the call ends stop().
DeletedOrThrown(j) ==
  /\ stop[j] # NoStop
  /\ \/ ~Exists(stop[j].pod) /\ StopWalk(j, stop[j].node)
     \/ /\ "callfail" \in flags
        /\ stop' = [stop EXCEPT ![j] = NoStop]
        /\ elder' = elder \ {j}
        /\ UNCHANGED <<flags, terms, history, nodeVars, sock, saved, up, start, ping, look>>
  /\ UNCHANGED <<cluster, timer>>

\* The DELETE is answered, or has failed; either way the walk goes on.
Deleted(j) ==
  /\ stop[j] # NoStop
  /\ ~Exists(stop[j].pod) \/ "callfail" \in flags
  /\ StopWalk(j, stop[j].node)
  /\ UNCHANGED <<cluster, timer>>

-----------------------------------------------------------------------------
(* keepalive(): every minute, and when the tab becomes visible again. *)

Keepalive(k) ==
  /\ ping[k] = NoPing
  /\ start = 0 \/ "peek" \in flags
  /\ LET todo == {n \in Node : pod[n] # None /\ ~stopped[n]} IN
       /\ todo # {}
       /\ ping' = [ping EXCEPT ![k] =
            [pc |-> "ping", left |-> todo, pod |-> pod[Least(todo)], all |-> TRUE]]
  /\ UNCHANGED <<world, page, start, stop, look, elder>>

\* Mutant: Stop stays on offer.
expireUIKeepsStop ==
  /\ timer' = FALSE /\ UNCHANGED up
  /\ sock' = Closing(Node)
  /\ pod' = Idle(None) /\ ws' = Idle(None)
  /\ stopped' = Idle(FALSE) /\ retries' = Idle(0)
  /\ saved' = None

expireUI ==
  /\ timer' = FALSE /\ up' = FALSE
  /\ sock' = Closing(Node)
  /\ pod' = Idle(None) /\ ws' = Idle(None)
  /\ stopped' = Idle(FALSE) /\ retries' = Idle(0)
  /\ saved' = None

\* Mutant: the last node alone decides.
CountLast(k, gone) ==
  LET left == ping[k].left \ {Least(ping[k].left)} IN
  IF left # {}
    THEN /\ ping' = [ping EXCEPT ![k] =
              [pc |-> "ping", left |-> left, pod |-> pod[Least(left)], all |-> TRUE]]
         /\ UNCHANGED <<page, elder>>
    ELSE /\ ping' = [ping EXCEPT ![k] = NoPing]
         /\ elder' = elder \ {k}
         /\ IF gone THEN expireUI ELSE UNCHANGED page

\* This node is counted as gone or not; with the last one it is settled.
Count(k, gone) ==
  LET left == ping[k].left \ {Least(ping[k].left)}
      all == ping[k].all /\ gone IN
  /\ IF left # {}
       THEN /\ ping' = [ping EXCEPT ![k] =
                 [pc |-> "ping", left |-> left, pod |-> pod[Least(left)], all |-> all]]
            /\ UNCHANGED elder
       ELSE ping' = [ping EXCEPT ![k] = NoPing] /\ elder' = elder \ {k}
  /\ IF left = {} /\ all
       THEN expireUI
       ELSE UNCHANGED <<nodeVars, sock, saved, buttons>>

\* node.pod is read anew for the second look.
Pinged(k) ==
  /\ ping[k].pc = "ping"
  /\ \/ Exists(ping[k].pod) /\ Count(k, FALSE)
     \/ "callfail" \in flags /\ Count(k, FALSE)
     \/ /\ ~Exists(ping[k].pod)
        /\ ping' = [ping EXCEPT ![k].pc = "check", ![k].pod = pod[Least(ping[k].left)]]
        /\ UNCHANGED <<nodeVars, sock, saved, buttons, elder>>
  /\ UNCHANGED <<world, start, stop, look>>

Checked(k) ==
  /\ ping[k].pc = "check"
  /\ \/ Count(k, ~Exists(ping[k].pod))
     \/ "callfail" \in flags /\ Count(k, FALSE)
  /\ UNCHANGED <<world, start, stop, look>>

-----------------------------------------------------------------------------
(* reattach(), from the names read at load time. *)

Looked ==
  /\ look.pc = "asked"
  /\ \/ /\ \A n \in Node : Runs(look.pods[n])
        /\ look' = [look EXCEPT !.pc = "good"]
     \/ /\ "callfail" \in flags \/ \E n \in Node : ~Runs(look.pods[n])
        /\ look' = [look EXCEPT !.pc = "bad"]
  /\ UNCHANGED <<world, page, start, stop, ping, elder>>

Reattached(f) ==
  /\ look.pc = "good"
  /\ \A n \in Node : f[n] \in Free /\ \A m \in 1..(n - 1) : f[m] < f[n]
  /\ pod' = look.pods
  /\ ws' = f
  /\ sock' = [k \in Sock |->
       IF \E n \in Node : f[n] = k
         THEN LET n == CHOOSE n \in Node : f[n] = k IN Connecting(n, look.pods[n])
         ELSE sock[k]]
  /\ SessionUp
  /\ look' = NoLook
  /\ elder' = elder \ {"reattach"}
  /\ UNCHANGED <<world, stopped, retries, start, stop, ping>>

NotReattached ==
  /\ look.pc = "bad"
  /\ saved' = None
  /\ look' = NoLook
  /\ elder' = elder \ {"reattach"}
  /\ UNCHANGED <<world, nodeVars, sock, buttons, start, stop, ping>>

-----------------------------------------------------------------------------
(* The world. *)

\* Everything but sessionStorage starts afresh.  Of the DELETEs on their way
\* some arrive; the boot of a POST on its way is one the page never hears of.
Reload ==
  /\ reloads < MaxReload
  /\ reloads' = reloads + 1
  /\ "midway" \in flags \/ (start = 0 /\ \A j \in Stopper : stop[j] = NoStop)
  /\ \E D \in SUBSET {stop[j].pod : j \in Stopper} :
       cluster' = [p \in Pod |-> IF p \in D THEN "gone" ELSE cluster[p]]
  /\ pod' = Idle(None) /\ ws' = Idle(None)
  /\ stopped' = Idle(FALSE) /\ retries' = Idle(0)
  /\ sock' = [k \in Sock |-> NoSock]
  /\ up' = FALSE /\ timer' = FALSE
  /\ start' = 0
  /\ stop' = [j \in Stopper |-> NoStop]
  /\ ping' = [k \in Ping |-> NoPing]
  /\ look' = IF saved = None THEN NoLook ELSE [pc |-> "asked", pods |-> saved]
  /\ elder' = {}
  /\ UNCHANGED <<flags, terms, saved, learned, drops>>

Die(p) ==
  /\ "die" \in flags
  /\ Exists(p)
  /\ \E s \in {"ended", "gone"} \ {cluster[p]} : cluster' = [cluster EXCEPT ![p] = s]
  /\ UNCHANGED <<flags, terms, history, page, start, stop, ping, look, elder>>

StopStep(j) == DeleteArrives(j) \/ Deleted(j)
SockStep(k) == Opened(k) \/ Closed(k) \/ Asked(k) \/ Reconnect(k)
PingStep(k) == Pinged(k) \/ Checked(k)
LookStep == Looked \/ NotReattached \/ \E f \in [Node -> Free] : Reattached(f)

Next ==
  \/ \E k \in Sock : SockStep(k) \/ Lost(k) \/ \E p \in Pod : Booted(p, k)
  \/ \E k \in Ping : Keepalive(k) \/ PingStep(k)
  \/ \E j \in Stopper : Stop(j) \/ StopStep(j)
  \/ Start \/ BootFails
  \/ LookStep
  \/ Reload
  \/ \E p \in Pod : Die(p)

Spec == Init /\ [][Next]_vars

\* Calls are answered, timers fire, sockets open or close.
Fairness ==
  /\ \A k \in Sock : WF_vars(SockStep(k))
  /\ \A k \in Ping : WF_vars(PingStep(k))
  /\ \A j \in Stopper : WF_vars(StopStep(j))
  /\ WF_vars(LookStep)

FairSpec == Spec /\ Fairness

-----------------------------------------------------------------------------
TypeOK ==
  /\ flags \in Scenario
  /\ terms \in 1..MaxTerms
  /\ cluster \in [Pod -> {"new", "live", "ended", "gone"}]
  /\ pod \in [Node -> Pod \union {None}]
  /\ ws \in [Node -> Sock \union {None}]
  /\ stopped \in [Node -> BOOLEAN]
  /\ retries \in [Node -> 0..Tries]
  /\ sock \in [Sock -> [st : {"free", "connecting", "open", "closing", "asking", "timer"},
                        node : Node \union {0}, pod : Pod \union {None}]]
  /\ saved = None \/ saved \in [Node -> Pod \union {None}]
  /\ up \in BOOLEAN /\ timer \in BOOLEAN
  /\ start \in Node \union {0}
  /\ stop \in [Stopper -> [node : Node \union {0}, pod : Pod \union {None}]]
  /\ ping \in [Ping -> [pc : {"idle", "ping", "check"}, left : SUBSET Node,
                        pod : Pod \union {None}, all : BOOLEAN]]
  /\ look \in [pc : {"idle", "asked", "good", "bad"},
               pods : {None} \union [Node -> Pod \union {None}]]
  /\ elder \in SUBSET Ids
  /\ learned \in SUBSET Pod
  /\ drops \in 0..MaxDrop /\ reloads \in 0..MaxReload

Stopping == \E j \in Stopper : stop[j] # NoStop

\* While Stop is offered and not clicked, the keepalive interval runs and there
\* is a pod to ping: no interleaving leaves a learner with a session that the
\* idle collector will take from under the page.
UpIsPinged == up /\ ~Stopping => timer /\ \E n \in Node : pod[n] # None

\* While a session is up, what a reload would reattach to is what the panels
\* show.  Not so after a Start that was clicked while reattach still looked and
\* then failed: reattach saved and showed its pods, the boots replaced some.
ScreenIsSaved ==
  "slow" \notin flags /\ ~({"bootfail", "eager"} \subseteq flags) =>
    (up /\ ~Stopping /\ start = 0 => saved = pod)

\* A pod the page booted is in a panel, saved for the next load, or about to be
\* deleted, as long as it runs (layout.go:145-146).
NothingForgotten ==
  \A p \in learned : Runs(p) =>
    \/ \E n \in Node : pod[n] = p
    \/ saved # None /\ \E n \in Node : saved[n] = p
    \/ \E j \in Stopper : stop[j].pod = p

\* The environments in which this holds; a lesson with one terminal needs less.
Tracked ==
  /\ flags \intersect {"callfail", "slow", "eager"} = {}
  /\ terms = 1 \/ flags \intersect {"bootfail", "die", "midway", "peek"} = {}
  => NothingForgotten

\* What the learner types goes to the pod the panel is about, the one its links
\* and its checks are for.
TypedIntoOwnPod ==
  \A n \in Node :
    pod[n] # None /\ ws[n] # None /\ sock[ws[n]].st \in {"connecting", "open"}
      => sock[ws[n]].pod = pod[n] /\ sock[ws[n]].node = n

\* What neither a Stop, a reload nor a later boot is behind takes no running pod
\* from its panel.
KeepsRunningPods ==
  start = 0 /\ reloads' = reloads /\ ~Stopping =>
    \A n \in Node : Runs(pod[n]) /\ cluster'[pod[n]] = "live" => pod'[n] = pod[n]

\* A keepalive resets the console only when the pods in it are gone
\* (layout.go:324-325, 335-336): it takes no running pod from its panel.  The one
\* that a peek starts while Start is at work may: it counts the pods booted so
\* far and resets them all.
PanelsKeepRunningPods ==
  [][flags \intersect {"slow", "peek"} = {} => KeepsRunningPods]_vars

\* A Stop ends, whatever its DELETEs do (layout.go:378), and Start is offered again.
StopEnds == \A j \in Stopper : stop[j] # NoStop ~> stop[j] = NoStop /\ ~up

\* A terminal connects, or gives up "once the Pod is gone or after a few tries"
\* (layout.go:237-238): no chain of reconnects goes on for ever.
\* A pod whose shell does not start is the exception: each try opens a socket
\* first (terminal.go:56), and opening sets the count of tries back to 0.
Settles ==
  \A k \in Sock : "noshell" \notin flags => <>[](sock[k].st \in {"free", "open"})
=============================================================================
