--------------------------- MODULE LessonPageProofs ---------------------------
(***************************************************************************)
(* Safety of the lesson page, for every number of terminals, pods, sockets *)
(* and retries, every environment and any number of keepalives and Stops   *)
(* under way at once.                                                      *)
(*                                                                         *)
(* The invariant adds to the properties what the page's functions still    *)
(* hold from before their awaits: which node a Stop is at, which nodes a   *)
(* keepalive has yet to ask about and what it knows of the others, what    *)
(* reattach may still do, and whose socket a node refers to.               *)
(***************************************************************************)
EXTENDS LessonPage, TLAPS, WellFoundedInduction

\* A function under way is somewhere.
Working ==
  /\ \A j \in Stopper : stop[j] = NoStop \/ stop[j].node \in Node
  /\ \A k \in Ping : ping[k] = NoPing \/ (ping[k].pc # "idle" /\ ping[k].left # {})
  /\ look = NoLook \/ (look.pc # "idle" /\ look.pods # None)
  /\ look.pc = "good" => look.pods \in [Node -> Pod]
  /\ \A k \in Sock : sock[k].st = "free" \/ sock[k].node \in Node

\* A node's socket is one that was opened for it, and unless the session has
\* ended since, for its pod.
Wired ==
  \A n \in Node : ws[n] # None =>
    /\ sock[ws[n]].st # "free"
    /\ sock[ws[n]].node = n
    /\ sock[ws[n]].st \in {"connecting", "open"} => pod[n] \in {None, sock[ws[n]].pod}

\* While reattach looks no session is up and no pod is in a panel: a Start
\* that was clicked meanwhile waits for it.
Looking ==
  /\ "eager" \notin flags /\ start # 0 => look = NoLook /\ ~up
  /\ "slow" \notin flags /\ look # NoLook =>
       /\ ~up
       /\ pod = Idle(None)
       /\ start # 0 => "reattach" \in elder

\* A stopped node is one a Stop is at.
Halted ==
  \A n \in Node : stopped[n] => \E j \in Stopper : stop[j].node = n

\* A keepalive under way knows what it has asked about: no pod enters a panel
\* meanwhile, and while it takes all for gone, those behind it do not run.
Counted ==
  \A k \in Ping : ping[k] # NoPing =>
    /\ look = NoLook
    /\ start # 0 => k \in elder
    /\ pod[Least(ping[k].left)] \in {None, ping[k].pod}
    /\ ping[k].all => \A n \in Node \ ping[k].left :
         ~Runs(pod[n]) \/ \E j \in Stopper : stop[j].node = n

Counting == flags \intersect {"slow", "peek"} = {} => Counted

IInv ==
  /\ TypeOK
  /\ Working
  /\ Wired
  /\ Looking
  /\ Halted
  /\ Counting
  /\ UpIsPinged
  /\ ScreenIsSaved

-----------------------------------------------------------------------------
LEMMA LeastIsLeast ==
  ASSUME NEW S, S \subseteq Nat, S # {}
  PROVE  Least(S) \in S /\ \A y \in S : Least(S) <= y
<1>1. PICK x \in S : \A y \in S : <<y, x>> \notin OpToRel(<, Nat)
  BY NatLessThanWellFounded, WFMin
<1>2. \A y \in S : y < x => <<y, x>> \in OpToRel(<, Nat)
  BY DEF OpToRel
<1>3. \A y \in S : ~ (y < x)
  BY <1>1, <1>2
<1>4. \A y \in S : x <= y
  <2> SUFFICES ASSUME NEW y \in S PROVE x <= y
    OBVIOUS
  <2>1. x \in Nat /\ y \in Nat /\ ~ (y < x)
    BY <1>3
  <2> HIDE <1>3
  <2> QED BY <2>1
<1> QED BY <1>4 DEF Least

\* The node of a Stop's next DELETE, terms + 1 when there is none.
NextStop(a) == Least({i \in Node : i > a /\ pod[i] # None} \union {terms + 1})

LEMMA NextStopIsNext ==
  ASSUME TypeOK, NEW a \in Node \union {0}
  PROVE  /\ NextStop(a) \in Nat /\ a < NextStop(a) /\ NextStop(a) <= terms + 1
         /\ NextStop(a) \in Node => pod[NextStop(a)] # None
         /\ NextStop(a) \notin Node => NextStop(a) = terms + 1
         /\ \A i \in Node : a < i /\ i < NextStop(a) => pod[i] = None
<1> DEFINE S == {i \in Node : i > a /\ pod[i] # None} \union {terms + 1}
<1>1. terms \in Nat /\ S \subseteq Nat /\ terms + 1 \in S
  BY BoundAssumption DEF TypeOK, Node
<1>2. NextStop(a) \in S /\ \A y \in S : NextStop(a) <= y
  BY <1>1, LeastIsLeast DEF NextStop
<1> QED BY <1>1, <1>2 DEF TypeOK, Node
-----------------------------------------------------------------------------
(* What the shared pieces of the actions do. *)

SockRecord ==
  [st : {"free", "connecting", "open", "closing", "asking", "timer"},
   node : Node \union {0}, pod : Pod \union {None}]

\* Closing sockets keep their node and pod.
LEMMA ClosingIs ==
  ASSUME TypeOK, NEW S
  PROVE  /\ Closing(S) \in [Sock -> SockRecord]
         /\ \A k \in Sock :
              /\ Closing(S)[k].node = sock[k].node
              /\ Closing(S)[k].pod = sock[k].pod
              /\ Closing(S)[k].st \in {sock[k].st, "closing"}
              /\ sock[k].st \notin {"connecting", "open"} => Closing(S)[k].st = sock[k].st
<1>1. sock \in [Sock -> SockRecord]
  BY DEF TypeOK, SockRecord
<1>2. ASSUME NEW r \in SockRecord
      PROVE  LET c == [r EXCEPT !.st = "closing"] IN
             c \in SockRecord /\ c.node = r.node /\ c.pod = r.pod /\ c.st = "closing"
  BY DEF SockRecord
<1> QED BY <1>1, <1>2 DEF Closing

\* A socket's callbacks change the node it was opened for and the chain.
LEMMA OnCloseIs ==
  ASSUME TypeOK, Working, NEW k \in Sock, sock[k].st # "free", OnClose(k)
  PROVE  /\ sock' \in [Sock -> SockRecord]
         /\ ws' \in [Node -> Sock \union {None}]
         /\ retries' \in [Node -> 0..Tries]
         /\ \A l \in Sock \ {k} : sock'[l] = sock[l]
         /\ \/ /\ sock'[k] = NoSock
               /\ \A n \in Node : ws'[n] = IF ws[n] = k THEN None ELSE ws[n]
            \/ /\ sock'[k].st = "asking" /\ sock'[k].node = sock[k].node
               /\ ws' = ws
<1>1. sock \in [Sock -> SockRecord] /\ sock[k].node \in Node
      /\ retries \in [Node -> 0..Tries] /\ ws \in [Node -> Sock \union {None}]
      /\ pod \in [Node -> Pod \union {None}]
  BY DEF TypeOK, Working, SockRecord
<1>2. CASE Release(k) /\ UNCHANGED retries
  BY <1>1, <1>2 DEF Release, NoSock, SockRecord
<1>3. CASE ~ (Release(k) /\ UNCHANGED retries)
  <2> DEFINE n == sock[k].node
  <2>1. retries[n] < Tries /\ retries' = [retries EXCEPT ![n] = @ + 1]
    BY <1>1, <1>3, BoundAssumption DEF OnClose
  <2>2. retries' \in [Node -> 0..Tries]
    BY <1>1, <2>1, BoundAssumption
  <2>3. /\ sock' = [sock EXCEPT ![k] = [st |-> "asking", node |-> n, pod |-> pod[n]]]
        /\ ws' = ws
    BY <1>3 DEF OnClose
  <2> QED BY <1>1, <2>2, <2>3 DEF SockRecord
<1> QED BY <1>2, <1>3

\* A reset empties every panel and keeps the chains, closing their sockets.
LEMMA ExpireIs ==
  ASSUME TypeOK, expireUI
  PROVE  /\ timer' = FALSE /\ up' = FALSE /\ saved' = None
         /\ sock' = Closing(Node) /\ sock' \in [Sock -> SockRecord]
         /\ pod' = Idle(None) /\ pod' \in [Node -> Pod \union {None}]
         /\ ws' = Idle(None) /\ ws' \in [Node -> Sock \union {None}]
         /\ stopped' \in [Node -> BOOLEAN] /\ retries' \in [Node -> 0..Tries]
BY ClosingIs, BoundAssumption DEF expireUI, Idle

PingRecord ==
  [pc : {"idle", "ping", "check"}, left : SUBSET Node, pod : Pod \union {None},
   all : BOOLEAN]

\* A keepalive that has counted a node goes on to the next or ends; only one that
\* ends with every node gone touches the page.
LEMMA CountIs ==
  ASSUME TypeOK, Working, NEW k \in Ping, NEW gone \in BOOLEAN,
         ping[k].pc # "idle", Count(k, gone)
  PROVE  LET first == Least(ping[k].left)
             left == ping[k].left \ {first} IN
         /\ ping' \in [Ping -> PingRecord]
         /\ \A l \in Ping \ {k} : ping'[l] = ping[l]
         /\ \/ /\ left # {}
               /\ Least(left) \in left
               /\ ping'[k] = [pc |-> "ping", left |-> left, pod |-> pod[Least(left)],
                              all |-> ping[k].all /\ gone]
               /\ UNCHANGED <<page, elder>>
            \/ /\ left = {} /\ ping'[k] = NoPing /\ elder' = elder \ {k}
               /\ \/ UNCHANGED page
                  \/ ping[k].all /\ gone /\ expireUI
<1> DEFINE first == Least(ping[k].left)
           left == ping[k].left \ {first}
<1>1. ping \in [Ping -> PingRecord] /\ pod \in [Node -> Pod \union {None}]
  BY DEF TypeOK, PingRecord
<1>2. left \subseteq Nat /\ left \subseteq Node
  BY <1>1 DEF Node, PingRecord
<1>3. CASE left # {}
  <2>1. Least(left) \in left
    BY <1>2, <1>3, LeastIsLeast
  <2>2. UNCHANGED <<page, elder>>
    BY <1>3 DEF Count, page, nodeVars, buttons
  <2>3. ping' = [ping EXCEPT ![k] = [pc |-> "ping", left |-> left,
                   pod |-> pod[Least(left)], all |-> ping[k].all /\ gone]]
    BY <1>3 DEF Count
  <2> QED BY <1>1, <1>2, <1>3, <2>1, <2>2, <2>3 DEF PingRecord
<1>4. CASE left = {}
  <2>1. ping' = [ping EXCEPT ![k] = NoPing] /\ elder' = elder \ {k}
    BY <1>4 DEF Count
  <2>2. UNCHANGED page \/ (ping[k].all /\ gone /\ expireUI)
    BY <1>4 DEF Count, page, nodeVars, buttons
  <2> QED BY <1>1, <1>4, <2>1, <2>2 DEF PingRecord, NoPing
<1> QED BY <1>3, <1>4
StopRecord == [node : Node \union {0}, pod : Pod \union {None}]

\* A Stop empties the node it was at, closes sockets, and is then at another
\* node or over.
LEMMA StopWalkIs ==
  ASSUME TypeOK, NEW j \in Stopper, NEW a \in Node \union {0}, StopWalk(j, a)
  PROVE  /\ pod' \in [Node -> Pod \union {None}] /\ stopped' \in [Node -> BOOLEAN]
         /\ retries' \in [Node -> 0..Tries]
         /\ \A n \in Node \ {a} : pod'[n] = pod[n]
         /\ a \in Node => pod'[a] = None
         /\ \A n \in Node : stopped'[n] => n = NextStop(a) \/ (stopped[n] /\ n # a)
         /\ \E S : sock' = Closing(S)
         /\ stop' \in [Stopper -> StopRecord]
         /\ \A l \in Stopper \ {j} : stop'[l] = stop[l]
         /\ \/ /\ NextStop(a) \in Node
               /\ stop'[j] = [node |-> NextStop(a), pod |-> pod[NextStop(a)]]
               /\ stop'[j] # NoStop
               /\ UNCHANGED <<saved, up, elder>>
            \/ /\ NextStop(a) \notin Node /\ stop'[j] = NoStop
               /\ saved' = None /\ up' = FALSE /\ elder' = elder \ {j}
         /\ UNCHANGED <<flags, terms, ws, start, ping, look, history>>
<1> DEFINE next == NextStop(a)
           over == {i \in Node : a <= i /\ i < next}
<1>1. /\ pod \in [Node -> Pod \union {None}] /\ stopped \in [Node -> BOOLEAN]
      /\ retries \in [Node -> 0..Tries] /\ stop \in [Stopper -> StopRecord]
      /\ Tries \in Nat /\ Node \subseteq Nat \ {0}
  BY BoundAssumption DEF TypeOK, StopRecord, Node
<1>2. /\ next \in Nat /\ a < next
      /\ \A i \in Node : a < i /\ i < next => pod[i] = None
  BY NextStopIsNext
<1>3. \A n \in over : n = a \/ pod[n] = None
  BY <1>1, <1>2
<1>4. a \in Node => a \in over
  BY <1>1, <1>2
<1>5. /\ pod' = [i \in Node |-> IF i \in over THEN None ELSE pod[i]]
      /\ retries' = [i \in Node |-> IF i \in over THEN 0 ELSE retries[i]]
      /\ stopped' = [i \in Node |-> i = next \/ (stopped[i] /\ i \notin over)]
      /\ \E S : sock' = Closing(S)
      /\ UNCHANGED <<flags, terms, ws, start, ping, look, history>>
  BY DEF StopWalk, NextStop
<1>6. \/ /\ next \in Node
         /\ stop' = [stop EXCEPT ![j] = [node |-> next, pod |-> pod[next]]]
         /\ UNCHANGED <<saved, up, elder>>
      \/ /\ next \notin Node /\ stop' = [stop EXCEPT ![j] = NoStop]
         /\ saved' = None /\ up' = FALSE /\ elder' = elder \ {j}
  BY DEF StopWalk, NextStop
<1> HIDE DEF next, over
<1>7. retries' \in [Node -> 0..Tries]
  BY <1>1, <1>5
<1>8. pod' \in [Node -> Pod \union {None}]
  BY <1>1, <1>5
<1>9. stopped' \in [Node -> BOOLEAN]
  BY <1>1, <1>5, Zenon
<1>10. /\ \A n \in Node \ {a} : pod'[n] = pod[n]
       /\ a \in Node => pod'[a] = None
  BY <1>1, <1>3, <1>4, <1>5
<1>11. \A n \in Node : stopped'[n] => n = next \/ (stopped[n] /\ n # a)
  BY <1>4, <1>5, Zenon
<1>12. next \in Node => [node |-> next, pod |-> pod[next]] \in StopRecord
                        /\ [node |-> next, pod |-> pod[next]] # NoStop
  BY <1>1 DEF StopRecord, NoStop
<1>13. NoStop \in StopRecord
  BY DEF StopRecord, NoStop
<1>14. /\ stop' \in [Stopper -> StopRecord]
       /\ \A l \in Stopper \ {j} : stop'[l] = stop[l]
       /\ next \in Node => stop'[j] = [node |-> next, pod |-> pod[next]]
       /\ next \notin Node => stop'[j] = NoStop
  BY <1>1, <1>6, <1>12, <1>13
<1> QED
  BY <1>5, <1>6, <1>7, <1>8, <1>9, <1>10, <1>11, <1>12, <1>14 DEF next
-----------------------------------------------------------------------------
LEMMA InitTypes == Init => TypeOK /\ Working
<1> SUFFICES ASSUME Init PROVE TypeOK /\ Working
  OBVIOUS
<1>1. NoSock \in SockRecord /\ NoStop \in StopRecord /\ NoPing \in PingRecord
      /\ NoLook \in [pc : {"idle", "asked", "good", "bad"},
                     pods : {None} \union [Node -> Pod \union {None}]]
  BY DEF NoSock, NoStop, NoPing, NoLook, SockRecord, StopRecord, PingRecord
<1>2. /\ terms \in 1..MaxTerms
      /\ sock \in [Sock -> SockRecord] /\ stop \in [Stopper -> StopRecord]
      /\ ping \in [Ping -> PingRecord]
  BY <1>1 DEF Init
<1>3. /\ pod \in [Node -> Pod \union {None}] /\ ws \in [Node -> Sock \union {None}]
      /\ stopped \in [Node -> BOOLEAN] /\ retries \in [Node -> 0..Tries]
  BY BoundAssumption DEF Init, Idle
<1>4. TypeOK
  <2>1. /\ flags \in Scenario /\ saved = None /\ look = NoLook
        /\ cluster \in [Pod -> {"new", "live", "ended", "gone"}]
    BY DEF Init
  <2>2. /\ up \in BOOLEAN /\ timer \in BOOLEAN /\ start \in Node \union {0}
        /\ elder \in SUBSET Ids /\ learned \in SUBSET Pod
    BY DEF Init
  <2>3. drops \in 0..MaxDrop /\ reloads \in 0..MaxReload
    BY BoundAssumption DEF Init
  <2> QED BY <1>1, <1>2, <1>3, <2>1, <2>2, <2>3
        DEF TypeOK, SockRecord, StopRecord, PingRecord
<1>5. Working
  BY DEF Init, Working, NoSock, NoLook
<1> QED BY <1>4, <1>5

\* Every action keeps every variable in its type and what is under way somewhere.
LEMMA TypeStep ==
  ASSUME TypeOK, Working, [Next]_vars
  PROVE  TypeOK' /\ Working'
<1> USE BoundAssumption, NameAssumption
    DEF session, world, page, nodeVars, buttons, history
<1> DEFINE Types == TypeOK' /\ Working'
<1>a. /\ sock \in [Sock -> SockRecord] /\ stop \in [Stopper -> StopRecord]
      /\ ping \in [Ping -> PingRecord]
      /\ pod \in [Node -> Pod \union {None}] /\ ws \in [Node -> Sock \union {None}]
  BY DEF TypeOK, SockRecord, StopRecord, PingRecord
<1>1. ASSUME NEW k \in Sock, Opened(k) PROVE Types
  <2>1. sock[k].node \in Node /\ sock' \in [Sock -> SockRecord]
    BY <1>1, <1>a, ZenonT(60) DEF Opened, Working, SockRecord
  <2>2. \A l \in Sock : sock'[l].node = sock[l].node /\ (sock'[l].st = "free" => sock[l].st = "free")
    BY <1>1, <1>a DEF Opened, SockRecord
  <2>3. retries' \in [Node -> 0..Tries]
    BY <1>1, <2>1 DEF Opened, TypeOK
  <2> QED BY <1>1, <2>1, <2>2, <2>3, SMTT(30) DEF Opened, TypeOK, Working, Node, SockRecord
<1>2. ASSUME NEW k \in Sock, Closed(k) \/ Lost(k) PROVE Types
  <2>1. sock[k].st # "free" /\ OnClose(k) /\ UNCHANGED <<session, stopped>>
    BY <1>2 DEF Closed, Lost
  <2>2. drops' \in 0..MaxDrop
    BY <1>2 DEF Closed, Lost, TypeOK
  <2>3. /\ sock' \in [Sock -> SockRecord] /\ ws' \in [Node -> Sock \union {None}]
        /\ retries' \in [Node -> 0..Tries]
    BY <2>1, OnCloseIs
  <2>4. \A l \in Sock : sock'[l].st = "free" \/ sock'[l].node \in Node
    BY <2>1, OnCloseIs DEF Working, NoSock
  <2> QED BY <2>1, <2>2, <2>3, <2>4 DEF TypeOK, Working, Node, SockRecord
<1>3. ASSUME NEW k \in Sock, Asked(k) PROVE Types
  <2>1. sock[k].node \in Node
    BY <1>3 DEF Asked, Working
  <2>2. /\ sock' \in [Sock -> SockRecord] /\ ws' \in [Node -> Sock \union {None}]
        /\ \A l \in Sock : sock'[l].st = "free" \/ sock'[l].node \in Node
    BY <1>3, <1>a, <2>1 DEF Asked, Release, NoSock, SockRecord, Working
  <2> QED BY <1>3, <2>2 DEF Asked, TypeOK, Working, Node, SockRecord
<1>4. ASSUME NEW k \in Sock, Reconnect(k) PROVE Types
  <2>1. sock[k].node \in Node
    BY <1>4 DEF Reconnect, Working
  <2>2. /\ sock' \in [Sock -> SockRecord] /\ ws' \in [Node -> Sock \union {None}]
        /\ \A l \in Sock : sock'[l].st = "free" \/ sock'[l].node \in Node
    BY <1>4, <1>a, <2>1 DEF Reconnect, Connecting, SockRecord, Working
  <2> QED BY <1>4, <2>2 DEF Reconnect, TypeOK, Working, Node, SockRecord
<1>5. CASE Start
  BY <1>5 DEF Start, UnderWay, Ids, TypeOK, Working, Node
<1>6. ASSUME NEW p \in Pod, NEW k \in Sock, Booted(p, k) PROVE Types
  <2>1. start \in Node /\ (start < terms => start + 1 \in Node)
    BY <1>6 DEF Booted, TypeOK, Node
  <2>2. /\ sock' \in [Sock -> SockRecord] /\ ws' \in [Node -> Sock \union {None}]
        /\ pod' \in [Node -> Pod \union {None}]
        /\ \A l \in Sock : sock'[l].st = "free" \/ sock'[l].node \in Node
    BY <1>6, <1>a, <2>1 DEF Booted, Connecting, SockRecord, Working
  <2>3. /\ cluster' \in [Pod -> {"new", "live", "ended", "gone"}]
        /\ learned' \in SUBSET Pod
    BY <1>6 DEF Booted, TypeOK
  <2>4. /\ start' \in Node \union {0} /\ elder' \in SUBSET Ids
        /\ up' \in BOOLEAN /\ timer' \in BOOLEAN
        /\ saved' = saved \/ saved' = pod'
    BY <1>6, <2>1, ZenonT(60) DEF Booted, SessionUp, UnderWay, Ids, TypeOK
  <2> QED BY <1>6, <2>2, <2>3, <2>4, ZenonT(60) DEF Booted, TypeOK, Working, Node, SockRecord
<1>7. CASE BootFails
  BY <1>7 DEF BootFails, TypeOK, Working, Node
<1>8. ASSUME NEW j \in Stopper, Stop(j) \/ Deleted(j) PROVE Types
  <2>1. PICK a \in Node \union {0} : StopWalk(j, a)
    BY <1>8, <1>a DEF Stop, Deleted, Working
  <2>2. PICK S : sock' = Closing(S)
    BY <2>1, StopWalkIs
  <2>3. sock' \in [Sock -> SockRecord]
        /\ \A l \in Sock : sock'[l].st = "free" \/ sock'[l].node \in Node
    BY <2>2, ClosingIs DEF Working
  <2>4. \/ UNCHANGED <<saved, up, elder>>
        \/ saved' = None /\ up' = FALSE /\ elder' = elder \ {j}
    BY <2>1, StopWalkIs
  <2>9. \A l \in Stopper \ {j} : stop'[l] = stop[l]
    BY <2>1, StopWalkIs
  <2>10. \/ NextStop(a) \in Node
             /\ stop'[j] = [node |-> NextStop(a), pod |-> pod[NextStop(a)]]
         \/ stop'[j] = NoStop
    BY <2>1, StopWalkIs
  <2>5. /\ saved' \in {saved, None} /\ up' \in BOOLEAN /\ elder' \in SUBSET Ids
    BY <2>4 DEF TypeOK
  <2>6. timer' \in BOOLEAN /\ UNCHANGED cluster
    BY <1>8 DEF Stop, Deleted, TypeOK
  <2>7. \A l \in Stopper : stop'[l] = NoStop \/ stop'[l].node \in Node
    BY <2>9, <2>10 DEF Working
  <2>8. /\ pod' \in [Node -> Pod \union {None}] /\ stopped' \in [Node -> BOOLEAN]
        /\ retries' \in [Node -> 0..Tries] /\ stop' \in [Stopper -> StopRecord]
        /\ UNCHANGED <<flags, terms, ws, start, ping, look, history>>
    BY <2>1, StopWalkIs
  <2> QED BY <2>3, <2>5, <2>6, <2>7, <2>8
        DEF TypeOK, Working, Node, SockRecord, StopRecord
<1>9. ASSUME NEW j \in Stopper, DeleteArrives(j) PROVE Types
  BY <1>9 DEF DeleteArrives, TypeOK, Working, Node
<1>10. ASSUME NEW k \in Ping, Keepalive(k) PROVE Types
  <2> DEFINE todo == {n \in Node : pod[n] # None /\ ~stopped[n]}
  <2>1. todo # {} /\ todo \subseteq Nat /\ Least(todo) \in todo
    BY <1>10, LeastIsLeast DEF Keepalive, Node
  <2>2. [pc |-> "ping", left |-> todo, pod |-> pod[Least(todo)], all |-> TRUE] \in PingRecord
    BY <1>a, <2>1 DEF PingRecord
  <2>3. ping' = [ping EXCEPT ![k] =
           [pc |-> "ping", left |-> todo, pod |-> pod[Least(todo)], all |-> TRUE]]
    BY <1>10 DEF Keepalive
  <2>4. /\ ping' \in [Ping -> PingRecord]
        /\ \A l \in Ping : ping'[l] = NoPing \/ (ping'[l].pc # "idle" /\ ping'[l].left # {})
    BY <1>a, <2>1, <2>2, <2>3 DEF Working
  <2> QED BY <1>10, <2>4 DEF Keepalive, TypeOK, Working, Node, PingRecord
<1>11. ASSUME NEW k \in Ping, NEW gone \in BOOLEAN, ping[k].pc # "idle", Count(k, gone),
              UNCHANGED <<world, start, stop, look>>
       PROVE  Types
  <2>1. /\ ping' \in [Ping -> PingRecord]
        /\ \A l \in Ping \ {k} : ping'[l] = ping[l]
    BY <1>11, CountIs, ZenonT(60)
  <2>6. \/ /\ ping'[k].pc = "ping" /\ ping'[k].left # {} /\ elder' = elder
        \/ ping'[k] = NoPing /\ elder' = elder \ {k}
    <3> DEFINE left == ping[k].left \ {Least(ping[k].left)}
    <3>1. \/ /\ left # {} /\ elder' = elder
             /\ ping'[k] = [pc |-> "ping", left |-> left, pod |-> pod[Least(left)],
                            all |-> ping[k].all /\ gone]
          \/ ping'[k] = NoPing /\ elder' = elder \ {k}
      BY <1>11, CountIs
    <3> HIDE DEF left
    <3> QED BY <3>1
  <2>2. UNCHANGED page \/ expireUI
    BY <1>11, CountIs
  <2>5. /\ \A l \in Ping : ping'[l] = NoPing \/ (ping'[l].pc # "idle" /\ ping'[l].left # {})
        /\ elder' \in SUBSET Ids
    BY <2>1, <2>6 DEF Working, TypeOK
  <2>3. /\ sock' \in [Sock -> SockRecord]
        /\ \A l \in Sock : sock'[l].st = "free" \/ sock'[l].node \in Node
    <3>1. CASE UNCHANGED page
      BY <1>a, <3>1 DEF Working
    <3>2. CASE expireUI
      <4>1. sock' = Closing(Node)
        BY <3>2, ExpireIs
      <4> QED BY <4>1, ClosingIs DEF Working
    <3> QED BY <2>2, <3>1, <3>2
  <2>4. /\ pod' \in [Node -> Pod \union {None}] /\ ws' \in [Node -> Sock \union {None}]
        /\ stopped' \in [Node -> BOOLEAN] /\ retries' \in [Node -> 0..Tries]
        /\ saved' \in {saved, None} /\ up' \in BOOLEAN /\ timer' \in BOOLEAN
    BY <2>2, ExpireIs DEF TypeOK
  <2> QED BY <1>11, <2>1, <2>3, <2>4, <2>5 DEF TypeOK, Working, Node, SockRecord, PingRecord
<1>12. ASSUME NEW k \in Ping, Pinged(k) \/ Checked(k) PROVE Types
  <2>1. CASE \E gone \in BOOLEAN : Count(k, gone)
    <3>1. ping[k].pc # "idle" /\ UNCHANGED <<world, start, stop, look>>
      BY <1>12 DEF Pinged, Checked
    <3> QED BY <1>11, <2>1, <3>1
  <2>2. CASE ~ \E gone \in BOOLEAN : Count(k, gone)
    <3>1. /\ ping[k].pc = "ping"
          /\ ping' = [ping EXCEPT ![k].pc = "check", ![k].pod = pod[Least(ping[k].left)]]
          /\ UNCHANGED <<world, page, elder, start, stop, look>>
      BY <1>12, <2>2 DEF Pinged, Checked
    <3>2. ping[k].left # {} /\ ping[k].left \subseteq Nat /\ ping[k].left \subseteq Node
      BY <1>a, <3>1 DEF Working, NoPing, PingRecord, Node
    <3>3. pod[Least(ping[k].left)] \in Pod \union {None}
      BY <1>a, <3>2, LeastIsLeast
    <3>4. /\ ping' \in [Ping -> PingRecord]
          /\ \A l \in Ping : ping'[l] = NoPing \/ (ping'[l].pc # "idle" /\ ping'[l].left # {})
      BY <1>a, <3>1, <3>2, <3>3, ZenonT(60) DEF PingRecord, Working
    <3> QED BY <3>1, <3>4 DEF TypeOK, Working, Node, PingRecord
  <2> QED BY <2>1, <2>2
<1>13. CASE Looked
  <2>1. look.pods \in [Node -> Pod \union {None}]
    BY <1>13 DEF Looked, Working, TypeOK, NoLook
  <2>2. CASE look' = [look EXCEPT !.pc = "good"] /\ \A n \in Node : Runs(look.pods[n])
    <3>1. look.pods \in [Node -> Pod]
      BY <2>1, <2>2 DEF Runs
    <3>2. look'.pc = "good" /\ look'.pods = look.pods
          /\ look' \in [pc : {"idle", "asked", "good", "bad"},
                        pods : {None} \union [Node -> Pod \union {None}]]
      BY <2>2 DEF TypeOK
    <3>3. look' = NoLook \/ (look'.pc # "idle" /\ look'.pods # None)
      BY <1>13, <3>2 DEF Looked, Working, NoLook
    <3> QED BY <1>13, <3>1, <3>2, <3>3 DEF Looked, TypeOK, Working, Node
  <2>3. CASE look' = [look EXCEPT !.pc = "bad"]
    <3>1. look'.pc = "bad" /\ look'.pods = look.pods
          /\ look' \in [pc : {"idle", "asked", "good", "bad"},
                        pods : {None} \union [Node -> Pod \union {None}]]
      BY <2>3 DEF TypeOK
    <3>2. look' = NoLook \/ (look'.pc # "idle" /\ look'.pods # None)
      BY <1>13, <3>1 DEF Looked, Working, NoLook
    <3> QED BY <1>13, <3>1, <3>2 DEF Looked, TypeOK, Working, Node
  <2> QED BY <1>13, <2>2, <2>3 DEF Looked
<1>14. ASSUME NEW f \in [Node -> Free], Reattached(f) PROVE Types
  <2>1. look.pods \in [Node -> Pod] /\ f \in [Node -> Sock]
    BY <1>14 DEF Reattached, Working, Free
  <2>2. ASSUME NEW n \in Node PROVE Connecting(n, look.pods[n]) \in SockRecord
    BY <2>1 DEF Connecting, SockRecord
  <2>3. ASSUME NEW k \in Sock, \E n \in Node : f[n] = k
        PROVE  sock'[k] \in SockRecord /\ sock'[k].node \in Node
    <3> DEFINE n == CHOOSE n \in Node : f[n] = k
    <3>1. n \in Node
      BY <2>3
    <3>2. sock'[k] = Connecting(n, look.pods[n])
      BY <1>14, <2>3 DEF Reattached
    <3> HIDE DEF n
    <3>3. sock'[k] \in SockRecord
      BY <2>2, <3>1, <3>2
    <3> QED BY <3>1, <3>2, <3>3 DEF Connecting
  <2>4. ASSUME NEW k \in Sock, ~ \E n \in Node : f[n] = k
        PROVE  sock'[k] = sock[k]
    BY <1>14, <2>4 DEF Reattached
  <2>5. /\ sock' \in [Sock -> SockRecord]
        /\ \A l \in Sock : sock'[l].st = "free" \/ sock'[l].node \in Node
    <3>1. sock' = [k \in Sock |-> sock'[k]]
      BY <1>14 DEF Reattached
    <3> QED BY <1>a, <2>3, <2>4, <3>1 DEF Working
  <2>6. NoLook \in [pc : {"idle", "asked", "good", "bad"},
                    pods : {None} \union [Node -> Pod \union {None}]]
    BY DEF NoLook
  <2> QED BY <1>14, <2>1, <2>5, <2>6
        DEF Reattached, SessionUp, TypeOK, Working, Node, NoLook, SockRecord
<1>15. CASE NotReattached
  BY <1>15 DEF NotReattached, TypeOK, Working, Node, NoLook
<1>16. CASE Reload
  <2>1. /\ sock' \in [Sock -> SockRecord] /\ stop' \in [Stopper -> StopRecord]
        /\ ping' \in [Ping -> PingRecord]
        /\ sock' = [k \in Sock |-> NoSock] /\ stop' = [j \in Stopper |-> NoStop]
        /\ ping' = [k \in Ping |-> NoPing]
    BY <1>16 DEF Reload, SockRecord, StopRecord, PingRecord, NoSock, NoStop, NoPing
  <2>2. look' \in [pc : {"idle", "asked", "good", "bad"},
                   pods : {None} \union [Node -> Pod \union {None}]]
        /\ (look' = NoLook \/ (look'.pc # "idle" /\ look'.pods # None))
        /\ look'.pc # "good"
    BY <1>16 DEF Reload, NoLook, TypeOK
  <2>3. /\ cluster' \in [Pod -> {"new", "live", "ended", "gone"}]
        /\ reloads' \in 0..MaxReload
    BY <1>16 DEF Reload, TypeOK
  <2>4. /\ pod' \in [Node -> Pod \union {None}] /\ ws' \in [Node -> Sock \union {None}]
        /\ stopped' \in [Node -> BOOLEAN] /\ retries' \in [Node -> 0..Tries]
    BY <1>16 DEF Reload, Idle
  <2>5. /\ up' = FALSE /\ timer' = FALSE /\ start' = 0 /\ elder' = {}
        /\ UNCHANGED <<flags, terms, saved, learned, drops>>
    BY <1>16 DEF Reload
  <2>6. Working'
    BY <2>1, <2>2 DEF Working, NoSock
  <2> QED BY <2>1, <2>2, <2>3, <2>4, <2>5, <2>6
        DEF TypeOK, Node, SockRecord, StopRecord, PingRecord
<1>17. ASSUME NEW p \in Pod, Die(p) PROVE Types
  BY <1>17 DEF Die, TypeOK, Working, Node
<1>18. CASE UNCHANGED vars
  BY <1>18 DEF vars, TypeOK, Working, Node
<1> QED
  BY <1>1, <1>2, <1>3, <1>4, <1>5, <1>6, <1>7, <1>8, <1>9, <1>10, <1>12, <1>13, <1>14,
     <1>15, <1>16, <1>17, <1>18
     DEF Next, SockStep, PingStep, StopStep, LookStep
-----------------------------------------------------------------------------
(* Sockets and panels. *)

LEMMA WiredStep ==
  ASSUME TypeOK, Working, Wired, [Next]_vars
  PROVE  Wired'
<1> USE NameAssumption DEF session, world, page, nodeVars, buttons, history
<1>a. /\ sock \in [Sock -> SockRecord]
      /\ pod \in [Node -> Pod \union {None}] /\ ws \in [Node -> Sock \union {None}]
  BY DEF TypeOK, SockRecord
<1>1. ASSUME NEW k \in Sock, Opened(k) PROVE Wired'
  BY <1>1, <1>a DEF Opened, Wired, Node, SockRecord
<1>2. ASSUME NEW k \in Sock, Closed(k) \/ Lost(k) PROVE Wired'
  <2>1. sock[k].st # "free" /\ OnClose(k) /\ UNCHANGED <<terms, pod>>
    BY <1>2 DEF Closed, Lost
  <2>2. /\ \A l \in Sock \ {k} : sock'[l] = sock[l]
        /\ \/ /\ sock'[k] = NoSock
              /\ \A n \in Node : ws'[n] = IF ws[n] = k THEN None ELSE ws[n]
           \/ /\ sock'[k].st = "asking" /\ sock'[k].node = sock[k].node
              /\ ws' = ws
    BY <2>1, OnCloseIs
  <2>3. Node' = Node
    BY <2>1 DEF Node
  <2> QED BY <1>a, <2>1, <2>2, <2>3 DEF Wired
<1>3. ASSUME NEW k \in Sock, Asked(k) PROVE Wired'
  <2>1. /\ \A l \in Sock \ {k} : sock'[l] = sock[l]
        /\ \/ /\ sock'[k] = NoSock
              /\ \A n \in Node : ws'[n] = IF ws[n] = k THEN None ELSE ws[n]
           \/ /\ sock'[k].st = "timer" /\ sock'[k].node = sock[k].node
              /\ ws' = ws
    BY <1>3, <1>a DEF Asked, Release, SockRecord
  <2>2. Node' = Node /\ pod' = pod
    BY <1>3 DEF Asked, Node
  <2> QED BY <1>a, <2>1, <2>2 DEF Wired
<1>4. ASSUME NEW k \in Sock, Reconnect(k) PROVE Wired'
  <2> DEFINE n == sock[k].node
  <2>1. /\ n \in Node
        /\ sock' = [sock EXCEPT ![k] = Connecting(n, pod[n])]
        /\ ws' = [ws EXCEPT ![n] = k]
        /\ pod' = pod /\ Node' = Node
    BY <1>4 DEF Reconnect, Working, Node
  <2>2. \A m \in Node \ {n} : ws'[m] = ws[m] /\ ws[m] # k
    BY <1>a, <2>1 DEF Wired
  <2>3. sock'[k] = Connecting(n, pod[n]) /\ \A l \in Sock \ {k} : sock'[l] = sock[l]
    BY <1>a, <2>1
  <2>4. ws'[n] = k
    BY <1>a, <2>1
  <2> HIDE DEF n
  <2> QED BY <1>a, <2>1, <2>2, <2>3, <2>4 DEF Wired, Connecting
<1>5. CASE Start \/ BootFails \/ Looked \/ NotReattached
           \/ (\E j \in Stopper : DeleteArrives(j)) \/ (\E k \in Ping : Keepalive(k))
           \/ (\E p \in Pod : Die(p)) \/ UNCHANGED vars
  <2>1. UNCHANGED <<terms, pod, ws, sock>>
    BY <1>5 DEF Start, BootFails, Looked, NotReattached, DeleteArrives, Keepalive, Die, vars
  <2> QED BY <2>1 DEF Wired, Node
<1>6. ASSUME NEW p \in Pod, NEW k \in Sock, Booted(p, k) PROVE Wired'
  <2>1. /\ start \in Node /\ sock[k].st = "free"
        /\ sock' = [sock EXCEPT ![k] = Connecting(start, p)]
        /\ ws' = [ws EXCEPT ![start] = k] /\ pod' = [pod EXCEPT ![start] = p]
        /\ Node' = Node
    BY <1>6 DEF Booted, Free, TypeOK, Node
  <2>2. \A m \in Node \ {start} : ws'[m] = ws[m] /\ ws[m] # k /\ pod'[m] = pod[m]
    BY <1>a, <2>1 DEF Wired
  <2>3. /\ sock'[k] = Connecting(start, p) /\ ws'[start] = k /\ pod'[start] = p
        /\ \A l \in Sock \ {k} : sock'[l] = sock[l]
    BY <1>a, <2>1
  <2> QED BY <1>a, <2>1, <2>2, <2>3 DEF Wired, Connecting
<1>7. ASSUME NEW j \in Stopper, Stop(j) \/ Deleted(j) PROVE Wired'
  <2>1. PICK a \in Node \union {0} : StopWalk(j, a)
    BY <1>7 DEF Stop, Deleted, Working
  <2>2. /\ \A n \in Node : pod'[n] \in {pod[n], None}
        /\ ws' = ws /\ terms' = terms
    BY <2>1, StopWalkIs
  <2>3. PICK S : sock' = Closing(S)
    BY <2>1, StopWalkIs
  <2>4. \A k \in Sock :
          /\ sock'[k].node = sock[k].node /\ sock'[k].pod = sock[k].pod
          /\ sock'[k].st \in {sock[k].st, "closing"}
    BY <2>3, ClosingIs
  <2> QED BY <1>a, <2>2, <2>4 DEF Wired, Node
<1>8. ASSUME NEW k \in Ping, Pinged(k) \/ Checked(k) PROVE Wired'
  <2>1. terms' = terms /\ (UNCHANGED <<pod, ws, sock>> \/ ws' = Idle(None))
    <3>1. CASE \E gone \in BOOLEAN : Count(k, gone)
      BY <1>8, <3>1, CountIs, ExpireIs DEF Pinged, Checked
    <3>2. CASE ~ \E gone \in BOOLEAN : Count(k, gone)
      BY <1>8, <3>2 DEF Pinged, Checked
    <3> QED BY <3>1, <3>2
  <2>2. CASE UNCHANGED <<pod, ws, sock>>
    BY <2>1, <2>2 DEF Wired, Node
  <2>3. CASE ws' = Idle(None)
    BY <2>1, <2>3 DEF Wired, Node, Idle
  <2> QED BY <2>1, <2>2, <2>3
<1>9. ASSUME NEW f \in [Node -> Free], Reattached(f) PROVE Wired'
  <2>1. /\ ws' = f /\ pod' = look.pods /\ Node' = Node
        /\ look.pods \in [Node -> Pod] /\ f \in [Node -> Sock]
        /\ \A n \in Node : \A m \in 1..(n - 1) : f[m] < f[n]
    BY <1>9 DEF Reattached, Working, Node, Free
  <2>2. \A n \in Node, m \in Node : f[n] = f[m] => n = m
    BY <2>1 DEF Node, Sock, TypeOK
  <2>3. ASSUME NEW n \in Node PROVE sock'[f[n]] = Connecting(n, look.pods[n])
    <3>1. (CHOOSE m \in Node : f[m] = f[n]) = n
      BY <2>2
    <3>2. sock'[f[n]] = LET m == CHOOSE m \in Node : f[m] = f[n] IN Connecting(m, look.pods[m])
      BY <1>9, <2>1 DEF Reattached
    <3> QED BY <3>1, <3>2
  <2>4. ASSUME NEW n \in Node
        PROVE  /\ sock'[ws'[n]].st = "connecting" /\ sock'[ws'[n]].node = n
               /\ sock'[ws'[n]].pod = pod'[n]
    <3>1. sock'[ws'[n]] = Connecting(n, pod'[n])
      BY <2>1, <2>3
    <3> QED BY <3>1 DEF Connecting
  <2> QED BY <2>1, <2>4 DEF Wired
<1>10. CASE Reload
  BY <1>10 DEF Reload, Wired, Idle, Node
<1> QED
  BY <1>1, <1>2, <1>3, <1>4, <1>5, <1>6, <1>7, <1>8, <1>9, <1>10
     DEF Next, SockStep, PingStep, StopStep, LookStep

-----------------------------------------------------------------------------
(* Start, reattach and the buttons. *)

LEMMA LookingStep ==
  ASSUME TypeOK, Working, Looking, [Next]_vars
  PROVE  Looking'
<1> USE NameAssumption DEF session, world, page, nodeVars, buttons, history
<1>a. pod \in [Node -> Pod \union {None}]
  BY DEF TypeOK
<1>1. ASSUME NEW k \in Sock,
             Opened(k) \/ Closed(k) \/ Lost(k) \/ Asked(k) \/ Reconnect(k)
      PROVE  Looking'
  BY <1>1 DEF Opened, Closed, Lost, Asked, Reconnect, Looking, Idle, Node
<1>2. CASE Start
  BY <1>2 DEF Start, UnderWay, Looking, Idle, Node
<1>3. CASE (\E j \in Stopper : DeleteArrives(j)) \/ (\E k \in Ping : Keepalive(k))
           \/ (\E p \in Pod : Die(p)) \/ UNCHANGED vars
  <2>1. UNCHANGED <<flags, terms, pod, up, start, look, elder>>
    BY <1>3 DEF DeleteArrives, Keepalive, Die, vars
  <2> QED BY <2>1 DEF Looking, Idle, Node
<1>9. CASE Looked
  BY <1>9 DEF Looked, Looking, NoLook, Idle, Node
<1>10. CASE BootFails \/ NotReattached
  BY <1>10 DEF BootFails, NotReattached, Looking, Idle, Node
<1>4. ASSUME NEW p \in Pod, NEW k \in Sock, Booted(p, k) PROVE Looking'
  BY <1>4 DEF Booted, SessionUp, Looking, Node
<1>5. ASSUME NEW j \in Stopper, Stop(j) \/ Deleted(j) PROVE Looking'
  <2>1. PICK a \in Node \union {0} : StopWalk(j, a)
    BY <1>5 DEF Stop, Deleted, Working
  <2>2. /\ \A n \in Node : pod'[n] \in {pod[n], None}
        /\ pod' \in [Node -> Pod \union {None}]
        /\ UNCHANGED <<flags, terms, start, look>>
    BY <2>1, StopWalkIs
  <2>3. (up' = up /\ elder' = elder) \/ (up' = FALSE /\ elder' = elder \ {j})
    BY <2>1, StopWalkIs
  <2>4. pod = Idle(None) => pod' = Idle(None)
    BY <2>2 DEF Idle
  <2> QED BY <2>2, <2>3, <2>4 DEF Looking, Idle, Node
<1>6. ASSUME NEW k \in Ping, Pinged(k) \/ Checked(k) PROVE Looking'
  <2>1. /\ UNCHANGED <<flags, terms, start, look>>
        /\ elder' \in {elder, elder \ {k}}
        /\ UNCHANGED <<up, pod>> \/ (up' = FALSE /\ pod' = Idle(None))
    <3>1. CASE \E gone \in BOOLEAN : Count(k, gone)
      BY <1>6, <3>1, CountIs, ExpireIs DEF Pinged, Checked
    <3>2. CASE ~ \E gone \in BOOLEAN : Count(k, gone)
      BY <1>6, <3>2 DEF Pinged, Checked
    <3> QED BY <3>1, <3>2
  <2> QED BY <2>1 DEF Looking, Idle, Node
<1>7. ASSUME NEW f \in [Node -> Free], Reattached(f) PROVE Looking'
  BY <1>7 DEF Reattached, SessionUp, Looking, NoLook
<1>8. CASE Reload
  BY <1>8 DEF Reload, Looking, Idle, Node
<1> QED
  BY <1>1, <1>2, <1>3, <1>4, <1>5, <1>6, <1>7, <1>8, <1>9, <1>10
     DEF Next, SockStep, PingStep, StopStep, LookStep
\* While a session is up its pods are pinged and saved.
LEMMA UpStep ==
  ASSUME TypeOK, Working, Looking, UpIsPinged, ScreenIsSaved, [Next]_vars
  PROVE  UpIsPinged' /\ ScreenIsSaved'
<1> USE DEF session, world, page, nodeVars, buttons, history
<1> DEFINE Fine == UpIsPinged' /\ ScreenIsSaved'
<1>a. /\ pod \in [Node -> Pod \union {None}] /\ None \notin Pod
      /\ terms \in Nat /\ terms # 0
  BY NameAssumption, BoundAssumption DEF TypeOK
<1>1. CASE UNCHANGED <<flags, terms, pod, up, timer, saved, start, stop>>
  BY <1>1 DEF UpIsPinged, ScreenIsSaved, Stopping, Node
<1>2. ASSUME NEW k \in Sock,
             Opened(k) \/ Closed(k) \/ Lost(k) \/ Asked(k) \/ Reconnect(k)
      PROVE  Fine
  BY <1>1, <1>2 DEF Opened, Closed, Lost, Asked, Reconnect
<1>3. CASE (\E j \in Stopper : DeleteArrives(j)) \/ (\E k \in Ping : Keepalive(k))
           \/ (\E p \in Pod : Die(p)) \/ Looked \/ UNCHANGED vars
  BY <1>1, <1>3 DEF DeleteArrives, Keepalive, Die, Looked, vars
<1>4. CASE Start
  BY <1>4 DEF Start, UpIsPinged, ScreenIsSaved, Stopping, Node
<1>5. CASE BootFails
  BY <1>5 DEF BootFails, Looking, UpIsPinged, ScreenIsSaved, Stopping, Node
<1>6. ASSUME NEW p \in Pod, NEW k \in Sock, Booted(p, k) PROVE Fine
  <2>1. /\ start \in Node /\ pod' = [pod EXCEPT ![start] = p] /\ Node' = Node
        /\ pod'[start] # None
        /\ UNCHANGED <<flags, stop>>
        /\ \/ start' = start + 1 /\ UNCHANGED <<saved, up, timer>>
           \/ start' = 0 /\ timer' = TRUE /\ saved' = pod'
    BY <1>6, <1>a DEF Booted, SessionUp, TypeOK, Node
  <2>2. \A n \in Node : pod[n] # None => pod'[n] # None
    BY <1>a, <2>1
  <2>3. start \in Nat
    BY <1>a, <2>1 DEF Node
  <2> QED BY <2>1, <2>2, <2>3 DEF UpIsPinged, ScreenIsSaved, Stopping
<1>7. ASSUME NEW j \in Stopper, Stop(j) \/ Deleted(j) PROVE Fine
  <2>1. PICK a \in Node \union {0} : StopWalk(j, a)
    BY <1>7, <1>a DEF Stop, Deleted, Working
  <2>2. stop'[j] # NoStop \/ up' = FALSE
    BY <2>1, StopWalkIs
  <2> QED BY <2>2 DEF UpIsPinged, ScreenIsSaved, Stopping
<1>8. ASSUME NEW k \in Ping, Pinged(k) \/ Checked(k) PROVE Fine
  <2>1. UNCHANGED <<flags, terms, pod, up, timer, saved, start, stop>> \/ up' = FALSE
    <3>1. CASE \E gone \in BOOLEAN : Count(k, gone)
      BY <1>8, <3>1, CountIs, ExpireIs DEF Pinged, Checked
    <3>2. CASE ~ \E gone \in BOOLEAN : Count(k, gone)
      BY <1>8, <3>2 DEF Pinged, Checked
    <3> QED BY <3>1, <3>2
  <2> QED BY <1>1, <2>1 DEF UpIsPinged, ScreenIsSaved
<1>9. ASSUME NEW f \in [Node -> Free], Reattached(f) PROVE Fine
  <2>1. /\ timer' = TRUE /\ saved' = pod' /\ Node' = Node /\ 1 \in Node
        /\ pod' \in [Node -> Pod]
    BY <1>9, <1>a DEF Reattached, SessionUp, Working, Node
  <2> QED BY <1>a, <2>1 DEF UpIsPinged, ScreenIsSaved
<1>10. CASE NotReattached
  BY <1>10 DEF NotReattached, Looking, NoLook, UpIsPinged, ScreenIsSaved, Stopping, Node
<1>11. CASE Reload
  BY <1>11 DEF Reload, UpIsPinged, ScreenIsSaved
<1> QED
  BY <1>2, <1>3, <1>4, <1>5, <1>6, <1>7, <1>8, <1>9, <1>10, <1>11
     DEF Next, SockStep, PingStep, StopStep, LookStep

-----------------------------------------------------------------------------
(* Stop and keepalive. *)

LEMMA HaltedStep ==
  ASSUME TypeOK, Working, Halted, [Next]_vars
  PROVE  Halted'
<1> USE DEF session, world, page, nodeVars, buttons, history
<1>1. CASE UNCHANGED <<terms, stopped, stop>>
  BY <1>1 DEF Halted, Node
<1>2. ASSUME NEW k \in Sock,
             Opened(k) \/ Closed(k) \/ Lost(k) \/ Asked(k) \/ Reconnect(k)
             \/ \E p \in Pod : Booted(p, k)
      PROVE  Halted'
  BY <1>1, <1>2 DEF Opened, Closed, Lost, Asked, Reconnect, Booted
<1>3. CASE (\E j \in Stopper : DeleteArrives(j)) \/ (\E k \in Ping : Keepalive(k))
           \/ (\E p \in Pod : Die(p)) \/ UNCHANGED vars
  BY <1>1, <1>3 DEF DeleteArrives, Keepalive, Die, vars
<1>4. CASE Start \/ BootFails \/ Looked \/ NotReattached
           \/ (\E f \in [Node -> Free] : Reattached(f))
  BY <1>1, <1>4 DEF Start, BootFails, Looked, NotReattached, Reattached
<1>5. ASSUME NEW j \in Stopper, Stop(j) \/ Deleted(j) PROVE Halted'
  <2>1. PICK a \in Node \union {0} :
          StopWalk(j, a) /\ ((a = 0 /\ stop[j] = NoStop) \/ a = stop[j].node)
    BY <1>5 DEF Stop, Deleted, Working
  <2>2. \A n \in Node : stopped'[n] => n = NextStop(a) \/ (stopped[n] /\ n # a)
    BY <2>1, StopWalkIs
  <2>3. /\ \A l \in Stopper \ {j} : stop'[l] = stop[l]
        /\ NextStop(a) \in Node =>
             stop'[j] = [node |-> NextStop(a), pod |-> pod[NextStop(a)]]
        /\ terms' = terms
    BY <2>1, StopWalkIs
  <2>4. NextStop(a) \in Node => stop'[j].node = NextStop(a)
    BY <2>3
  <2>5. stop[j].node \in {0, a} /\ 0 \notin Node
    BY <2>1 DEF NoStop, Node
  <2> QED BY <2>2, <2>3, <2>4, <2>5 DEF Halted, Node
<1>6. ASSUME NEW k \in Ping, Pinged(k) \/ Checked(k) PROVE Halted'
  <2>1. UNCHANGED <<terms, stopped, stop>>
        \/ (terms' = terms /\ stopped' = Idle(FALSE))
    <3>1. CASE \E gone \in BOOLEAN : Count(k, gone)
      BY <1>6, <3>1, CountIs DEF Pinged, Checked, expireUI
    <3>2. CASE ~ \E gone \in BOOLEAN : Count(k, gone)
      BY <1>6, <3>2 DEF Pinged, Checked
    <3> QED BY <3>1, <3>2
  <2> QED BY <1>1, <2>1 DEF Halted, Idle, Node
<1>7. CASE Reload
  BY <1>7 DEF Reload, Halted, Idle, Node
<1> QED
  BY <1>2, <1>3, <1>4, <1>5, <1>6, <1>7
     DEF Next, SockStep, PingStep, StopStep, LookStep
\* What a keepalive's next step does to its count: where it counts a node as
\* gone, that node's pod does not run.
LEMMA PingStepIs ==
  ASSUME TypeOK, Working, NEW k \in Ping, Pinged(k) \/ Checked(k)
  PROVE  /\ ping[k] # NoPing
         /\ UNCHANGED <<world, start, stop, look>>
         /\ \A l \in Ping \ {k} : ping'[l] = ping[l]
         /\ \/ \E gone \in BOOLEAN :
                 Count(k, gone) /\ (gone => ~Exists(ping[k].pod)) /\ ping[k].pc # "idle"
            \/ /\ ping'[k].left = ping[k].left /\ ping'[k].all = ping[k].all
               /\ ping'[k].pod = pod[Least(ping[k].left)]
               /\ UNCHANGED <<page, elder>>
<1> USE DEF nodeVars, buttons, page
<1>1. ping[k].pc # "idle" /\ ping[k] # NoPing
  <2>1. ping[k].pc \in {"ping", "check"}
    BY DEF Pinged, Checked
  <2> QED BY <2>1 DEF NoPing
<1>2. CASE \E gone \in BOOLEAN : Count(k, gone) /\ (gone => ~Exists(ping[k].pod))
  <2>1. \A l \in Ping \ {k} : ping'[l] = ping[l]
    BY <1>1, <1>2, CountIs, ZenonT(60)
  <2> QED BY <1>1, <1>2, <2>1 DEF Pinged, Checked
<1>3. CASE ~ \E gone \in BOOLEAN : Count(k, gone) /\ (gone => ~Exists(ping[k].pod))
  <2>1. /\ ping' = [ping EXCEPT ![k].pc = "check", ![k].pod = pod[Least(ping[k].left)]]
        /\ UNCHANGED <<world, page, elder, start, stop, look>>
    BY <1>3 DEF Pinged, Checked
  <2>2. ping \in [Ping -> PingRecord]
    BY DEF TypeOK, PingRecord
  <2> QED BY <1>1, <2>1, <2>2 DEF PingRecord
<1> QED BY <1>2, <1>3

\* Where no call outlasts a boot and no keepalive begins while Start is at work.
LEMMA CountedStep ==
  ASSUME TypeOK, Working, Looking, Halted, Counted, TypeOK', Working', [Next]_vars,
         "slow" \notin flags, \A k \in Ping : Keepalive(k) => start = 0
  PROVE  Counted'
<1> USE NameAssumption DEF session, world, page, nodeVars, buttons, history
<1>a. /\ ping \in [Ping -> PingRecord] /\ pod \in [Node -> Pod \union {None}]
      /\ stop \in [Stopper -> StopRecord]
  BY DEF TypeOK, PingRecord, StopRecord
<1>b. \A k \in Ping : ping[k] # NoPing =>
        /\ look = NoLook
        /\ start # 0 => k \in elder
        /\ pod[Least(ping[k].left)] \in {None, ping[k].pod}
        /\ ping[k].all => \A n \in Node \ ping[k].left :
             ~Runs(pod[n]) \/ \E j \in Stopper : stop[j].node = n
  BY DEF Counted
<1>c. \A k \in Ping : ping[k] # NoPing =>
        Least(ping[k].left) \in ping[k].left /\ ping[k].left \subseteq Node
  BY <1>a, LeastIsLeast DEF Working, PingRecord, Node
<1>1. ASSUME NEW k \in Sock,
             Opened(k) \/ Closed(k) \/ Lost(k) \/ Asked(k) \/ Reconnect(k)
      PROVE  Counted'
  <2>1. UNCHANGED <<flags, terms, cluster, pod, start, stop, ping, look, elder>>
    BY <1>1 DEF Opened, Closed, Lost, Asked, Reconnect
  <2> QED BY <2>1 DEF Counted, Runs, Node
<1>2. CASE UNCHANGED vars
  BY <1>2 DEF vars, Counted, Runs, Node
<1>3. CASE Start
  <2>1. UNCHANGED <<flags, terms, cluster, pod, stop, ping, look>> /\ elder' = UnderWay
    BY <1>3 DEF Start
  <2> QED BY <1>b, <2>1 DEF Counted, Runs, Node, UnderWay
<1>4. CASE BootFails
  <2>1. UNCHANGED <<flags, terms, cluster, pod, stop, ping, look>> /\ start' = 0
    BY <1>4 DEF BootFails
  <2> QED BY <1>b, <2>1 DEF Counted, Runs, Node
<1>5. ASSUME NEW p \in Pod, NEW k \in Sock, Booted(p, k) PROVE Counted'
  <2>1. elder = {} /\ start # 0 /\ ping' = ping
    BY <1>5 DEF Booted
  <2>2. \A l \in Ping : ping'[l] = NoPing
    BY <1>b, <2>1
  <2> QED BY <2>2 DEF Counted, NoPing
<1>6. ASSUME \/ \E j \in Stopper : DeleteArrives(j)
             \/ \E p \in Pod : Die(p)
      PROVE  Counted'
  <2>1. /\ UNCHANGED <<flags, terms, pod, start, stop, ping, look, elder>>
        /\ \A p : Runs(p)' => Runs(p)
    BY <1>6 DEF DeleteArrives, Die, Runs, Exists, TypeOK
  <2> QED BY <1>b, <2>1 DEF Counted, Node, Runs
<1>7. ASSUME NEW j \in Stopper, Stop(j) \/ Deleted(j) PROVE Counted'
  <2>1. PICK a \in Node \union {0} :
          StopWalk(j, a) /\ ((a = 0 /\ stop[j] = NoStop) \/ a = stop[j].node)
    BY <1>7 DEF Stop, Deleted, Working
  <2>2. /\ \A n \in Node \ {a} : pod'[n] = pod[n]
        /\ a \in Node => pod'[a] = None
        /\ \A l \in Stopper \ {j} : stop'[l] = stop[l]
        /\ UNCHANGED <<flags, terms, start, ping, look>>
    BY <2>1, StopWalkIs
  <2>3. elder' = elder \/ elder' = elder \ {j}
    BY <2>1, StopWalkIs
  <2>4. cluster' = cluster /\ Node' = Node
    BY <1>7, <2>2 DEF Stop, Deleted, Node
  <2>5. stop[j].node \in {0, a} /\ 0 \notin Node
    BY <2>1 DEF NoStop, Node
  <2>6. ASSUME NEW n \in Node,
               ~Runs(pod[n]) \/ \E l \in Stopper : stop[l].node = n
        PROVE  (~Runs(pod[n]))' \/ \E l \in Stopper : stop'[l].node = n
    BY <2>2, <2>4, <2>5, <2>6 DEF Runs
  <2>7. \A k \in Ping : ping[k] # NoPing => pod'[Least(ping[k].left)] \in {None, ping[k].pod}
    BY <1>b, <1>c, <2>2
  <2> QED BY <1>b, <2>2, <2>3, <2>4, <2>6, <2>7 DEF Counted
<1>8. ASSUME NEW k \in Ping, Keepalive(k) PROVE Counted'
  <2> DEFINE todo == {n \in Node : pod[n] # None /\ ~stopped[n]}
  <2>1. /\ todo # {} /\ start = 0
        /\ ping' = [ping EXCEPT ![k] =
             [pc |-> "ping", left |-> todo, pod |-> pod[Least(todo)], all |-> TRUE]]
        /\ UNCHANGED <<flags, terms, cluster, pod, stopped, start, stop, look, elder>>
    BY <1>8 DEF Keepalive
  <2>2. look = NoLook
    BY <2>1 DEF Looking, Idle
  <2>3. \A n \in Node \ todo : ~Runs(pod[n]) \/ \E j \in Stopper : stop[j].node = n
    BY DEF Halted, Runs
  <2>4. /\ ping'[k].left = todo /\ ping'[k].pod = pod[Least(todo)]
        /\ \A l \in Ping \ {k} : ping'[l] = ping[l]
    BY <1>a, <2>1
  <2> HIDE DEF todo
  <2> QED BY <1>b, <2>1, <2>2, <2>3, <2>4 DEF Counted, Runs, Node
<1>9. ASSUME NEW k \in Ping, Pinged(k) \/ Checked(k) PROVE Counted'
  <2>1. /\ ping[k] # NoPing
        /\ UNCHANGED <<flags, terms, cluster, start, stop, look>>
        /\ \A l \in Ping \ {k} : ping'[l] = ping[l]
    BY <1>9, PingStepIs
  <2>2. CASE /\ ping'[k].left = ping[k].left /\ ping'[k].all = ping[k].all
             /\ ping'[k].pod = pod[Least(ping[k].left)]
             /\ UNCHANGED <<page, elder>>
    BY <1>b, <2>1, <2>2 DEF Counted, Runs, Node
  <2>3. ASSUME NEW gone \in BOOLEAN, Count(k, gone), gone => ~Exists(ping[k].pod),
               ping[k].pc # "idle"
        PROVE  Counted'
    <3> DEFINE first == Least(ping[k].left)
               left == ping[k].left \ {first}
    <3>1. CASE /\ ping'[k] = [pc |-> "ping", left |-> left, pod |-> pod[Least(left)],
                              all |-> ping[k].all /\ gone]
               /\ UNCHANGED <<page, elder>>
      <4>1. /\ ping'[k].left = left /\ ping'[k].pod = pod[Least(left)]
            /\ ping'[k].all = (ping[k].all /\ gone)
        BY <3>1
      <4>2. gone => ~Runs(pod[first])
        BY <1>b, <2>1, <2>3 DEF Runs, Exists
      <4>3. \A n \in Node \ left : n = first \/ n \in Node \ ping[k].left
        OBVIOUS
      <4> HIDE DEF left, first
      <4>4. ping'[k].all => ping[k].all /\ gone
        BY Zenon, <4>1
      <4>5. ping'[k].all => \A n \in Node \ left :
              ~Runs(pod[n]) \/ \E j \in Stopper : stop[j].node = n
        BY <1>b, <2>1, <4>2, <4>3, <4>4
      <4> QED BY <1>b, <2>1, <3>1, <4>1, <4>5 DEF Counted, Runs, Node
    <3>2. CASE ping'[k] = NoPing /\ elder' = elder \ {k} /\ UNCHANGED page
      BY <1>b, <2>1, <3>2 DEF Counted, Runs, Node
    <3>3. CASE ping'[k] = NoPing /\ elder' = elder \ {k} /\ expireUI
      <4>1. \A n \in Node : pod'[n] = None
        BY <3>3 DEF expireUI, Idle
      <4> QED BY <1>b, <1>c, <2>1, <3>3, <4>1 DEF Counted, Runs, Node
    <3> QED
      <4>1. \/ /\ ping'[k] = [pc |-> "ping", left |-> left, pod |-> pod[Least(left)],
                              all |-> ping[k].all /\ gone]
               /\ UNCHANGED <<page, elder>>
            \/ ping'[k] = NoPing /\ elder' = elder \ {k} /\ (UNCHANGED page \/ expireUI)
        BY <2>3, CountIs
      <4> HIDE DEF left
      <4> QED BY <3>1, <3>2, <3>3, <4>1
  <2> QED BY <1>9, <2>2, <2>3, PingStepIs
<1>10. CASE LookStep
  <2>1. look # NoLook /\ ping' = ping
    BY <1>10 DEF LookStep, Looked, Reattached, NotReattached, NoLook
  <2>2. \A l \in Ping : ping'[l] = NoPing
    BY <1>b, <2>1
  <2> QED BY <2>2 DEF Counted
<1>11. CASE Reload
  <2>1. \A l \in Ping : ping'[l] = NoPing
    BY <1>11 DEF Reload
  <2> QED BY <2>1 DEF Counted
<1> QED
  BY <1>1, <1>2, <1>3, <1>4, <1>5, <1>6, <1>7, <1>8, <1>9, <1>10, <1>11
     DEF Next, SockStep, PingStep, StopStep

LEMMA FlagsStay ==
  ASSUME [Next]_vars
  PROVE  flags' = flags /\ terms' = terms
BY DEF Next, SockStep, PingStep, StopStep, LookStep, Opened, Closed, Lost, Asked,
   Reconnect, Booted, Keepalive, Pinged, Checked, Stop, Deleted, DeleteArrives,
   StopWalk, Start, BootFails, Looked, NotReattached, Reattached, Reload, Die, vars,
   session, world

LEMMA CountingStep ==
  ASSUME TypeOK, Working, Looking, Halted, Counting, TypeOK', Working', [Next]_vars
  PROVE  Counting'
<1> SUFFICES ASSUME flags \intersect {"slow", "peek"} = {} PROVE Counted'
  BY FlagsStay DEF Counting
<1>1. \A k \in Ping : Keepalive(k) => start = 0
  BY DEF Keepalive
<1> QED BY <1>1, CountedStep DEF Counting

\* A keepalive's reset takes no running pod from its panel.
LEMMA PanelsStep ==
  ASSUME TypeOK, Working, Looking, Counting, [Next]_vars,
         flags \intersect {"slow", "peek"} = {}
  PROVE  KeepsRunningPods
<1> USE NameAssumption DEF session, world, page, nodeVars, buttons, history
<1> SUFFICES ASSUME start = 0, reloads' = reloads, ~Stopping,
                    NEW n \in Node, Runs(pod[n])
             PROVE  pod'[n] = pod[n]
  BY DEF KeepsRunningPods
<1>1. ASSUME NEW k \in Sock, SockStep(k) \/ Lost(k) \/ \E p \in Pod : Booted(p, k)
      PROVE  pod' = pod
  BY <1>1 DEF SockStep, Opened, Closed, Lost, Asked, Reconnect, Booted
<1>2. ASSUME NEW j \in Stopper, Stop(j) PROVE pod'[n] = pod[n]
  <2>1. StopWalk(j, 0) /\ 0 \notin Node
    BY <1>2 DEF Stop, Node
  <2>2. \A m \in Node \ {0} : pod'[m] = pod[m]
    BY <2>1, StopWalkIs
  <2> QED BY <2>1, <2>2
<1>3. ASSUME NEW j \in Stopper, StopStep(j) PROVE FALSE
  BY <1>3 DEF StopStep, Deleted, DeleteArrives, Stopping
<1>4. ASSUME NEW k \in Ping, Keepalive(k) PROVE pod' = pod
  BY <1>4 DEF Keepalive
<1>5. ASSUME NEW k \in Ping, PingStep(k) PROVE pod'[n] = pod[n]
  <2>1. ping[k] # NoPing
    BY <1>5, PingStepIs DEF PingStep
  <2>2. /\ pod[Least(ping[k].left)] \in {None, ping[k].pod}
        /\ ping[k].all => \A m \in Node \ ping[k].left :
             ~Runs(pod[m]) \/ \E j \in Stopper : stop[j].node = m
    BY <2>1 DEF Counting, Counted
  <2>3. \A j \in Stopper : stop[j].node \notin Node
    BY DEF Stopping, NoStop, Node
  <2>4. CASE UNCHANGED page
    BY <2>4
  <2>5. ASSUME NEW gone \in BOOLEAN, gone, ping[k].all, ~Exists(ping[k].pod),
               ping[k].left \ {Least(ping[k].left)} = {}
        PROVE  FALSE
    <3>1. n \in ping[k].left
      BY <2>2, <2>3, <2>5
    <3>2. n = Least(ping[k].left)
      BY <2>5, <3>1
    <3> QED BY <2>2, <2>5, <3>2 DEF Runs, Exists
  <2>6. ASSUME NEW gone \in BOOLEAN, Count(k, gone), gone => ~Exists(ping[k].pod),
               ping[k].pc # "idle"
        PROVE  UNCHANGED page
    <3> DEFINE left == ping[k].left \ {Least(ping[k].left)}
    <3>1. UNCHANGED page \/ (left = {} /\ ping[k].all /\ gone)
      BY <2>6 DEF Count
    <3> QED BY <2>5, <2>6, <3>1
  <2> QED BY <1>5, <2>4, <2>6, PingStepIs DEF PingStep
<1>6. CASE Start \/ BootFails \/ (\E p \in Pod : Die(p)) \/ UNCHANGED vars
  BY <1>6 DEF Start, BootFails, Die, vars
<1>7. CASE LookStep
  <2>1. look # NoLook
    BY <1>7 DEF LookStep, Looked, Reattached, NotReattached, NoLook
  <2>2. pod[n] = None
    BY <2>1 DEF Looking, Idle
  <2> QED BY <2>2 DEF Runs
<1>8. CASE Reload
  BY <1>8 DEF Reload, TypeOK
<1> QED
  BY <1>1, <1>2, <1>3, <1>4, <1>5, <1>6, <1>7, <1>8 DEF Next
-----------------------------------------------------------------------------
LEMMA InitIInv == Init => IInv
<1> SUFFICES ASSUME Init PROVE IInv
  OBVIOUS
<1>1. TypeOK /\ Working
  BY InitTypes
<1>2. Wired /\ Looking /\ Halted /\ UpIsPinged /\ ScreenIsSaved
  BY DEF Init, Idle, Wired, Looking, Halted, UpIsPinged, ScreenIsSaved
<1>3. Counting
  BY DEF Init, Counting, Counted
<1> QED BY <1>1, <1>2, <1>3 DEF IInv

\* Every step preserves the invariant.
THEOREM Inductive == IInv /\ [Next]_vars => IInv'
<1> SUFFICES ASSUME IInv, [Next]_vars PROVE IInv'
  OBVIOUS
<1>1. TypeOK' /\ Working'
  BY TypeStep DEF IInv
<1>2. Wired' /\ Looking' /\ Halted' /\ UpIsPinged' /\ ScreenIsSaved'
  BY WiredStep, LookingStep, HaltedStep, UpStep DEF IInv
<1>3. Counting'
  BY <1>1, CountingStep DEF IInv
<1> QED BY <1>1, <1>2, <1>3 DEF IInv

\* The invariant that carries the theorems below holds in every behaviour.
THEOREM Invariant == Spec => []IInv
BY InitIInv, Inductive, PTL DEF Spec

\* Every variable of the page, its pods and its sessionStorage keeps its type.
THEOREM TypeCorrect == Spec => []TypeOK
<1>1. IInv => TypeOK
  BY DEF IInv
<1> QED BY <1>1, Invariant, PTL

\* While Stop is offered and not clicked there is a pod, and it is pinged
\* (layout.go:298-310).
THEOREM SessionsArePinged == Spec => []UpIsPinged
<1>1. IInv => UpIsPinged
  BY DEF IInv
<1> QED BY <1>1, Invariant, PTL

\* The pods a reload would reattach to are those on the screen.
THEOREM SessionsAreSaved == Spec => []ScreenIsSaved
<1>1. IInv => ScreenIsSaved
  BY DEF IInv
<1> QED BY <1>1, Invariant, PTL

\* A panel's open socket is to the panel's pod, in every environment.
THEOREM KeysReachOwnPod == Spec => []TypedIntoOwnPod
<1>1. IInv => TypedIntoOwnPod
  BY DEF IInv, TypeOK, Wired, TypedIntoOwnPod
<1> QED BY <1>1, Invariant, PTL

\* A keepalive resets the console only when no pod in it runs
\* (layout.go:333-336).
THEOREM ResetsOnlyDeadPanels == Spec => PanelsKeepRunningPods
<1>1. IInv /\ [Next]_vars =>
        [flags \intersect {"slow", "peek"} = {} => KeepsRunningPods]_vars
  BY PanelsStep DEF IInv
<1> QED BY <1>1, Invariant, PTL DEF Spec, PanelsKeepRunningPods
=============================================================================
