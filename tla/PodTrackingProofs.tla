-------------------------- MODULE PodTrackingProofs --------------------------
(***************************************************************************)
(* The lesson page loses sight of no pod it was given the name of, in the  *)
(* environments Tracked names.  The invariant follows a pod through boot,  *)
(* panel, sessionStorage, reattach and delete; LessonPageProofs has what   *)
(* it needs of sockets, buttons and keepalives.                            *)
(***************************************************************************)
EXTENDS LessonPageProofs

\* Tracked's environments.
Calm ==
  /\ flags \intersect {"callfail", "slow", "eager"} = {}
  /\ terms = 1 \/ flags \intersect {"bootfail", "die", "midway", "peek"} = {}

\* Without a session the panels Start has yet to boot for are empty, and it
\* waits for every Stop before its first boot.
Booting ==
  /\ ~up => \A n \in Node : start <= n => pod[n] = None
  /\ \A j \in Stopper : stop[j] # NoStop =>
       /\ look = NoLook
       /\ start \in {0, 1}
       /\ start # 0 => j \in elder

\* A Stop has emptied the panels before the one it is at, and that one may
\* hold no other pod than the one being deleted.
Emptying ==
  \A j \in Stopper : stop[j] # NoStop =>
    /\ \A n \in Node : n < stop[j].node => pod[n] = None
    /\ pod[stop[j].node] \in {None, stop[j].pod}
    /\ terms = 1 /\ Runs(stop[j].pod) => pod[stop[j].node] = stop[j].pod

\* What is on the screen of a session is saved; with several terminals, whose
\* pods do not die here, what is saved or booted runs.
Keeping ==
  /\ up => saved # None /\ \A n \in Node : pod[n] \in {None, saved[n]}
  /\ terms # 1 =>
       /\ ~Stopping /\ saved # None => \A n \in Node : Runs(saved[n])
       /\ \A n \in Node : n < start => Runs(pod[n])

\* A running pod the page has heard of is on the screen or being deleted, or
\* reattach has its name.
Remembering ==
  /\ look # NoLook => saved = look.pods
  /\ look.pc = "bad" => \E n \in Node : ~Runs(look.pods[n])
  /\ \A p \in learned : Runs(p) =>
       IF look = NoLook
       THEN (\E n \in Node : pod[n] = p) \/ \E j \in Stopper : stop[j].pod = p
       ELSE \E n \in Node : look.pods[n] = p

Tracking == Booting /\ Emptying /\ Keeping /\ Remembering

TInv == IInv /\ (Calm => Tracking /\ Counted)

-----------------------------------------------------------------------------
\* All that Tracking is about.
Seen ==
  <<flags, terms, cluster, pod, saved, up, start, stop, look, elder, learned>>

LEMMA SeenStep ==
  ASSUME Tracking, UNCHANGED Seen
  PROVE  Tracking'
BY DEF Tracking, Booting, Emptying, Keeping, Remembering, Seen, Node, Runs, Stopping

\* In a calm environment the page looks or starts, not both, and has no session
\* meanwhile.
LEMMA CalmIs ==
  ASSUME TypeOK, Looking, Calm
  PROVE  /\ "callfail" \notin flags /\ "slow" \notin flags /\ "eager" \notin flags
         /\ start # 0 => look = NoLook /\ ~up
         /\ look # NoLook => ~up /\ start = 0 /\ \A n \in Node : pod[n] = None
BY DEF Calm, Looking, Idle

LEMMA PanelTypes ==
  ASSUME TypeOK
  PROVE  /\ pod \in [Node -> Pod \union {None}] /\ None \notin Pod
         /\ stop \in [Stopper -> StopRecord]
         /\ Node \subseteq Nat \ {0} /\ start \in Nat /\ terms \in Node
         /\ \A n \in Node : n <= terms
         /\ \A q \in [Node -> Pod \union {None}] : q # None
         /\ learned \subseteq Pod
         /\ NoStop.pod = None /\ NoStop.node = 0
BY NameAssumption, BoundAssumption DEF TypeOK, StopRecord, Node, NoStop

\* Start and a failed boot.
LEMMA StartStep ==
  ASSUME TypeOK, Looking, Calm, Tracking, Start \/ BootFails
  PROVE  Tracking'
<1> USE DEF world, page, nodeVars, buttons, history
<1>1. CASE Start
  <2>1. /\ UNCHANGED <<flags, terms, cluster, pod, saved, up, stop, look, learned>>
        /\ start = 0 /\ start' = 1 /\ ~up /\ elder' = UnderWay /\ look = NoLook
    BY <1>1, CalmIs DEF Start
  <2>2. Booting'
    BY <2>1, PanelTypes DEF Tracking, Booting, Node, UnderWay
  <2>3. Emptying' /\ Remembering'
    BY <2>1 DEF Tracking, Emptying, Remembering, Node, Runs
  <2>4. Keeping'
    BY <2>1, PanelTypes DEF Tracking, Keeping, Node, Runs, Stopping
  <2> QED BY <2>2, <2>3, <2>4 DEF Tracking
<1>2. CASE BootFails
  <2>1. /\ UNCHANGED <<flags, terms, cluster, pod, saved, up, stop, look, learned>>
        /\ start # 0 /\ start' = 0 /\ terms = 1
    BY <1>2 DEF BootFails, Calm
  <2>2. start = 1
    BY <2>1 DEF TypeOK, Node
  <2>3. Booting'
    BY <2>1, <2>2, PanelTypes DEF Tracking, Booting, Node
  <2>4. Emptying' /\ Remembering'
    BY <2>1 DEF Tracking, Emptying, Remembering, Node, Runs
  <2>5. Keeping'
    BY <2>1 DEF Tracking, Keeping, Node, Runs, Stopping
  <2> QED BY <2>3, <2>4, <2>5 DEF Tracking
<1> QED BY <1>1, <1>2

\* A pod that is booted comes into an empty panel.
LEMMA BootStep ==
  ASSUME TypeOK, TypeOK', Looking, Calm, Tracking,
         NEW p \in Pod, NEW k \in Sock, Booted(p, k)
  PROVE  Tracking'
<1> USE DEF world, page, nodeVars, buttons, history
<1>1. /\ start \in Node /\ elder = {} /\ ~up /\ look = NoLook
      /\ pod' = [pod EXCEPT ![start] = p] /\ Node' = Node
      /\ cluster' = [cluster EXCEPT ![p] = "live"] /\ learned' = learned \union {p}
      /\ UNCHANGED <<flags, terms, stop, look>>
      /\ \/ start < terms /\ start' = start + 1 /\ UNCHANGED <<saved, up>>
         \/ start = terms /\ start' = 0 /\ saved' = pod' /\ up' = TRUE
  <2>1. start # 0 /\ start \in Node
    BY DEF Booted, TypeOK
  <2>2. start < terms \/ start = terms
    BY <2>1, PanelTypes
  <2> QED BY <2>1, <2>2, CalmIs, PanelTypes DEF Booted, SessionUp, Node
<1>2. \A j \in Stopper : stop[j] = NoStop
  BY <1>1, PanelTypes DEF Tracking, Booting
<1>3. pod[start] = None /\ \A n \in Node : start <= n => pod[n] = None
  BY <1>1, PanelTypes DEF Tracking, Booting
<1>4. /\ pod'[start] = p /\ \A n \in Node \ {start} : pod'[n] = pod[n]
      /\ Runs(p)' /\ \A q : Runs(q) => Runs(q)'
  BY <1>1, PanelTypes DEF Runs, TypeOK
<1>5. Booting'
  BY <1>1, <1>2, <1>3, <1>4, PanelTypes DEF Booting
<1>6. Emptying'
  BY <1>1, <1>2 DEF Emptying
<1>7. Keeping'
  <2>1. up' => saved' # None /\ \A n \in Node : pod'[n] \in {None, saved'[n]}
    BY <1>1, PanelTypes DEF TypeOK
  <2>2. ASSUME terms # 1, NEW n \in Node, n < start' \/ start' = 0
        PROVE  Runs(pod[n])'
    <3>1. n = start \/ n < start
      BY <1>1, <2>2, PanelTypes
    <3>2. CASE n < start
      <4>1. Runs(pod[n])
        BY <2>2, <3>2 DEF Tracking, Keeping
      <4> QED BY <1>1, <1>4, <3>2, <4>1, PanelTypes
    <3> QED BY <1>4, <3>1, <3>2
  <2>3. ASSUME terms # 1, saved' # None, ~Stopping, NEW n \in Node PROVE Runs(saved[n])'
    <3>1. CASE saved' = saved
      BY <1>2, <1>4, <2>3, <3>1 DEF Tracking, Keeping, Stopping
    <3>2. CASE saved' = pod' /\ start' = 0
      BY <2>2, <2>3, <3>2
    <3> QED BY <1>1, <3>1, <3>2
  <2> QED BY <1>1, <2>1, <2>2, <2>3 DEF Keeping, Stopping
<1>8. Remembering'
  <2>1. ASSUME NEW q \in learned', Runs(q)' PROVE \E n \in Node : pod'[n] = q
    <3>1. CASE q # p
      <4>1. q \in learned /\ Runs(q)
        BY <1>1, <2>1, <3>1 DEF Runs, TypeOK
      <4>2. \A j \in Stopper : stop[j].pod # q
        BY <1>2, <4>1, PanelTypes
      <4>3. PICK n \in Node : pod[n] = q
        BY <1>1, <4>1, <4>2 DEF Tracking, Remembering
      <4>4. n # start
        BY <1>3, <4>1, <4>3, PanelTypes
      <4> QED BY <1>4, <4>3, <4>4
    <3> QED BY <1>1, <1>4, <3>1
  <2> QED BY <1>1, <2>1 DEF Remembering, NoLook
<1> QED BY <1>5, <1>6, <1>7, <1>8 DEF Tracking

\* Stop empties only panels whose pod it has seen deleted, and ends with all of
\* them empty.
LEMMA WalkStep ==
  ASSUME TypeOK, Working, Looking, Calm, Tracking,
         NEW j \in Stopper, Stop(j) \/ Deleted(j)
  PROVE  Tracking'
<1>1. PICK a \in Node \union {0} :
        /\ StopWalk(j, a)
        /\ \/ a = 0 /\ stop[j] = NoStop /\ up
           \/ a = stop[j].node /\ a \in Node /\ stop[j] # NoStop /\ ~Exists(stop[j].pod)
  BY CalmIs DEF Stop, Deleted, Working
<1> DEFINE next == NextStop(a)
<1>2. /\ \A n \in Node \ {a} : pod'[n] = pod[n]
      /\ a \in Node => pod'[a] = None
      /\ \A l \in Stopper \ {j} : stop'[l] = stop[l]
      /\ \/ /\ next \in Node
            /\ stop'[j] = [node |-> next, pod |-> pod[next]]
            /\ stop'[j] # NoStop
            /\ UNCHANGED <<saved, up, elder>>
         \/ /\ next \notin Node /\ stop'[j] = NoStop
            /\ saved' = None /\ up' = FALSE /\ elder' = elder \ {j}
      /\ UNCHANGED <<flags, terms, start, look, learned>>
  BY <1>1, StopWalkIs DEF history
<1>3. cluster' = cluster /\ Node' = Node
  BY <1>2 DEF Stop, Deleted, Node
<1>4. /\ look = NoLook /\ start \in {0, 1}
      /\ start # 0 => stop[j] # NoStop /\ j \in elder
  BY <1>1, CalmIs DEF Tracking, Booting
<1>5. a \in Node => ~Runs(pod[a])
  BY <1>1, PanelTypes DEF Tracking, Emptying, Runs, Exists
<1>6. /\ a < next
      /\ \A n \in Node : n < next => pod'[n] = None
      /\ next \notin Node => \A n \in Node : n < next
  <2>1. /\ next \in Nat /\ a < next
        /\ next \notin Node => next = terms + 1
        /\ \A n \in Node : a < n /\ n < next => pod[n] = None
    BY NextStopIsNext
  <2>2. \A n \in Node : n < a => pod[n] = None
    BY <1>1, PanelTypes DEF Tracking, Emptying
  <2> HIDE DEF next
  <2>3. ASSUME NEW n \in Node, n < next PROVE pod'[n] = None
    <3>1. n < a \/ n = a \/ a < n
      BY PanelTypes
    <3>2. CASE n = a
      BY <1>2, <3>2
    <3> QED BY <1>2, <2>1, <2>2, <2>3, <3>1, <3>2, PanelTypes
  <2> QED BY <2>1, <2>3, PanelTypes
<1> HIDE DEF next
<1>7. \A n \in Node : pod'[n] \in {None, pod[n]} /\ (Runs(pod[n]) => pod'[n] = pod[n])
  BY <1>2, <1>5
<1>8. Booting'
  <2>1. ~up' => \A n \in Node : start <= n => pod'[n] = None
    BY <1>2, <1>6, <1>7 DEF Tracking, Booting
  <2>2. ASSUME NEW l \in Stopper, stop'[l] # NoStop
        PROVE  start # 0 => l \in elder'
    <3>1. CASE l = j
      BY <1>2, <1>4, <2>2, <3>1
    <3>2. CASE l # j
      BY <1>2, <2>2, <3>2 DEF Tracking, Booting
    <3> QED BY <3>1, <3>2
  <2> QED BY <1>2, <1>3, <1>4, <2>1, <2>2 DEF Booting
<1>9. Emptying'
  <2>1. ASSUME NEW l \in Stopper \ {j}, stop[l] # NoStop
        PROVE  /\ \A n \in Node : n < stop[l].node => pod'[n] = None
               /\ pod'[stop[l].node] \in {None, stop[l].pod}
               /\ terms = 1 /\ Runs(stop[l].pod) => pod'[stop[l].node] = stop[l].pod
    <3>1. stop[l].node \in Node
      BY <2>1 DEF Working
    <3> QED BY <1>7, <2>1, <3>1 DEF Tracking, Emptying
  <2>2. ASSUME stop'[j] # NoStop
        PROVE  /\ stop'[j].node = next /\ stop'[j].pod = pod'[next]
               /\ \A n \in Node : n < next => pod'[n] = None
    <3>1. next # a
      BY <1>6, PanelTypes
    <3>2. next \in Node /\ stop'[j] = [node |-> next, pod |-> pod[next]]
      BY <1>2, <2>2
    <3> QED BY <1>2, <1>6, <3>1, <3>2
  <2>3. ASSUME NEW l \in Stopper, stop'[l] # NoStop
        PROVE  /\ \A n \in Node : n < stop'[l].node => pod'[n] = None
               /\ pod'[stop'[l].node] \in {None, stop'[l].pod}
               /\ terms = 1 /\ Runs(stop[l].pod)' => pod'[stop'[l].node] = stop'[l].pod
    <3>1. CASE l = j
      BY <2>2, <2>3, <3>1
    <3>2. CASE l # j
      BY <1>2, <1>3, <2>1, <2>3, <3>2 DEF Runs
    <3> QED BY <3>1, <3>2
  <2> QED BY <1>2, <1>3, <2>3 DEF Emptying
<1>10. Keeping'
  <2>1. up' => saved' # None /\ \A n \in Node : pod'[n] \in {None, saved'[n]}
    BY <1>2, <1>7 DEF Tracking, Keeping
  <2>2. ~Stopping' => saved' = None
    BY <1>2 DEF Stopping
  <2>3. \A n \in Node : ~ (n < start)
    BY <1>4, PanelTypes
  <2> QED BY <1>2, <1>3, <2>1, <2>2, <2>3 DEF Keeping
<1>11. Remembering'
  <2>1. ASSUME NEW p \in learned, Runs(p)
        PROVE  (\E n \in Node : pod'[n] = p) \/ \E l \in Stopper : stop'[l].pod = p
    <3>1. (\E n \in Node : pod[n] = p) \/ \E l \in Stopper : stop[l].pod = p
      BY <1>4, <2>1 DEF Tracking, Remembering
    <3>2. stop[j].pod # p
      BY <1>1, <2>1, PanelTypes DEF Runs, Exists
    <3> QED BY <1>2, <1>7, <2>1, <3>1, <3>2
  <2> QED BY <1>2, <1>3, <1>4, <2>1 DEF Remembering, Runs, NoLook
<1> QED BY <1>8, <1>9, <1>10, <1>11 DEF Tracking

\* A keepalive that resets the console has found every panel's pod gone, but
\* for one that is being deleted.
LEMMA ExpireStep ==
  ASSUME TypeOK, Working, Calm, Tracking, Counted,
         NEW k \in Ping, Pinged(k) \/ Checked(k)
  PROVE  Tracking'
<1> USE DEF world, page, nodeVars, buttons, history
<1> DEFINE left == ping[k].left \ {Least(ping[k].left)}
<1>1. /\ ping[k] # NoPing /\ k \notin Stopper
      /\ UNCHANGED <<flags, terms, cluster, start, stop, look, learned>> /\ Node' = Node
  BY PingStepIs, NameAssumption DEF Node
<1>2. /\ look = NoLook
      /\ pod[Least(ping[k].left)] \in {None, ping[k].pod}
      /\ ping[k].all => \A n \in Node \ ping[k].left :
           ~Runs(pod[n]) \/ \E j \in Stopper : stop[j].node = n
      /\ ping[k].left # {} /\ ping[k].left \subseteq Node
  BY <1>1 DEF Counted, Working, TypeOK
<1>3. /\ elder' \in {elder, elder \ {k}}
      /\ \/ UNCHANGED <<pod, saved, up>>
         \/ expireUI /\ ping[k].all /\ ~Exists(ping[k].pod) /\ left = {}
  <2>1. CASE UNCHANGED <<page, elder>>
    BY <2>1
  <2>2. ASSUME NEW gone \in BOOLEAN, Count(k, gone), gone => ~Exists(ping[k].pod),
               ping[k].pc # "idle"
        PROVE  /\ elder' \in {elder, elder \ {k}}
               /\ \/ UNCHANGED page
                  \/ expireUI /\ ping[k].all /\ gone /\ left = {}
    <3>1. \/ UNCHANGED <<page, elder>>
          \/ /\ left = {} /\ elder' = elder \ {k}
             /\ UNCHANGED page \/ (ping[k].all /\ gone /\ expireUI)
      BY <2>2 DEF Count
    <3> HIDE DEF left
    <3> QED BY <3>1
  <2> HIDE DEF left
  <2> QED BY <2>1, <2>2, PingStepIs
<1>5. CASE UNCHANGED <<pod, saved, up>>
  <2>1. Booting'
    BY <1>1, <1>3, <1>5 DEF Tracking, Booting
  <2>2. Emptying' /\ Keeping' /\ Remembering'
    BY <1>1, <1>5 DEF Tracking, Emptying, Keeping, Remembering, Runs, Stopping
  <2> QED BY <2>1, <2>2 DEF Tracking
<1>6. CASE expireUI /\ ping[k].all /\ ~Exists(ping[k].pod) /\ left = {}
  <2>1. /\ \A n \in Node : pod'[n] = None
        /\ saved' = None /\ up' = FALSE
    BY <1>6, <1>1 DEF expireUI, Idle
  <2>2. \A n \in ping[k].left : ~Runs(pod[n])
    BY <1>2, <1>6, PanelTypes DEF Runs, Exists
  <2>3. ASSUME NEW n \in Node, Runs(pod[n])
        PROVE  /\ terms # 1
               /\ \E j \in Stopper : stop[j] # NoStop /\ stop[j].node = n
    <3>1. n \notin ping[k].left
      BY <2>2, <2>3
    <3>2. PICK j \in Stopper : stop[j].node = n
      BY <1>2, <1>6, <2>3, <3>1
    <3>3. terms # 1
      BY <1>2, <3>1 DEF Node
    <3> QED BY <3>2, <3>3, PanelTypes
  <2>4. Booting'
    BY <1>1, <1>3, <2>1 DEF Tracking, Booting
  <2>5. Emptying'
    <3>1. ASSUME NEW j \in Stopper, stop[j] # NoStop
          PROVE  stop[j].node \in Node /\ ~ (terms = 1 /\ Runs(stop[j].pod))
      BY <2>3, <3>1 DEF Working, Tracking, Emptying
    <3> QED BY <1>1, <2>1, <3>1 DEF Emptying, Runs
  <2>6. Keeping'
    <3>1. ASSUME terms # 1, NEW n \in Node, n < start PROVE FALSE
      <4>1. PICK j \in Stopper : stop[j] # NoStop
        BY <2>3, <3>1 DEF Tracking, Keeping
      <4>2. start \in {0, 1}
        BY <4>1 DEF Tracking, Booting
      <4> QED BY <3>1, <4>2, PanelTypes
    <3> QED BY <1>1, <2>1, <3>1 DEF Keeping
  <2>7. Remembering'
    <3>1. ASSUME NEW p \in learned, Runs(p) PROVE \E j \in Stopper : stop[j].pod = p
      <4>1. CASE \E n \in Node : pod[n] = p
        <5>1. PICK n \in Node : pod[n] = p
          BY <4>1
        <5>2. PICK j \in Stopper : stop[j] # NoStop /\ stop[j].node = n
          BY <2>3, <3>1, <5>1
        <5> QED BY <3>1, <5>1, <5>2, PanelTypes DEF Tracking, Emptying
      <4> QED BY <1>2, <3>1, <4>1 DEF Tracking, Remembering
    <3> QED BY <1>1, <1>2, <3>1 DEF Remembering, Runs, NoLook
  <2> QED BY <2>4, <2>5, <2>6, <2>7 DEF Tracking
<1> QED BY <1>3, <1>5, <1>6

\* What reattach is given is saved, and shows on the screen or runs no more.
LEMMA LookingTracks ==
  ASSUME TypeOK, Working, Looking, Calm, Tracking, LookStep
  PROVE  Tracking'
<1> USE DEF world, page, nodeVars, buttons, history
<1>1. look # NoLook
  BY DEF LookStep, Looked, Reattached, NotReattached, NoLook
<1>2. /\ ~up /\ start = 0 /\ \A n \in Node : pod[n] = None
      /\ \A j \in Stopper : stop[j] = NoStop
      /\ saved = look.pods /\ saved # None /\ ~Stopping
  BY <1>1, CalmIs DEF Tracking, Booting, Remembering, Working, Stopping
<1>3. /\ UNCHANGED <<flags, terms, cluster, start, stop, learned>> /\ Node' = Node
      /\ \A j \in Stopper : stop'[j] = NoStop
  BY <1>2 DEF LookStep, Looked, Reattached, NotReattached, Node
<1>4. Emptying'
  BY <1>3 DEF Emptying
<1>5. \A p \in learned : Runs(p) => \E n \in Node : look.pods[n] = p
  BY <1>1 DEF Tracking, Remembering
<1>6. terms # 1 => \A n \in Node : Runs(look.pods[n])
  BY <1>2 DEF Tracking, Keeping
<1>7. CASE Looked
  <2>1. /\ UNCHANGED <<pod, saved, up>>
        /\ look' # NoLook /\ look'.pods = look.pods
        /\ look'.pc = "bad" => \E n \in Node : ~Runs(look.pods[n])
    BY <1>7, CalmIs DEF Looked, NoLook, TypeOK
  <2>2. Booting'
    BY <1>2, <1>3, <2>1 DEF Booting
  <2>3. Keeping'
    BY <1>3, <2>1 DEF Tracking, Keeping, Runs, Stopping
  <2>4. Remembering'
    BY <1>2, <1>3, <1>5, <2>1 DEF Remembering, Runs
  <2> QED BY <1>4, <2>2, <2>3, <2>4 DEF Tracking
<1>8. CASE NotReattached
  <2>1. UNCHANGED <<pod, up>> /\ saved' = None /\ look' = NoLook /\ look.pc = "bad"
    BY <1>8 DEF NotReattached
  <2>2. PICK n \in Node : ~Runs(look.pods[n])
    BY <2>1 DEF Tracking, Remembering
  <2>3. Node = {1}
    BY <1>6, <2>2 DEF Node
  <2>4. \A p \in learned : ~Runs(p)
    BY <1>5, <2>2, <2>3
  <2>5. Booting'
    BY <1>2, <1>3, <2>1 DEF Booting
  <2>6. Keeping'
    BY <1>2, <1>3, <2>1, PanelTypes DEF Keeping
  <2>7. Remembering'
    BY <1>3, <2>1, <2>4 DEF Remembering, Runs, NoLook
  <2> QED BY <1>4, <2>5, <2>6, <2>7 DEF Tracking
<1>9. CASE \E f \in [Node -> Free] : Reattached(f)
  <2>1. /\ pod' = look.pods /\ saved' = pod' /\ up' = TRUE /\ look' = NoLook
    BY <1>9 DEF Reattached, SessionUp
  <2>2. Booting'
    BY <1>3, <2>1 DEF Booting
  <2>3. Keeping'
    BY <1>2, <1>3, <1>6, <2>1, PanelTypes DEF Keeping, Runs
  <2>4. Remembering'
    BY <1>3, <1>5, <2>1 DEF Remembering, Runs, NoLook
  <2> QED BY <1>4, <2>2, <2>3, <2>4 DEF Tracking
<1> QED BY <1>7, <1>8, <1>9 DEF LookStep

\* A load of the page finds the running pods of the one before saved.
LEMMA ReloadStep ==
  ASSUME TypeOK, Working, Looking, Calm, Tracking, Reload
  PROVE  Tracking'
<1>1. /\ UNCHANGED <<flags, terms, saved, learned>> /\ Node' = Node
      /\ up' = FALSE /\ start' = 0 /\ \A n \in Node : pod'[n] = None
      /\ \A j \in Stopper : stop'[j] = NoStop
      /\ look' = IF saved = None THEN NoLook ELSE [pc |-> "asked", pods |-> saved]
      /\ \A p : Runs(p)' => Runs(p)
  BY DEF Reload, Idle, Node, Runs
<1>2. "midway" \notin flags =>
        /\ start = 0 /\ \A j \in Stopper : stop[j] = NoStop
        /\ \A p : Runs(p) => Runs(p)'
  <2>1. ASSUME "midway" \notin flags PROVE start = 0 /\ \A j \in Stopper : stop[j] = NoStop
    BY <2>1 DEF Reload
  <2>2. ASSUME "midway" \notin flags, NEW p, Runs(p) PROVE Runs(p)'
    <3>1. \A j \in Stopper : stop[j].pod # p
      BY <2>1, <2>2, PanelTypes DEF Runs
    <3> QED BY <2>2, <3>1 DEF Reload, Runs
  <2> QED BY <2>1, <2>2
<1>3. terms # 1 => "midway" \notin flags
  BY DEF Calm
<1>4. ASSUME NEW p \in learned, Runs(p), look = NoLook
      PROVE  \E n \in Node : pod[n] = p
  <2>1. CASE \E j \in Stopper : stop[j].pod = p
    <3>1. PICK j \in Stopper : stop[j].pod = p
      BY <2>1
    <3>2. stop[j] # NoStop
      BY <1>4, <3>1, PanelTypes
    <3>3. terms = 1
      BY <1>2, <1>3, <3>2
    <3> QED BY <1>4, <3>1, <3>2, <3>3 DEF Working, Tracking, Emptying
  <2> QED BY <1>4, <2>1 DEF Tracking, Remembering
<1>5. ASSUME NEW p \in learned, Runs(p)
      PROVE  saved # None /\ \E n \in Node : saved[n] = p
  <2>1. CASE look = NoLook
    <3>1. PICK n \in Node : pod[n] = p
      BY <1>4, <1>5, <2>1
    <3>2. start <= n
      <4>1. CASE terms = 1
        <5>1. start \in {0, 1}
          BY <4>1 DEF TypeOK, Node
        <5> QED BY <5>1, PanelTypes
      <4>2. CASE terms # 1
        BY <1>2, <1>3, <4>2, PanelTypes
      <4> QED BY <4>1, <4>2
    <3>3. pod[n] # None
      BY <1>5, <3>1, PanelTypes
    <3>4. up
      BY <3>2, <3>3 DEF Tracking, Booting
    <3> QED BY <3>1, <3>3, <3>4 DEF Tracking, Keeping
  <2>2. CASE look # NoLook
    BY <1>5, <2>2 DEF Tracking, Remembering, Working
  <2> QED BY <2>1, <2>2
<1>6. Booting' /\ Emptying'
  BY <1>1 DEF Booting, Emptying
<1>7. Keeping'
  <2>1. ASSUME terms # 1, saved # None PROVE \A n \in Node : Runs(saved[n])'
    <3>1. ~Stopping
      BY <1>2, <1>3, <2>1 DEF Stopping
    <3>2. \A n \in Node : Runs(saved[n])
      BY <2>1, <3>1 DEF Tracking, Keeping
    <3>3. \A n \in Node : cluster'[saved[n]] = "live"
      BY <1>2, <1>3, <2>1, <3>2 DEF Runs
    <3> QED BY <1>1, <3>2, <3>3 DEF Runs
  <2>2. \A n \in Node : ~ (n < start')
    BY <1>1, PanelTypes
  <2> QED BY <1>1, <2>1, <2>2 DEF Keeping
<1>8. Remembering'
  <2>1. look'.pc # "bad" /\ (look' # NoLook => saved' = look'.pods)
    BY <1>1 DEF NoLook
  <2>2. ASSUME NEW p \in learned, Runs(p)'
        PROVE  look' # NoLook /\ \E n \in Node : look'.pods[n] = p
    <3>1. Runs(p)
      BY <1>1, <2>2
    <3>2. saved # None /\ \E n \in Node : saved[n] = p
      BY <1>5, <3>1
    <3> QED BY <1>1, <3>2 DEF NoLook
  <2> QED BY <1>1, <2>1, <2>2 DEF Remembering
<1> QED BY <1>6, <1>7, <1>8 DEF Tracking

\* Pods that end, or are deleted, need not be tracked.
LEMMA EndStep ==
  ASSUME TypeOK, Calm, Tracking,
         (\E j \in Stopper : DeleteArrives(j)) \/ (\E p \in Pod : Die(p))
  PROVE  Tracking'
<1> USE DEF world, page, nodeVars, buttons, history
<1>1. /\ UNCHANGED <<flags, terms, pod, saved, up, start, stop, look, elder, learned>>
      /\ Node' = Node /\ \A p : Runs(p)' => Runs(p)
  BY DEF DeleteArrives, Die, Runs, Node, TypeOK
<1>2. Booting'
  BY <1>1 DEF Tracking, Booting
<1>3. Emptying'
  BY <1>1 DEF Tracking, Emptying, Runs
<1>4. Keeping'
  <2>1. CASE \E j \in Stopper : DeleteArrives(j)
    <3>1. PICK j \in Stopper : stop[j] # NoStop
      BY <2>1 DEF DeleteArrives
    <3>2. start \in {0, 1} /\ Stopping
      BY <3>1 DEF Tracking, Booting, Stopping
    <3>3. \A n \in Node : ~ (n < start)
      BY <3>2, PanelTypes
    <3> QED BY <1>1, <3>2, <3>3 DEF Tracking, Keeping, Stopping
  <2>2. CASE \E p \in Pod : Die(p)
    <3>1. terms = 1
      BY <2>2 DEF Die, Calm
    <3> QED BY <1>1, <3>1 DEF Tracking, Keeping
  <2> QED BY <2>1, <2>2
<1>5. Remembering'
  BY <1>1 DEF Tracking, Remembering, Runs
<1> QED BY <1>2, <1>3, <1>4, <1>5 DEF Tracking
-----------------------------------------------------------------------------
LEMMA TrackingStep ==
  ASSUME TypeOK, TypeOK', Working, Looking, Calm, Tracking, Counted, [Next]_vars
  PROVE  Tracking'
<1> USE DEF session, world, page, nodeVars, buttons, history
<1>1. ASSUME NEW k \in Sock,
             Opened(k) \/ Closed(k) \/ Lost(k) \/ Asked(k) \/ Reconnect(k)
      PROVE  Tracking'
  <2>1. UNCHANGED Seen
    BY <1>1 DEF Opened, Closed, Lost, Asked, Reconnect, Seen
  <2> QED BY <2>1, SeenStep
<1>2. CASE UNCHANGED vars \/ \E k \in Ping : Keepalive(k)
  <2>1. UNCHANGED Seen
    BY <1>2 DEF Keepalive, vars, Seen
  <2> QED BY <2>1, SeenStep
<1>3. ASSUME NEW k \in Ping, PingStep(k) PROVE Tracking'
  BY <1>3, ExpireStep DEF PingStep
<1>4. ASSUME NEW j \in Stopper, Stop(j) \/ StopStep(j) PROVE Tracking'
  BY <1>4, WalkStep, EndStep DEF StopStep
<1> QED
  BY <1>1, <1>2, <1>3, <1>4, BootStep, StartStep, LookingTracks, ReloadStep, EndStep
     DEF Next, SockStep

\* A keepalive begins only when Start is not at work: with one terminal its
\* panel is empty until then.
LEMMA CalmCounts ==
  ASSUME TypeOK, Looking, Calm, Tracking, NEW k \in Ping, Keepalive(k)
  PROVE  start = 0
<1> SUFFICES ASSUME start # 0 PROVE FALSE
  OBVIOUS
<1>1. Node = {1} /\ start = 1
  BY DEF Keepalive, Calm, TypeOK, Node
<1>2. pod[1] = None
  BY <1>1, CalmIs DEF Tracking, Booting
<1> QED BY <1>1, <1>2 DEF Keepalive

LEMMA TrackingInductive == TInv /\ [Next]_vars => TInv'
<1> SUFFICES ASSUME TInv, [Next]_vars PROVE TInv'
  OBVIOUS
<1>1. IInv /\ IInv'
  BY Inductive DEF TInv
<1>2. Calm' => Calm
  BY FlagsStay DEF Calm
<1>3. ASSUME Calm PROVE Tracking' /\ Counted'
  <2>1. Tracking /\ Counted /\ "slow" \notin flags
    BY <1>3 DEF TInv, Calm
  <2>2. Tracking'
    BY <1>1, <1>3, <2>1, TrackingStep DEF IInv
  <2>3. \A k \in Ping : Keepalive(k) => start = 0
    BY <1>1, <1>3, <2>1, CalmCounts DEF IInv
  <2>4. Counted'
    BY <1>1, <2>1, <2>3, CountedStep DEF IInv
  <2> QED BY <2>2, <2>4
<1> QED BY <1>1, <1>2, <1>3 DEF TInv

LEMMA InitTracking == Init => TInv
<1> SUFFICES ASSUME Init PROVE TInv
  OBVIOUS
<1>1. IInv
  BY InitIInv
<1>2. Booting /\ Emptying /\ Counted
  BY DEF Init, Booting, Emptying, Counted, Idle
<1>3. Keeping /\ Remembering
  BY <1>1, PanelTypes DEF IInv, Init, Keeping, Remembering, NoLook
<1> QED BY <1>1, <1>2, <1>3 DEF TInv, Tracking

\* No running pod the page was given the name of is forgotten (layout.go:145-146),
\* in the environments Tracked names: each is in a panel, saved, or being deleted.
THEOREM PodsAreTracked == Spec => []Tracked
<1>1. TInv => Tracked
  <2> SUFFICES ASSUME TInv, Calm, NEW p \in learned, Runs(p)
               PROVE  \/ \E n \in Node : pod[n] = p
                      \/ saved # None /\ \E n \in Node : saved[n] = p
                      \/ \E j \in Stopper : stop[j].pod = p
    BY DEF Tracked, NothingForgotten, Calm
  <2>1. Remembering /\ Working
    BY DEF TInv, IInv, Tracking
  <2>2. CASE look = NoLook
    BY <2>1, <2>2 DEF Remembering
  <2>3. CASE look # NoLook
    BY <2>1, <2>3 DEF Remembering, Working
  <2> QED BY <2>2, <2>3
<1> QED BY <1>1, InitTracking, TrackingInductive, PTL DEF Spec
=============================================================================
