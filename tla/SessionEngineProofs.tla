------------------------- MODULE SessionEngineProofs -------------------------
(***************************************************************************)
(* The safety invariants of SessionEngine, for every set of pods and       *)
(* keepalives, every TTL and every bound.  They are not inductive alone:   *)
(* each needs to know where a pod stands in its life (Lifecycle), what its *)
(* labels were computed from (Labelled) and what a keepalive or a pass of  *)
(* the collector under way still remembers (Pinging, Collecting).          *)
(***************************************************************************)
EXTENDS SessionEngine, TLAPS

\* A name is free until Create; a session the page knows has had its pod.
Lifecycle ==
  \A p \in Pod :
    /\ boot[p] \in {"idle", "create"} => exists[p] = "new"
    /\ boot[p] = "ok" => exists[p] # "new"

\* The hard cap is fixed with the labels and no page is told a later expiry.
Labelled ==
  \A p \in Pod :
    /\ boot[p] = "idle" => told[p] = 0
    /\ boot[p] # "idle" => hard[p] = born[p] + TTL
    /\ told[p] <= born[p] + TTL

\* A keepalive is about a pod some page holds.
Pinging ==
  \A k \in Ping :
    /\ ping[k].pc = "patch" =>
         ping[k].pod \in Pod /\ boot[ping[k].pod] = "ok" /\ ping[k].window # 0
    /\ ping[k].pc = "gone" =>
         ping[k].pod \in Pod /\ exists[ping[k].pod] = "gone"

\* The pass works on pods that exist; what it saw is what a pod still carries
\* unless a keepalive has patched it since.
Collecting ==
  /\ gc # "reap" => condemned = {}
  /\ \A p \in Pod :
       /\ exists[p] = "new" => seen[p] = 0 /\ p \notin condemned
       /\ seen[p] # 0 /\ Live(p) /\ p \notin renewed => Expiry(p) = seen[p]
       /\ p \in condemned /\ Live(p) /\ p \notin renewed => Expiry(p) < now

\* Only an idle window that is on is a label, and none is further away than one
\* that opens now.
Windowed ==
  \A p \in Pod :
    /\ boot[p] # "idle" => (idle[p] = 0 <=> idleTTL <= 0)
    /\ idle[p] # 0 => idle[p] <= now + idleTTL

\* No page was told of a pod that is still to be created.  A keepalive that has
\* read its pod brings a later window, unless another was under way.
Sliding ==
  /\ \A p \in Pod : exists[p] = "new" => told[p] = 0
  /\ \A k \in Ping :
       ping[k].pc = "patch" =>
         /\ idleTTL > 0 /\ ping[k].window <= now + idleTTL
         /\ ping[k].pod \notin overtaken =>
              /\ idle[ping[k].pod] <= ping[k].window
              /\ \A j \in Ping :
                   ping[j].pc = "patch" /\ ping[j].pod = ping[k].pod => j = k

IInv ==
  /\ TypeOK
  /\ Lifecycle
  /\ Labelled
  /\ Pinging
  /\ Collecting
  /\ Windowed
  /\ Sliding
  /\ ToldIsKept
  /\ FailedBootIsCleanedUp

-----------------------------------------------------------------------------
(* effectiveExpiry is the sooner deadline, an absent label counting as none. *)

LEMMA ExpiryIsSooner ==
  ASSUME NEW h \in Nat, NEW i \in Nat
  PROVE  effectiveExpiry(h, i) =
           IF h = 0 THEN i ELSE IF i = 0 \/ h <= i THEN h ELSE i
<1> DEFINE set == {h, i} \ {0}
           sooner == IF h = 0 THEN i ELSE IF i = 0 \/ h <= i THEN h ELSE i
<1>1. CASE set = {}
  BY <1>1 DEF effectiveExpiry
<1>2. CASE set # {}
  <2>1. sooner \in set /\ \A y \in set : sooner <= y
    BY <1>2
  <2>2. \A x \in set : (\A y \in set : x <= y) => x = sooner
    BY <2>1
  <2>3. (CHOOSE x \in set : \A y \in set : x <= y) = sooner
    BY <2>1, <2>2
  <2> QED BY <1>2, <2>3 DEF effectiveExpiry
<1> QED BY <1>1, <1>2

LEMMA ExpiryBound ==
  ASSUME NEW h \in Nat, NEW i \in Nat
  PROVE  /\ effectiveExpiry(h, i) \in Nat
         /\ h # 0 => effectiveExpiry(h, i) \in 1..h
BY ExpiryIsSooner

\* The session API hands out an expiry of a pod whose labels are complete.
LEMMA LabelledExpiry ==
  ASSUME TypeOK, Labelled, NEW p \in Pod, boot[p] # "idle"
  PROVE  /\ Expiry(p) \in 1..(born[p] + TTL)
         /\ \A w \in Nat : effectiveExpiry(hard[p], w) \in 1..(born[p] + TTL)
<1>1. hard[p] = born[p] + TTL /\ hard[p] \in Nat \ {0} /\ idle[p] \in Nat
  BY TimeAssumption DEF TypeOK, Labelled
<1> QED BY <1>1, ExpiryBound DEF Expiry

-----------------------------------------------------------------------------
LEMMA InitIInv == Init => IInv
BY TimeAssumption DEF Init, IInv, TypeOK, NoPing, Lifecycle, Labelled, Pinging,
     Collecting, Windowed, Sliding, ToldIsKept, FailedBootIsCleanedUp, Live

\* Every action keeps every variable in its type.
LEMMA TypeStep == TypeOK /\ Lifecycle /\ Labelled /\ Pinging /\ [Next]_vars => TypeOK'
<1> SUFFICES ASSUME TypeOK, Lifecycle, Labelled, Pinging, [Next]_vars PROVE TypeOK'
  OBVIOUS
<1> USE TimeAssumption DEF collector, labels, cluster, report
<1>1. ASSUME NEW p \in Pod, Request(p) PROVE TypeOK'
  BY <1>1 DEF TypeOK, Request, Advance
<1>2. ASSUME NEW p \in Pod, Create(p) \/ CreateFails(p) PROVE TypeOK'
  BY <1>2 DEF TypeOK, Create, CreateFails, Advance, Fail
<1>3. ASSUME NEW p \in Pod, Ready(p) PROVE TypeOK'
  <2>1. Expiry(p) \in Nat
    BY <1>3, LabelledExpiry, ExpiryBound DEF TypeOK, Ready, Expiry
  <2> QED BY <1>3, <2>1 DEF TypeOK, Ready, Advance, Tell
<1>4. ASSUME NEW p \in Pod, WaitFails(p) \/ Cleanup(p) \/ Stop(p) PROVE TypeOK'
  BY <1>4 DEF TypeOK, WaitFails, Cleanup, Stop, Advance, Delete, Fail
<1>5. ASSUME NEW p \in Pod, Kubelet(p) PROVE TypeOK'
  BY <1>5 DEF TypeOK, Kubelet
<1>6. ASSUME NEW k \in Ping, NEW p \in Pod, PingGet(k, p) PROVE TypeOK'
  <2>1. Expiry(p) \in Nat
    BY ExpiryBound DEF TypeOK, Expiry
  <2> DEFINE Place == [pc : {"idle", "patch", "gone"}, pod : Pod \union {None}, window : Nat]
  <2>2. ping' \in [Ping -> Place]
    <3>1. idleTTL > 0 => now + idleTTL \in Nat
      BY DEF TypeOK
    <3>2. \E v \in Place : ping' = [ping EXCEPT ![k] = v]
      BY <1>6, <3>1 DEF PingGet, Answer, AnswerNotFound, AnswerError, NoPing
    <3> QED BY <3>2 DEF TypeOK
  <2>3. told' \in [Pod -> Nat] /\ fails' \in 0..MaxFail
    <3>1. told' = told \/ Tell(p, Expiry(p))
      BY <1>6 DEF PingGet
    <3>2. fails' = fails \/ Fail
      BY <1>6 DEF PingGet
    <3> QED BY <2>1, <3>1, <3>2 DEF TypeOK, Fail, Tell
  <2>4. UNCHANGED <<now, idleTTL, cluster, boot, collector, born, crashes>>
    BY <1>6 DEF PingGet
  <2>5. overtaken' \in SUBSET Pod
    BY <1>6 DEF PingGet, TypeOK
  <2> QED BY <2>2, <2>3, <2>4, <2>5 DEF TypeOK
<1>7. ASSUME NEW k \in Ping, PingPatch(k) PROVE TypeOK'
  <2> DEFINE p == ping[k].pod
  <2>1. p \in Pod /\ ping[k].window \in Nat
    BY <1>7 DEF TypeOK, Pinging, PingPatch
  <2>2. Extended(k, p) \in Nat
    BY <2>1, ExpiryBound DEF TypeOK, Extended
  <2>3. ping' \in [Ping -> [pc : {"idle", "patch", "gone"}, pod : Pod \union {None}, window : Nat]]
    BY <1>7, <2>1, SMTT(30) DEF TypeOK, PingPatch, Answer, AnswerNotFound, AnswerError, NoPing
  <2>4. idle' \in [Pod -> Nat] /\ renewed' \in SUBSET Pod /\ told' \in [Pod -> Nat] /\ fails' \in 0..MaxFail
    BY <1>7, <2>1, <2>2 DEF TypeOK, PingPatch, Slide, Fail, Tell
  <2> QED BY <1>7, <2>3, <2>4 DEF TypeOK, PingPatch
<1>8. ASSUME GCList PROVE TypeOK'
  <2>1. \A p \in Pod : Expiry(p) \in Nat
    BY ExpiryBound DEF TypeOK, Expiry
  <2> QED BY <1>8, <2>1 DEF TypeOK, GCList
<1>9. ASSUME GCClock \/ GCDone PROVE TypeOK'
  BY <1>9 DEF TypeOK, GCClock, GCDone
<1>10. ASSUME NEW p \in Pod, GCDelete(p) PROVE TypeOK'
  BY <1>10 DEF TypeOK, GCDelete, Delete, Fail
<1>11. ASSUME Tick \/ Crash PROVE TypeOK'
  BY <1>11 DEF TypeOK, Tick, Crash, NoPing
<1>12. CASE UNCHANGED vars
  BY <1>12 DEF TypeOK, vars
<1> QED
  BY <1>1, <1>2, <1>3, <1>4, <1>5, <1>6, <1>7, <1>8, <1>9, <1>10, <1>11, <1>12
     DEF Next, BootStep, Collect

\* A pod is created under a name that was free and stays gone once it is gone.
LEMMA LifecycleStep == TypeOK /\ Lifecycle /\ [Next]_vars => Lifecycle'
<1> SUFFICES ASSUME TypeOK, Lifecycle, [Next]_vars PROVE Lifecycle'
  OBVIOUS
<1> USE DEF TypeOK, Lifecycle, cluster
<1>1. ASSUME NEW p \in Pod, Request(p) \/ Create(p) \/ CreateFails(p) PROVE Lifecycle'
  BY <1>1 DEF Request, Create, CreateFails, Advance
<1>2. ASSUME NEW p \in Pod, Ready(p) \/ WaitFails(p) PROVE Lifecycle'
  BY <1>2 DEF Ready, WaitFails, Advance, Live
<1>3. ASSUME NEW p \in Pod, Cleanup(p) \/ Stop(p) PROVE Lifecycle'
  BY <1>3 DEF Cleanup, Stop, Advance, Delete
<1>4. ASSUME NEW p \in Pod, Kubelet(p) PROVE Lifecycle'
  BY <1>4 DEF Kubelet
<1>5. ASSUME NEW k \in Ping, PingPatch(k) \/ \E p \in Pod : PingGet(k, p) PROVE Lifecycle'
  <2>1. UNCHANGED <<exists, boot>>
    BY <1>5 DEF PingPatch, PingGet
  <2> QED BY <2>1
<1>6. CASE GCList \/ GCClock \/ GCDone \/ Tick \/ UNCHANGED vars
  BY <1>6 DEF GCList, GCClock, GCDone, Tick, vars
<1>7. ASSUME NEW p \in Pod, GCDelete(p) PROVE Lifecycle'
  BY <1>7 DEF GCDelete, Delete
<1>8. CASE Crash
  BY <1>8 DEF Crash
<1> QED
  BY <1>1, <1>2, <1>3, <1>4, <1>5, <1>6, <1>7, <1>8 DEF Next, BootStep, Collect

\* A pod that is gone, or was never created, is created by no other step.
LEMMA GoneForGood ==
  ASSUME TypeOK, Lifecycle, [Next]_vars, NEW p \in Pod
  PROVE  /\ exists[p] = "gone" => exists'[p] = "gone"
         /\ exists'[p] = "new" => exists[p] = "new"
         /\ boot[p] = "ok" => boot'[p] = "ok"
<1> USE DEF TypeOK, Lifecycle, cluster
<1>1. ASSUME NEW q \in Pod, Request(q) \/ BootStep(q) \/ Stop(q) \/ Kubelet(q)
      PROVE  /\ exists[p] = "gone" => exists'[p] = "gone"
             /\ exists'[p] = "new" => exists[p] = "new"
             /\ boot[p] = "ok" => boot'[p] = "ok"
  BY <1>1 DEF Request, BootStep, Create, CreateFails, Ready, WaitFails, Cleanup,
       Stop, Kubelet, Advance, Delete
<1>2. ASSUME NEW k \in Ping, PingPatch(k) \/ \E q \in Pod : PingGet(k, q)
      PROVE  UNCHANGED <<exists, boot>>
  BY <1>2 DEF PingPatch, PingGet
<1>3. ASSUME Collect
      PROVE  /\ exists[p] = "gone" => exists'[p] = "gone"
             /\ exists'[p] = "new" => exists[p] = "new"
             /\ UNCHANGED boot
  BY <1>3 DEF Collect, GCList, GCClock, GCDone, GCDelete, Delete
<1>4. CASE Tick \/ Crash \/ UNCHANGED vars
  BY <1>4 DEF Tick, Crash, vars
<1> QED BY <1>1, <1>2, <1>3, <1>4 DEF Next

\* The labels are computed once; only a keepalive's patch touches one of them.
LEMMA LabelledStep == TypeOK /\ Lifecycle /\ Labelled /\ Pinging /\ [Next]_vars => Labelled'
<1> SUFFICES ASSUME TypeOK, Lifecycle, Labelled, Pinging, [Next]_vars PROVE Labelled'
  OBVIOUS
<1> USE TimeAssumption DEF TypeOK, Labelled, cluster, labels, report
<1>1. ASSUME NEW p \in Pod, Request(p) PROVE Labelled'
  BY <1>1 DEF Request, Advance
<1>2. ASSUME NEW p \in Pod, Create(p) \/ CreateFails(p) PROVE Labelled'
  BY <1>2 DEF Create, CreateFails, Advance
<1>3. ASSUME NEW p \in Pod, Ready(p) PROVE Labelled'
  <2>1. Expiry(p) \in 1..(born[p] + TTL)
    BY <1>3, LabelledExpiry DEF Ready
  <2> QED BY <1>3, <2>1 DEF Ready, Advance, Tell
<1>4. ASSUME NEW p \in Pod, WaitFails(p) \/ Cleanup(p) \/ Stop(p) \/ Kubelet(p) PROVE Labelled'
  BY <1>4 DEF WaitFails, Cleanup, Stop, Kubelet, Advance
<1>5. ASSUME NEW k \in Ping, NEW p \in Pod, PingGet(k, p) PROVE Labelled'
  <2>1. Expiry(p) \in 1..(born[p] + TTL) /\ boot[p] = "ok"
    BY <1>5, LabelledExpiry DEF PingGet
  <2>2. told' = told \/ Tell(p, Expiry(p))
    BY <1>5 DEF PingGet
  <2>3. UNCHANGED <<boot, hard, born>>
    BY <1>5 DEF PingGet
  <2> QED BY <2>1, <2>2, <2>3 DEF Tell
<1>6. ASSUME NEW k \in Ping, PingPatch(k) PROVE Labelled'
  <2> DEFINE p == ping[k].pod
             e == Extended(k, p)
  <2>1. p \in Pod /\ boot[p] = "ok" /\ ping[k].window \in Nat
    BY <1>6 DEF PingPatch, Pinging
  <2>2. e \in 1..(born[p] + TTL)
    BY <2>1, LabelledExpiry DEF Extended
  <2>3. told' = told \/ Tell(p, e)
    BY <1>6 DEF PingPatch
  <2>4. UNCHANGED <<boot, hard, born>>
    BY <1>6 DEF PingPatch
  <2> HIDE DEF e
  <2> QED BY <2>1, <2>2, <2>3, <2>4 DEF Tell
<1>7. CASE Collect \/ Tick \/ UNCHANGED vars
  <2>1. UNCHANGED <<boot, hard, born, told>>
    BY <1>7 DEF Collect, GCList, GCClock, GCDone, GCDelete, Tick, vars
  <2> QED BY <2>1
<1>8. CASE Crash
  BY <1>8 DEF Crash
<1> QED
  BY <1>1, <1>2, <1>3, <1>4, <1>5, <1>6, <1>7, <1>8 DEF Next, BootStep

\* A keepalive patches, and is told of, a pod that some boot had answered for.
LEMMA PingingStep == TypeOK /\ Lifecycle /\ Pinging /\ [Next]_vars => Pinging'
<1> SUFFICES ASSUME TypeOK, Lifecycle, Pinging, [Next]_vars PROVE Pinging'
  OBVIOUS
<1> USE DEF Pinging
<1>1. ASSUME UNCHANGED ping PROVE Pinging'
  BY <1>1, GoneForGood DEF TypeOK
<1>2. ASSUME NEW k \in Ping, NEW p \in Pod, PingGet(k, p) PROVE Pinging'
  <2>1. UNCHANGED <<boot, exists>> /\ boot[p] = "ok"
    BY <1>2 DEF PingGet, cluster
  <2>2. exists[p] # "new" /\ exists[p] \in {"new", "live", "gone"}
    BY <2>1 DEF TypeOK, Lifecycle
  <2>3. idleTTL > 0 => now + idleTTL \in Nat \ {0}
    BY TimeAssumption DEF TypeOK
  <2>4. \/ ping' = [ping EXCEPT ![k] = NoPing]
        \/ exists[p] = "gone" /\ ping' = [ping EXCEPT ![k] = [pc |-> "gone", pod |-> p, window |-> 0]]
        \/ /\ idleTTL > 0
           /\ ping' = [ping EXCEPT ![k] = [pc |-> "patch", pod |-> p, window |-> now + idleTTL]]
    BY <1>2, <2>2 DEF PingGet, Answer, AnswerNotFound, AnswerError, Live
  <2> QED BY <2>1, <2>3, <2>4 DEF TypeOK, NoPing
<1>3. ASSUME NEW k \in Ping, PingPatch(k) PROVE Pinging'
  <2> DEFINE p == ping[k].pod
  <2>1. UNCHANGED <<boot, exists>> /\ boot[p] = "ok" /\ p \in Pod
    BY <1>3 DEF PingPatch
  <2>2. exists[p] # "new" /\ exists[p] \in {"new", "live", "gone"}
    BY <2>1 DEF TypeOK, Lifecycle
  <2>3. \/ ping' = [ping EXCEPT ![k] = NoPing]
        \/ exists[p] = "gone" /\ ping' = [ping EXCEPT ![k] = [pc |-> "gone", pod |-> p, window |-> 0]]
    BY <1>3, <2>2 DEF PingPatch, Answer, AnswerNotFound, AnswerError, Live
  <2> HIDE DEF p
  <2>4. \A i \in Ping : i # k => ping'[i] = ping[i]
    BY <2>3 DEF TypeOK
  <2>5. \/ ping'[k].pc = "idle"
        \/ ping'[k].pc = "gone" /\ ping'[k].pod = p /\ exists[p] = "gone"
    BY <2>3 DEF TypeOK, NoPing
  <2> QED BY <2>1, <2>4, <2>5
<1>4. CASE Crash
  BY <1>4 DEF Crash, NoPing
<1>5. ASSUME NEW p \in Pod, Request(p) \/ BootStep(p) \/ Stop(p) \/ Kubelet(p) PROVE UNCHANGED ping
  BY <1>5 DEF Request, BootStep, Create, CreateFails, Ready, WaitFails, Cleanup, Stop, Kubelet
<1>6. ASSUME Collect \/ Tick \/ UNCHANGED vars PROVE UNCHANGED ping
  BY <1>6 DEF Collect, GCList, GCClock, GCDone, GCDelete, Tick, vars
<1> QED BY <1>1, <1>2, <1>3, <1>4, <1>5, <1>6 DEF Next

\* What the collector remembers of a pod stays true of it until it is patched.
LEMMA CollectingStep == TypeOK /\ Lifecycle /\ Pinging /\ Collecting /\ [Next]_vars => Collecting'
<1> SUFFICES ASSUME TypeOK, Lifecycle, Pinging, Collecting, [Next]_vars PROVE Collecting'
  OBVIOUS
<1> USE DEF Collecting, TypeOK
\* A step of a handler: it leaves the pass alone and the labels of live pods.
<1>1. ASSUME UNCHANGED <<now, collector>>,
             \A p \in Pod : exists'[p] # "new" /\ exists[p] = "new" => boot[p] = "create",
             \A p \in Pod : exists'[p] = "new" => exists[p] = "new",
             \A p \in Pod : boot[p] # "idle" => hard'[p] = hard[p] /\ idle'[p] = idle[p],
             \A p \in Pod : exists'[p] = "live" => exists[p] = "live" \/ boot[p] = "create"
      PROVE  Collecting'
  <2> SUFFICES ASSUME NEW p \in Pod
               PROVE  /\ exists'[p] = "new" => seen'[p] = 0 /\ p \notin condemned'
                      /\ seen'[p] # 0 /\ Live(p)' /\ p \notin renewed' => Expiry(p)' = seen'[p]
                      /\ p \in condemned' /\ Live(p)' /\ p \notin renewed' => Expiry(p)' < now'
    BY <1>1 DEF collector
  <2>1. CASE boot[p] \in {"idle", "create"}
    BY <1>1, <2>1 DEF Lifecycle, collector
  <2>2. CASE boot[p] \notin {"idle", "create"}
    <3>1. Expiry(p)' = Expiry(p)
      BY <1>1, <2>2 DEF Expiry
    <3> QED BY <1>1, <2>2, <3>1 DEF collector, Live
  <2> QED BY <2>1, <2>2
<1>2. ASSUME NEW p \in Pod, Request(p) \/ BootStep(p) \/ Stop(p) \/ Kubelet(p) PROVE Collecting'
  <2>1. \A q \in Pod : exists'[q] # "new" /\ exists[q] = "new" => boot[q] = "create"
    BY <1>2 DEF Request, BootStep, Create, CreateFails, Ready, WaitFails, Cleanup,
         Stop, Kubelet, Delete, cluster
  <2>2. \A q \in Pod : exists'[q] = "new" => exists[q] = "new"
    BY GoneForGood
  <2>3. \A q \in Pod : boot[q] # "idle" => hard'[q] = hard[q] /\ idle'[q] = idle[q]
    BY <1>2 DEF Request, BootStep, Create, CreateFails, Ready, WaitFails, Cleanup,
         Stop, Kubelet, labels, cluster
  <2>4. \A q \in Pod : exists'[q] = "live" => exists[q] = "live" \/ boot[q] = "create"
    BY <1>2 DEF Request, BootStep, Create, CreateFails, Ready, WaitFails, Cleanup,
         Stop, Kubelet, Delete, cluster
  <2>5. UNCHANGED <<now, collector>>
    BY <1>2 DEF Request, BootStep, Create, CreateFails, Ready, WaitFails, Cleanup,
         Stop, Kubelet
  <2> QED BY <1>1, <2>1, <2>2, <2>3, <2>4, <2>5
<1>3. ASSUME NEW k \in Ping, NEW p \in Pod, PingGet(k, p) PROVE Collecting'
  BY <1>1, <1>3 DEF PingGet, cluster, labels
<1>4. ASSUME NEW k \in Ping, PingPatch(k) PROVE Collecting'
  <2> DEFINE p == ping[k].pod
  <2>1. /\ UNCHANGED <<now, exists, hard, gc, seen, condemned>>
        /\ UNCHANGED <<idle, renewed>> \/ Slide(k, p)
    BY <1>4 DEF PingPatch
  <2>2. \A q \in Pod : q \notin renewed' => q \notin renewed /\ idle'[q] = idle[q]
    BY <2>1 DEF Slide
  <2>3. \A q \in Pod : q \notin renewed' => Expiry(q)' = Expiry(q)
    BY <2>1, <2>2 DEF Expiry
  <2> QED BY <2>1, <2>2, <2>3 DEF Live
<1>5. CASE GCList
  <2>1. \A p \in Pod : Expiry(p)' = Expiry(p) /\ Live(p)' = Live(p)
    BY <1>5 DEF GCList, Expiry, Live, cluster, labels
  <2> QED BY <1>5, <2>1 DEF GCList, Live, cluster
<1>6. CASE GCClock
  <2>1. \A p \in Pod : Expiry(p)' = Expiry(p) /\ Live(p)' = Live(p)
    BY <1>6 DEF GCClock, Expiry, Live, cluster, labels
  <2> QED BY <1>6, <2>1 DEF GCClock, cluster
<1>7. ASSUME NEW p \in Pod, GCDelete(p) PROVE Collecting'
  <2>1. \A q \in Pod : Expiry(q)' = Expiry(q)
    BY <1>7 DEF GCDelete, Expiry, labels
  <2>2. /\ UNCHANGED <<now, gc, seen, renewed>> /\ gc = "reap"
        /\ condemned' = condemned \ {p}
        /\ \A q \in Pod : /\ exists'[q] = "new" <=> exists[q] = "new"
                          /\ exists'[q] = "live" => exists[q] = "live"
    BY <1>7 DEF GCDelete, Delete
  <2> QED BY <2>1, <2>2 DEF Live
<1>8. CASE GCDone \/ UNCHANGED vars
  <2>1. \A p \in Pod : Expiry(p)' = Expiry(p) /\ Live(p)' = Live(p)
    BY <1>8 DEF GCDone, vars, Expiry, Live, cluster, labels
  <2> QED BY <1>8, <2>1 DEF GCDone, vars, cluster, collector
<1>9. CASE Tick
  <2>1. \A p \in Pod : Expiry(p)' = Expiry(p) /\ Live(p)' = Live(p) /\ Expiry(p) \in Nat
    BY <1>9, ExpiryBound DEF Tick, Expiry, Live, cluster, labels
  <2> QED BY <1>9, <2>1 DEF Tick, cluster, collector
<1>10. CASE Crash
  <2>1. \A p \in Pod : Expiry(p)' = Expiry(p) /\ Live(p)' = Live(p)
    BY <1>10 DEF Crash, Expiry, Live, cluster, labels
  <2> QED BY <1>10, <2>1 DEF Crash, cluster
<1> QED
  BY <1>2, <1>3, <1>4, <1>5, <1>6, <1>7, <1>8, <1>9, <1>10 DEF Next, Collect

\* A boot that failed with no API call failing had its pod deleted before.
LEMMA FailedBootStep ==
  TypeOK /\ Lifecycle /\ FailedBootIsCleanedUp /\ [Next]_vars => FailedBootIsCleanedUp'
<1> SUFFICES ASSUME TypeOK, Lifecycle, FailedBootIsCleanedUp, [Next]_vars,
                    fails' = 0, NEW p \in Pod, boot'[p] = "failed"
             PROVE  ~Live(p)'
  BY DEF FailedBootIsCleanedUp
<1> USE DEF TypeOK, Live, cluster
<1>1. fails = 0
  <2>1. UNCHANGED fails \/ fails' = fails + 1
    BY DEF Next, Request, BootStep, Create, CreateFails, Ready, WaitFails, Cleanup,
         Stop, Kubelet, PingGet, PingPatch, Collect, GCList, GCClock, GCDone,
         GCDelete, Tick, Crash, Fail, vars
  <2> QED BY <2>1
<1>2. CASE boot[p] = "failed"
  <2>1. exists[p] # "live"
    BY <1>1, <1>2 DEF FailedBootIsCleanedUp
  <2>2. exists'[p] = "live" => exists[p] = "live" \/ boot[p] = "create"
    BY DEF Next, Request, BootStep, Create, CreateFails, Ready, WaitFails, Cleanup,
         Stop, Kubelet, PingGet, PingPatch, Collect, GCList, GCClock, GCDone,
         GCDelete, Tick, Crash, Delete, vars
  <2> QED BY <1>2, <2>1, <2>2
<1>3. CASE boot[p] # "failed"
  <2>1. PICK q \in Pod : CreateFails(q) \/ Cleanup(q)
    BY <1>3 DEF Next, Request, BootStep, Create, Ready, WaitFails, Advance,
         Stop, Kubelet, PingGet, PingPatch, Collect, GCList, GCClock, GCDone,
         GCDelete, Tick, Crash, vars
  <2>2. Cleanup(q) /\ Delete(q) /\ q = p
    BY <1>1, <1>3, <2>1 DEF CreateFails, Cleanup, Advance, Fail
  <2> QED BY <2>2 DEF Delete
<1> QED BY <1>2, <1>3

\* A window that opens later brings no earlier deadline.
LEMMA LaterWindow ==
  ASSUME NEW h \in Nat, NEW i \in Nat \ {0}, NEW w \in Nat, i <= w
  PROVE  effectiveExpiry(h, i) <= effectiveExpiry(h, w)
BY ExpiryIsSooner

\* The labels are set once, to a window that opens now, and moved to one that
\* some keepalive opened.
LEMMA WindowedStep ==
  TypeOK /\ Pinging /\ Windowed /\ Sliding /\ [Next]_vars => Windowed'
<1> SUFFICES ASSUME TypeOK, Pinging, Windowed, Sliding, [Next]_vars PROVE Windowed'
  OBVIOUS
<1> USE TimeAssumption DEF TypeOK, Windowed, cluster, labels
<1>1. ASSUME NEW p \in Pod, Request(p) PROVE Windowed'
  BY <1>1 DEF Request, Advance
<1>2. ASSUME NEW p \in Pod, BootStep(p) \/ Stop(p) \/ Kubelet(p) PROVE Windowed'
  <2>1. UNCHANGED <<now, idleTTL, idle>> /\ \A q \in Pod : boot'[q] # "idle" => boot[q] # "idle"
    BY <1>2 DEF BootStep, Create, CreateFails, Ready, WaitFails, Cleanup, Stop, Kubelet, Advance
  <2> QED BY <2>1
<1>3. ASSUME NEW k \in Ping, NEW p \in Pod, PingGet(k, p) PROVE Windowed'
  BY <1>3 DEF PingGet
<1>4. ASSUME NEW k \in Ping, PingPatch(k) PROVE Windowed'
  <2> DEFINE p == ping[k].pod
             w == ping[k].window
  <2>1. /\ p \in Pod /\ boot[p] = "ok" /\ w \in Nat \ {0}
        /\ idleTTL > 0 /\ w <= now + idleTTL
    BY <1>4 DEF PingPatch, Pinging, Sliding
  <2>2. /\ UNCHANGED <<now, idleTTL, boot>>
        /\ idle' = idle \/ idle' = [idle EXCEPT ![p] = w]
    BY <1>4 DEF PingPatch, Slide
  <2> QED BY <2>1, <2>2
<1>5. CASE Collect \/ UNCHANGED vars
  <2>1. UNCHANGED <<now, idleTTL, idle, boot>>
    BY <1>5 DEF Collect, GCList, GCClock, GCDone, GCDelete, vars
  <2> QED BY <2>1
<1>6. CASE Tick
  BY <1>6 DEF Tick
<1>7. CASE Crash
  BY <1>7 DEF Crash
<1> QED BY <1>1, <1>2, <1>3, <1>4, <1>5, <1>6, <1>7 DEF Next

\* What a keepalive's second call may do to the window and the promise.
LEMMA Patched ==
  ASSUME NEW k \in Ping, PingPatch(k)
  PROVE  \/ UNCHANGED <<idle, told>>
         \/ Slide(k, ping[k].pod) /\ UNCHANGED told
         \/ /\ Slide(k, ping[k].pod) /\ Live(ping[k].pod)
            /\ Tell(ping[k].pod, Extended(k, ping[k].pod))
BY DEF PingPatch

\* What a page was told of its pod stays true of it, unless keepalives cross.
LEMMA SlidingStep ==
  (/\ TypeOK /\ TypeOK' /\ Lifecycle /\ Pinging /\ Windowed /\ Sliding /\ ToldIsKept
   /\ [Next]_vars)
    => Sliding' /\ ToldIsKept'
<1> SUFFICES ASSUME TypeOK, TypeOK', Lifecycle, Pinging, Windowed, Sliding, ToldIsKept,
                    [Next]_vars
             PROVE  Sliding' /\ ToldIsKept'
  OBVIOUS
<1> USE TimeAssumption DEF TypeOK, Sliding, ToldIsKept, cluster, labels, report
<1>0. \A p \in Pod : Expiry(p) \in Nat /\ Expiry(p)' \in Nat
  BY ExpiryBound DEF Expiry
\* A step that leaves keepalives and the labels of live pods alone.
<1>1. ASSUME UNCHANGED <<idleTTL, ping, report>>, now <= now',
             \A p \in Pod : exists'[p] = "new" => exists[p] = "new",
             \A p \in Pod : exists'[p] = "live" => exists[p] \in {"new", "live"},
             \A p \in Pod : boot[p] # "idle" => hard'[p] = hard[p] /\ idle'[p] = idle[p],
             \A p \in Pod : boot[p] = "idle" => exists'[p] # "live"
      PROVE  Sliding' /\ ToldIsKept'
  <2>1. Sliding'
    <3>1. \A k \in Ping : ping[k].pc = "patch" => idle'[ping[k].pod] = idle[ping[k].pod]
      BY <1>1 DEF Pinging
    <3>2. \A k \in Ping : ping[k].pc = "patch" => ping[k].pod \in Pod
      BY DEF Pinging
    <3> QED BY <1>1, <3>1, <3>2
  <2>2. ASSUME NEW p \in Pod \ overtaken', Live(p)' PROVE told'[p] <= Expiry(p)'
    <3>1. CASE exists[p] = "new"
      BY <1>0, <1>1, <2>2, <3>1 DEF Live
    <3>2. CASE exists[p] = "live"
      <4>1. Expiry(p)' = Expiry(p)
        BY <1>1, <2>2 DEF Expiry, Live
      <4> QED BY <1>1, <2>2, <3>2, <4>1 DEF Live
    <3> QED BY <1>1, <2>2, <3>1, <3>2 DEF Live
  <2> QED BY <2>1, <2>2
<1>2. ASSUME NEW p \in Pod,
             \/ Request(p) \/ Create(p) \/ CreateFails(p) \/ WaitFails(p) \/ Cleanup(p)
             \/ Stop(p) \/ Kubelet(p)
      PROVE  Sliding' /\ ToldIsKept'
  <2>1. \A q \in Pod : /\ exists'[q] = "new" => exists[q] = "new"
                       /\ exists'[q] = "live" => exists[q] \in {"new", "live"}
                       /\ boot[q] = "idle" => exists'[q] # "live"
    BY <1>2 DEF Request, Create, CreateFails, WaitFails, Cleanup, Stop, Kubelet, Delete,
         Lifecycle
  <2>2. \A q \in Pod : boot[q] # "idle" => hard'[q] = hard[q] /\ idle'[q] = idle[q]
    BY <1>2 DEF Request, Create, CreateFails, WaitFails, Cleanup, Stop, Kubelet
  <2>3. UNCHANGED <<idleTTL, ping, report, now>>
    BY <1>2 DEF Request, Create, CreateFails, WaitFails, Cleanup, Stop, Kubelet
  <2> QED BY <1>1, <2>1, <2>2, <2>3
<1>3. ASSUME NEW p \in Pod, Ready(p) PROVE Sliding' /\ ToldIsKept'
  <2>1. /\ UNCHANGED <<now, idleTTL, exists, hard, idle, ping, overtaken>>
        /\ Live(p) /\ Tell(p, Expiry(p))
    BY <1>3 DEF Ready
  <2>2. \A q \in Pod : Expiry(q)' = Expiry(q) /\ (Live(q)' <=> Live(q))
    BY <2>1 DEF Expiry, Live
  <2>3. \A q \in Pod : told'[q] = told[q] \/ (Live(q) /\ told'[q] = Expiry(q))
    BY <2>1 DEF Tell
  <2>4. ToldIsKept'
    BY <1>0, <2>1, <2>2, <2>3
  <2>5. Sliding'
    BY <2>1, <2>3 DEF Live
  <2> QED BY <2>4, <2>5
<1>4. ASSUME NEW k \in Ping, NEW p \in Pod, PingGet(k, p) PROVE Sliding' /\ ToldIsKept'
  <2>1. /\ UNCHANGED <<now, idleTTL, exists, hard, idle>>
        /\ boot[p] = "ok" /\ exists[p] # "new" /\ ping[k].pc # "patch"
    BY <1>4 DEF PingGet, Lifecycle
  <2>2. \A q \in Pod : Expiry(q)' = Expiry(q) /\ (Live(q)' <=> Live(q))
    BY <2>1 DEF Expiry, Live
  <2>3. \A q \in Pod : told'[q] = told[q] \/ (Live(q) /\ told'[q] = Expiry(q))
    BY <1>4 DEF PingGet, Tell
  <2>4. overtaken \subseteq overtaken'
    BY <1>4 DEF PingGet
  <2>5. ToldIsKept'
    BY <1>0, <2>2, <2>3, <2>4
  <2>6. CASE /\ idleTTL > 0
             /\ ping' = [ping EXCEPT ![k] = [pc |-> "patch", pod |-> p, window |-> now + idleTTL]]
             /\ overtaken' = overtaken \union {q \in {p} : \E j \in Ping : Patches(j, q)}
             /\ UNCHANGED told
    <3>1. idle[p] <= now + idleTTL
      BY <2>6 DEF Windowed
    <3>2. \A j \in Ping : j # k => ping'[j] = ping[j]
      BY <2>6
    <3>3. /\ ping'[k].pc = "patch" /\ ping'[k].pod = p /\ ping'[k].window = now + idleTTL
      BY <2>6
    <3>4. ASSUME NEW i \in Ping, ping'[i].pc = "patch", ping'[i].pod \notin overtaken'
          PROVE  /\ idle'[ping'[i].pod] <= ping'[i].window
                 /\ \A j \in Ping :
                      ping'[j].pc = "patch" /\ ping'[j].pod = ping'[i].pod => j = i
      <4>1. p \notin overtaken' => \A j \in Ping : ~Patches(j, p)
        BY <2>6
      <4>2. CASE i = k
        BY <2>1, <3>1, <3>2, <3>3, <3>4, <4>1, <4>2 DEF Patches
      <4>3. CASE i # k
        <5>1. ping[i].pc = "patch" /\ ping[i].pod \notin overtaken /\ ping'[i] = ping[i]
          BY <2>4, <3>2, <3>4, <4>3
        <5>2. ping[i].pod # p
          BY <3>4, <4>1, <5>1 DEF Patches
        <5> QED BY <2>1, <3>2, <3>3, <5>1, <5>2 DEF Patches
      <4> QED BY <4>2, <4>3
    <3>5. ASSUME NEW i \in Ping, ping'[i].pc = "patch"
          PROVE  idleTTL' > 0 /\ ping'[i].window <= now' + idleTTL'
      BY <2>1, <2>6, <3>2, <3>3, <3>5
    <3>6. \A q \in Pod : exists'[q] = "new" => told'[q] = 0
      BY <2>1, <2>6
    <3> QED BY <2>5, <3>4, <3>5, <3>6
  <2>7. CASE ping'[k].pc # "patch" /\ (\A j \in Ping : j # k => ping'[j] = ping[j])
             /\ UNCHANGED overtaken
    <3>1. \A q \in Pod : exists'[q] = "new" => told'[q] = 0
      BY <2>1, <2>3 DEF Live
    <3>2. ASSUME NEW i \in Ping, ping'[i].pc = "patch"
          PROVE  i # k /\ ping'[i] = ping[i]
      BY <2>7, <3>2
    <3>3. ASSUME NEW i \in Ping, ping'[i].pc = "patch"
          PROVE  /\ idleTTL' > 0 /\ ping'[i].window <= now' + idleTTL'
                 /\ ping'[i].pod \notin overtaken' =>
                      /\ idle'[ping'[i].pod] <= ping'[i].window
                      /\ \A j \in Ping :
                           ping'[j].pc = "patch" /\ ping'[j].pod = ping'[i].pod => j = i
      BY <2>1, <2>7, <3>2, <3>3
    <3> QED BY <2>5, <3>1, <3>3
  <2>8. \/ /\ idleTTL > 0
           /\ ping' = [ping EXCEPT ![k] = [pc |-> "patch", pod |-> p, window |-> now + idleTTL]]
           /\ overtaken' = overtaken \union {q \in {p} : \E j \in Ping : Patches(j, q)}
           /\ UNCHANGED told
        \/ /\ ping'[k].pc # "patch" /\ (\A j \in Ping : j # k => ping'[j] = ping[j])
           /\ UNCHANGED overtaken
    BY <1>4 DEF PingGet, Answer, AnswerNotFound, AnswerError, NoPing
  <2> QED BY <2>5, <2>6, <2>7, <2>8
<1>5. ASSUME NEW k \in Ping, PingPatch(k), NEW p, p = ping[k].pod, NEW w, w = ping[k].window
      PROVE  Sliding' /\ ToldIsKept'
  <2>1. /\ p \in Pod /\ boot[p] = "ok" /\ w \in Nat \ {0} /\ idle[p] # 0
        /\ p \notin overtaken =>
             /\ idle[p] <= w
             /\ \A j \in Ping : ping[j].pc = "patch" /\ ping[j].pod = p => j = k
    BY <1>5 DEF PingPatch, Pinging, Windowed
  <2>2. /\ UNCHANGED <<now, idleTTL, exists, hard, overtaken>>
        /\ ping'[k].pc # "patch" /\ (\A j \in Ping : j # k => ping'[j] = ping[j])
        /\ \/ UNCHANGED idle /\ UNCHANGED told
           \/ /\ idle' = [idle EXCEPT ![p] = w]
              /\ (UNCHANGED told \/ (Live(p) /\ Tell(p, Extended(k, p))))
    <3>1. UNCHANGED <<now, idleTTL, exists, hard, overtaken>>
      BY <1>5 DEF PingPatch
    <3>2. ping'[k].pc # "patch" /\ (\A j \in Ping : j # k => ping'[j] = ping[j])
      <4>1. \E v : v.pc # "patch" /\ ping' = [ping EXCEPT ![k] = v]
        BY <1>5 DEF PingPatch, Answer, AnswerNotFound, AnswerError, NoPing
      <4> QED BY <4>1
    <3>3. \/ UNCHANGED idle /\ UNCHANGED told
          \/ /\ idle' = [idle EXCEPT ![p] = w]
             /\ (UNCHANGED told \/ (Live(p) /\ Tell(p, Extended(k, p))))
      BY <1>5, Patched DEF Slide, Live, Tell
    <3> QED BY <3>1, <3>2, <3>3
  <2>3. \A q \in Pod : q # p => idle'[q] = idle[q] /\ told'[q] = told[q]
    BY <2>2 DEF Tell
  <2>4. \A q \in Pod : q # p => Expiry(q)' = Expiry(q)
    BY <2>2, <2>3 DEF Expiry
  <2>5. \A q \in Pod : Live(q)' <=> Live(q)
    BY <2>2 DEF Live
  <2>6. ASSUME p \notin overtaken, Live(p) PROVE told'[p] <= Expiry(p)'
    <3>1. told[p] <= Expiry(p)
      BY <2>1, <2>6
    <3>2. CASE UNCHANGED idle /\ UNCHANGED told
      <4>1. Expiry(p)' = Expiry(p)
        BY <2>2, <3>2 DEF Expiry
      <4> QED BY <3>1, <3>2, <4>1
    <3>3. CASE idle' = [idle EXCEPT ![p] = w]
      <4>1. hard[p] \in Nat /\ idle[p] \in Nat \ {0}
        BY <2>1
      <4>2. Expiry(p)' = effectiveExpiry(hard[p], w)
        BY <2>1, <2>2, <3>3 DEF Expiry
      <4>3. Expiry(p) <= Expiry(p)'
        BY <2>1, <2>6, <4>1, <4>2, LaterWindow DEF Expiry
      <4>4. Extended(k, p) = Expiry(p)'
        BY <1>5, <4>2 DEF Extended
      <4>5. told'[p] = told[p] \/ told'[p] = Expiry(p)'
        BY <2>1, <2>2, <4>4 DEF Tell
      <4>6. told[p] \in Nat
        BY <2>1
      <4> QED BY <1>0, <2>1, <3>1, <4>3, <4>5, <4>6
    <3> QED BY <2>2, <3>2, <3>3
  <2>7. ToldIsKept'
    BY <2>2, <2>3, <2>4, <2>5, <2>6
  <2>8. ASSUME NEW i \in Ping, ping'[i].pc = "patch", ping'[i].pod \notin overtaken'
        PROVE  /\ idle'[ping'[i].pod] <= ping'[i].window
               /\ \A j \in Ping :
                    ping'[j].pc = "patch" /\ ping'[j].pod = ping'[i].pod => j = i
    <3>1. i # k /\ ping'[i] = ping[i] /\ ping[i].pod \notin overtaken /\ ping[i].pod \in Pod
      BY <2>2, <2>8 DEF Pinging
    <3>2. ping[i].pod # p
      BY <1>5, <2>1, <2>8, <3>1 DEF PingPatch
    <3> QED BY <2>2, <2>3, <2>8, <3>1, <3>2
  <2>9. \A q \in Pod : exists'[q] = "new" => told'[q] = 0
    BY <2>1, <2>2, <2>3 DEF Lifecycle
  <2>10. Sliding'
    BY <2>2, <2>8, <2>9
  <2> QED BY <2>7, <2>10
<1>6. CASE Collect \/ Tick \/ UNCHANGED vars
  <2>1. \A q \in Pod : /\ exists'[q] = "new" => exists[q] = "new"
                       /\ exists'[q] = "live" => exists[q] = "live"
    BY <1>6 DEF Collect, GCList, GCClock, GCDone, GCDelete, Delete, Tick, vars
  <2>2. UNCHANGED <<idleTTL, ping, report, hard, idle>> /\ now <= now'
    BY <1>6 DEF Collect, GCList, GCClock, GCDone, GCDelete, Tick, vars
  <2>3. \A q \in Pod : boot[q] = "idle" => exists'[q] # "live"
    BY <2>1 DEF Lifecycle
  <2> QED BY <1>1, <2>1, <2>2, <2>3
<1>7. CASE Crash
  <2>1. UNCHANGED <<now, idleTTL, exists, hard, idle, report>>
        /\ \A j \in Ping : ping'[j].pc # "patch"
    BY <1>7 DEF Crash, NoPing
  <2>2. \A q \in Pod : Expiry(q)' = Expiry(q) /\ (Live(q)' <=> Live(q))
    BY <2>1 DEF Expiry, Live
  <2> QED BY <2>1, <2>2
<1> QED
  BY <1>2, <1>3, <1>4, <1>5, <1>6, <1>7 DEF Next, BootStep

-----------------------------------------------------------------------------
LEMMA StepIInv == IInv /\ [Next]_vars => IInv'
<1> SUFFICES ASSUME IInv, [Next]_vars PROVE IInv'
  OBVIOUS
<1>1. TypeOK'
  BY TypeStep DEF IInv
<1> QED
  BY <1>1, LifecycleStep, LabelledStep, PingingStep, CollectingStep, WindowedStep, SlidingStep,
     FailedBootStep DEF IInv

\* The invariant that carries the theorems below holds in every behaviour.
THEOREM Inductive == Spec => []IInv
BY InitIInv, StepIInv, PTL DEF Spec

\* Type correctness.
THEOREM TypeCorrect == Spec => []TypeOK
<1>1. IInv => TypeOK
  BY DEF IInv
<1> QED BY <1>1, Inductive, PTL

\* Whatever fails or crashes, for every TTL and idle window: each pod in the
\* cluster carries a deadline, never later than TTL after its request, and no
\* page is told a later one (session.go:216-279).
THEOREM EveryPodIsCapped == Spec => []LifetimeCap
<1>1. IInv => LifetimeCap
  BY LabelledExpiry DEF IInv, LifetimeCap, TypeOK, Lifecycle, Labelled, Live
<1> QED BY <1>1, Inductive, PTL

\* The collector condemns a pod only when its deadline has passed or a
\* keepalive overtook the listing (session.go:284-301).
THEOREM CondemnsOnlyExpired == Spec => []CondemnedIsExpired
<1>1. IInv => CondemnedIsExpired
  BY DEF IInv, CondemnedIsExpired, TypeOK, Collecting
<1> QED BY <1>1, Inductive, PTL

ReapsExpired ==
  \A p \in Pod : GCDelete(p) /\ Live(p) => p \in renewed \/ Expiry(p) < now

\* The collector's delete takes a pod before its deadline only in that race:
\* any other pod it deletes has passed one at the moment it is deleted.
THEOREM ReapsExpiredOrRenewed == Spec => [][ReapsExpired]_vars
<1>1. IInv /\ [Next]_vars => ReapsExpired
  BY DEF ReapsExpired, IInv, Collecting, GCDelete
<1> QED BY <1>1, Inductive, PTL DEF Spec

\* The expiry a page was told stands for every idle window: nothing but another
\* keepalive under way at the same time brings a pod's deadline before it
\* (session.go:399-418).
THEOREM PromisesAreKept == Spec => []ToldIsKept
<1>1. IInv => ToldIsKept
  BY DEF IInv
<1> QED BY <1>1, Inductive, PTL

ReapsAsTold ==
  \A p \in Pod : GCDelete(p) /\ Live(p) => p \in renewed \union overtaken \/ told[p] < now

\* So the collector deletes a pod only past the expiry its pages were told, but
\* for the two races a keepalive can be in: with the pass, and with another.
THEOREM ReapsOnlyAsTold == Spec => [][ReapsAsTold]_vars
<1>1. IInv /\ [Next]_vars => ReapsAsTold
  <2> SUFFICES ASSUME IInv, NEW p \in Pod, GCDelete(p), Live(p), p \notin renewed,
                      p \notin overtaken
               PROVE  told[p] < now
    BY DEF ReapsAsTold
  <2>1. Expiry(p) < now
    BY DEF IInv, Collecting, GCDelete
  <2>2. told[p] <= Expiry(p)
    BY DEF IInv, ToldIsKept
  <2>3. told[p] \in Nat /\ now \in Nat /\ Expiry(p) \in Nat
    BY ExpiryBound, TimeAssumption DEF IInv, TypeOK, Expiry
  <2> QED BY <2>1, <2>2, <2>3
<1> QED BY <1>1, Inductive, PTL DEF Spec

\* A 404 from keepalive means the pod is gone for good (server.go:215-216).
THEOREM NotFoundIsTruthful == Spec => []NotFoundMeansGone
<1>1. IInv => NotFoundMeansGone
  BY DEF IInv, NotFoundMeansGone, Pinging
<1> QED BY <1>1, Inductive, PTL

\* A pod that is gone never comes back: what a page was told with the 404
\* stays true.
THEOREM GoneStaysGone == Spec => [][\A p \in Pod : exists[p] = "gone" => exists'[p] = "gone"]_vars
<1>1. IInv /\ [Next]_vars => \A p \in Pod : exists[p] = "gone" => exists'[p] = "gone"
  BY GoneForGood DEF IInv
<1> QED BY <1>1, Inductive, PTL DEF Spec

\* A boot reported as failed left no pod, unless an API call failed
\* (session.go:252-259).
THEOREM FailedBootsLeaveNothing == Spec => []FailedBootIsCleanedUp
<1>1. IInv => FailedBootIsCleanedUp
  BY DEF IInv
<1> QED BY <1>1, Inductive, PTL
=============================================================================
