---------------------------- MODULE SessionEngine ----------------------------
(***************************************************************************)
(* The session engine (internal/session) behind the sessions API           *)
(* (internal/server): instance pods are created with two deadlines as      *)
(* labels, a keepalive slides the nearer one, and a collector deletes what *)
(* has passed either.                                                      *)
(*                                                                         *)
(* All state but a handler's locals is in the cluster.  The API server     *)
(* serves each call atomically; calls of concurrent handlers and of the    *)
(* collector interleave, fail, or take effect while their answer is lost.  *)
(***************************************************************************)
EXTENDS Integers, FiniteSets

CONSTANTS
  Pod,        \* fresh names "i-<suffix>", each used by one POST /sessions
  Ping,       \* keepalive handlers that may run at once
  TTL,        \* Engine.ttl: the hard cap
  IdleTTLs,   \* values --session-idle-ttl may have; negative disables idle GC
  LastBoot,   \* bound: no session is requested after this moment
  MaxTime,    \* bound: the clock stops here
  MaxFail,    \* bound: API calls that fail
  MaxCrash,   \* bound: restarts of the server
  None        \* no pod

ASSUME TimeAssumption ==
  /\ TTL \in Nat \ {0}
  /\ IdleTTLs \subseteq Int \ {0}
  /\ LastBoot \in Nat
  /\ MaxTime \in Nat
  /\ MaxFail \in Nat
  /\ MaxCrash \in Nat
  /\ None \notin Pod

VARIABLES
  now,        \* unix time; 0 is not a moment but "no label"
  idleTTL,    \* Engine.idleTTL, fixed at start
  exists,     \* "new" (not created), "live", "gone"
  ready,      \* phase Running with a pod IP
  hard, idle, \* the labels expires-at and idle-expires-at; 0 when absent
  boot,       \* where POST /sessions stands for this pod
  ping,       \* ping[k]: a keepalive's place, its pod, the window it will set
  gc,         \* the collector's place: "idle", "clock", "reap"
  seen,       \* deadlines of the listed pods, 0 for the others
  condemned,  \* pods the pass has still to delete
  born,       \* history: when the pod's labels were computed
  told,       \* history: the latest expiry reported to the pod's pages
  overtaken,  \* history: pods two keepalives were to patch at a time
  renewed,    \* history: pods patched since the collector's list
  fails, crashes

labels == <<hard, idle>>
cluster == <<exists, ready, labels>>
collector == <<gc, seen, condemned, renewed>>
report == <<told, overtaken>>
vars == <<now, idleTTL, cluster, boot, ping, collector, born, report, fails, crashes>>

-----------------------------------------------------------------------------
\* Mutant: the later deadline counts.
LaterExpiry(h, i) == IF h > i THEN h ELSE i

\* Mutant: only the idle window counts.
IdleExpiry(h, i) == i

\* The sooner of the hard cap and the idle window, 0 when neither is set.
effectiveExpiry(h, i) ==
  LET set == {h, i} \ {0} IN
  IF set = {} THEN 0 ELSE CHOOSE x \in set : \A y \in set : x <= y

Expiry(p) == effectiveExpiry(hard[p], idle[p])

Live(p) == exists[p] = "live"

NoPing == [pc |-> "idle", pod |-> None, window |-> 0]

Init ==
  /\ now = 1
  /\ idleTTL \in IdleTTLs
  /\ exists = [p \in Pod |-> "new"]
  /\ ready = [p \in Pod |-> FALSE]
  /\ hard = [p \in Pod |-> 0]
  /\ idle = [p \in Pod |-> 0]
  /\ boot = [p \in Pod |-> "idle"]
  /\ ping = [k \in Ping |-> NoPing]
  /\ gc = "idle"
  /\ seen = [p \in Pod |-> 0]
  /\ condemned = {}
  /\ born = [p \in Pod |-> 0]
  /\ told = [p \in Pod |-> 0]
  /\ overtaken = {}
  /\ renewed = {}
  /\ fails = 0
  /\ crashes = 0

Delete(p) == exists' = [exists EXCEPT ![p] = IF @ = "live" THEN "gone" ELSE @]

\* An API call fails: an error answer, or none.
Fail == fails < MaxFail /\ fails' = fails + 1

-----------------------------------------------------------------------------
(* POST /api/v1/sessions: NewEphemeralInstance. *)

Advance(p, l) == boot' = [boot EXCEPT ![p] = l]

\* The answer carries the expiry e.
Tell(p, e) == told' = [told EXCEPT ![p] = IF e > @ THEN e ELSE @]

Request(p) ==
  /\ boot[p] = "idle"
  /\ now <= LastBoot
  /\ born' = [born EXCEPT ![p] = now]
  /\ hard' = [hard EXCEPT ![p] = now + TTL]
  /\ idle' = [idle EXCEPT ![p] = IF idleTTL > 0 THEN now + idleTTL ELSE 0]
  /\ Advance(p, "create")
  /\ UNCHANGED <<now, idleTTL, exists, ready, ping, collector, report, fails, crashes>>

Create(p) ==
  /\ boot[p] = "create"
  /\ exists' = [exists EXCEPT ![p] = "live"]
  /\ Advance(p, "wait")
  /\ UNCHANGED <<now, idleTTL, ready, labels, ping, collector, born, report, fails, crashes>>

\* The handler gives up at once, also when the pod was created after all.
CreateFails(p) ==
  /\ boot[p] = "create"
  /\ Fail
  /\ exists' \in {exists, [exists EXCEPT ![p] = "live"]}
  /\ Advance(p, "failed")
  /\ UNCHANGED <<now, idleTTL, ready, labels, ping, collector, born, report, crashes>>

Ready(p) ==
  /\ boot[p] = "wait"
  /\ Live(p) /\ ready[p]
  /\ Tell(p, Expiry(p))
  /\ Advance(p, "ok")
  /\ UNCHANGED <<now, idleTTL, cluster, ping, collector, born, overtaken, fails, crashes>>

\* Mutant: the error is returned before the pod is deleted.
WaitFailsUncleaned(p) ==
  /\ boot[p] = "wait"
  /\ Advance(p, "failed")
  /\ UNCHANGED <<now, idleTTL, cluster, ping, collector, born, report, fails, crashes>>

\* waitForReady returns an error: the pod is gone or fatalPodReason names why
\* it can never start, a Get failed, the 60 s are over, or the client went
\* away.  One of these can be true at any moment.
WaitFails(p) ==
  /\ boot[p] = "wait"
  /\ Advance(p, "cleanup")
  /\ UNCHANGED <<now, idleTTL, cluster, ping, collector, born, report, fails, crashes>>

Cleanup(p) ==
  /\ boot[p] = "cleanup"
  /\ \/ Delete(p) /\ UNCHANGED fails
     \/ Fail /\ UNCHANGED exists
  /\ Advance(p, "failed")
  /\ UNCHANGED <<now, idleTTL, ready, labels, ping, collector, born, report, crashes>>

-----------------------------------------------------------------------------
(* DELETE /api/v1/sessions/{pod}: 204 whether or not the call worked. *)

Stop(p) ==
  /\ boot[p] = "ok"
  /\ Live(p)
  /\ \/ Delete(p) /\ UNCHANGED fails
     \/ Fail /\ UNCHANGED exists
  /\ UNCHANGED <<now, idleTTL, ready, labels, boot, ping, collector, born, report, crashes>>

-----------------------------------------------------------------------------
(* POST /api/v1/sessions/{pod}/keepalive: Extend, then the answer: the new   *)
(* expiry (200) or a failure (502), both "idle" again, or "gone" (404).      *)

Answer(k) == ping' = [ping EXCEPT ![k] = NoPing]

AnswerNotFound(k, p) ==
  ping' = [ping EXCEPT ![k] = [pc |-> "gone", pod |-> p, window |-> 0]]

\* Mutant: any error of Extend is a 404.
ErrorIsNotFound(k, p) == AnswerNotFound(k, p)

AnswerError(k, p) == Answer(k)

Patches(j, p) == ping[j].pc = "patch" /\ ping[j].pod = p

PingGet(k, p) ==
  /\ ping[k].pc # "patch"
  /\ boot[p] = "ok"
  /\ \/ /\ Live(p) /\ idleTTL > 0
        /\ ping' = [ping EXCEPT ![k] = [pc |-> "patch", pod |-> p, window |-> now + idleTTL]]
        /\ overtaken' = overtaken \union {q \in {p} : \E j \in Ping : Patches(j, q)}
        /\ UNCHANGED <<told, fails>>
     \/ /\ Live(p) /\ idleTTL <= 0
        /\ Tell(p, Expiry(p)) /\ UNCHANGED overtaken
        /\ Answer(k) /\ UNCHANGED fails
     \/ ~Live(p) /\ AnswerNotFound(k, p) /\ UNCHANGED <<report, fails>>
     \/ Fail /\ AnswerError(k, p) /\ UNCHANGED report
  /\ UNCHANGED <<now, idleTTL, cluster, boot, collector, born, crashes>>

Slide(k, p) ==
  /\ idle' = [idle EXCEPT ![p] = ping[k].window]
  /\ renewed' = renewed \union {p}

\* Mutant: the answer is computed from the clock, not from what was patched.
ExtendedAnew(k, p) == effectiveExpiry(hard[p], now + idleTTL)

\* The expiry Extend returns: the hard label it read, the window it wrote.
Extended(k, p) == effectiveExpiry(hard[p], ping[k].window)

PingPatch(k) ==
  /\ ping[k].pc = "patch"
  /\ LET p == ping[k].pod IN
     \/ /\ Live(p)
        /\ Slide(k, p)
        /\ Tell(p, Extended(k, p))
        /\ Answer(k) /\ UNCHANGED fails
     \/ ~Live(p) /\ AnswerNotFound(k, p) /\ UNCHANGED <<idle, renewed, told, fails>>
     \/ /\ Fail /\ AnswerError(k, p)
        /\ \/ Live(p) /\ Slide(k, p)
           \/ UNCHANGED <<idle, renewed>>
        /\ UNCHANGED told
  /\ UNCHANGED <<now, idleTTL, exists, ready, hard, boot, gc, seen, condemned, born, overtaken,
                 crashes>>

-----------------------------------------------------------------------------
(* The collector: RunGC calls GCExpiredPods at every tick of its timer.  A   *)
(* failing List skips the pass; a failing Delete leaves the pod to the next. *)

GCList ==
  /\ gc = "idle"
  /\ gc' = "clock"
  /\ seen' = [p \in Pod |-> IF Live(p) THEN Expiry(p) ELSE 0]
  /\ renewed' = {}
  /\ UNCHANGED <<now, idleTTL, cluster, boot, ping, condemned, born, report, fails, crashes>>

\* Mutant: a deadline that is now has passed.
GCClockEager ==
  /\ gc = "clock"
  /\ gc' = "reap"
  /\ condemned' = {p \in Pod : seen[p] # 0 /\ seen[p] <= now}
  /\ seen' = [p \in Pod |-> 0]
  /\ UNCHANGED <<now, idleTTL, cluster, boot, ping, renewed, born, report, fails, crashes>>

GCClock ==
  /\ gc = "clock"
  /\ gc' = "reap"
  /\ condemned' = {p \in Pod : seen[p] # 0 /\ seen[p] < now}
  /\ seen' = [p \in Pod |-> 0]
  /\ UNCHANGED <<now, idleTTL, cluster, boot, ping, renewed, born, report, fails, crashes>>

GCDelete(p) ==
  /\ gc = "reap"
  /\ p \in condemned
  /\ condemned' = condemned \ {p}
  /\ \/ Delete(p) /\ UNCHANGED fails
     \/ Fail /\ UNCHANGED exists
  /\ UNCHANGED <<now, idleTTL, ready, labels, boot, ping, gc, seen, renewed, born, report, crashes>>

GCDone ==
  /\ gc = "reap"
  /\ condemned = {}
  /\ gc' = "idle"
  /\ UNCHANGED <<now, idleTTL, cluster, boot, ping, seen, condemned, renewed, born, report, fails, crashes>>

-----------------------------------------------------------------------------
(* The world around the engine. *)

Kubelet(p) ==
  /\ Live(p) /\ ~ready[p]
  /\ ready' = [ready EXCEPT ![p] = TRUE]
  /\ UNCHANGED <<now, idleTTL, exists, labels, boot, ping, collector, born, report, fails, crashes>>

Tick ==
  /\ now < MaxTime
  /\ now' = now + 1
  /\ UNCHANGED <<idleTTL, cluster, boot, ping, collector, born, report, fails, crashes>>

\* The server process is replaced: handlers and the pass under way are gone,
\* the cluster is not.
Crash ==
  /\ crashes < MaxCrash
  /\ crashes' = crashes + 1
  /\ boot' = [p \in Pod |-> IF boot[p] \in {"create", "wait", "cleanup"} THEN "lost" ELSE boot[p]]
  /\ ping' = [k \in Ping |-> NoPing]
  /\ gc' = "idle"
  /\ seen' = [p \in Pod |-> 0]
  /\ condemned' = {}
  /\ UNCHANGED <<now, idleTTL, cluster, born, report, renewed, fails>>

BootStep(p) ==
  Create(p) \/ CreateFails(p) \/ Ready(p) \/ WaitFails(p) \/ Cleanup(p)

Collect == GCList \/ GCClock \/ GCDone \/ \E p \in Pod : GCDelete(p)

Next ==
  \/ \E p \in Pod : Request(p) \/ BootStep(p) \/ Stop(p) \/ Kubelet(p)
  \/ \E k \in Ping : PingPatch(k) \/ \E p \in Pod : PingGet(k, p)
  \/ Collect
  \/ Tick
  \/ Crash

Spec == Init /\ [][Next]_vars

\* The clock runs, the collector's goroutine runs as long as the process, and
\* the process is restarted when it ends.  Pages promise nothing.
FairSpec == Spec /\ WF_vars(Tick) /\ WF_vars(Collect)

-----------------------------------------------------------------------------
TypeOK ==
  /\ now \in 1..(MaxTime + 1)
  /\ idleTTL \in IdleTTLs
  /\ exists \in [Pod -> {"new", "live", "gone"}]
  /\ ready \in [Pod -> BOOLEAN]
  /\ hard \in [Pod -> Nat]
  /\ idle \in [Pod -> Nat]
  /\ boot \in [Pod -> {"idle", "create", "wait", "cleanup", "ok", "failed", "lost"}]
  /\ ping \in [Ping -> [pc : {"idle", "patch", "gone"},
                        pod : Pod \union {None}, window : Nat]]
  /\ gc \in {"idle", "clock", "reap"}
  /\ seen \in [Pod -> Nat]
  /\ condemned \in SUBSET Pod
  /\ born \in [Pod -> Nat]
  /\ told \in [Pod -> Nat]
  /\ overtaken \in SUBSET Pod
  /\ renewed \in SUBSET Pod
  /\ fails \in 0..MaxFail
  /\ crashes \in 0..MaxCrash

\* Every pod in the cluster, also one whose creation the learner was told had
\* failed or whose handler died, carries a deadline; it is never later than
\* TTL after its labels were computed, and no page is told a later one.
LifetimeCap ==
  \A p \in Pod :
    /\ Live(p) => Expiry(p) \in 1..(born[p] + TTL)
    /\ told[p] <= born[p] + TTL

\* The expiry a page was told stands: no later call, failing or delayed, brings
\* the pod's deadline before it, unless two keepalives crossed. "Extend slides
\* a Pod's idle window forward" (session.go:399).
ToldIsKept == \A p \in Pod \ overtaken : Live(p) => told[p] <= Expiry(p)

\* A pod the collector has condemned has passed a deadline, unless a keepalive
\* moved its window after the collector had listed it.
CondemnedIsExpired ==
  \A p \in condemned \ renewed : Live(p) => Expiry(p) < now

\* The collector deletes pods that passed either deadline, windows no page has
\* refreshed (session.go:281-283).
ReapsOnlyExpired ==
  [][\A p \in condemned : Live(p) /\ gc = "reap" /\ exists'[p] = "gone" /\ p \notin condemned'
                            => Expiry(p) < now]_vars

\* A keepalive answers 404 only for a pod that is gone for good
\* (server.go:215-216): the page resets its session on it.
NotFoundMeansGone ==
  \A k \in Ping : ping[k].pc = "gone" => exists[ping[k].pod] = "gone"

\* A boot the learner was told had failed leaves no pod behind, unless an API
\* call failed as well.
FailedBootIsCleanedUp ==
  fails = 0 => \A p \in Pod : boot[p] = "failed" => ~Live(p)

\* No pod outlives its deadlines for ever, whatever failed, crashed or was
\* forgotten on the way.
NoLeak == \A p \in Pod : Live(p) ~> exists[p] = "gone"
=============================================================================
