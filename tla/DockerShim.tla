----------------------------- MODULE DockerShim -----------------------------
(***************************************************************************)
(* The Docker API over Kubernetes (internal/dockershim): docker names, the *)
(* maps the shim keeps about them under its mutex, and the pods its        *)
(* handlers create and delete while they do not hold it.                   *)
(*                                                                         *)
(* A handler is a step for every turn at the mutex and every API call, so  *)
(* calls for one container may cross; the shim may restart between any two *)
(* steps and forgets everything then.  The cache podName holds nothing but *)
(* values of sanitizeK8sName and is left out.                              *)
(***************************************************************************)
EXTENDS Naturals

CONSTANTS
  Id,          \* docker names
  PodName,     \* Kubernetes names
  Net,         \* networks
  Call,        \* bound: requests being handled at once
  Scenario,    \* the names and handlers in use, and sanitizeK8sName on Id
  None

ASSUME ScenarioAssumption ==
  \A x \in Scenario :
    /\ x.names \subseteq Id /\ x.calls \subseteq Call
    /\ x.sanitize \in [Id -> PodName]
ASSUME NoneAssumption == \A S \in SUBSET Net : None # S

VARIABLES
  names, calls,  \* the names used and the handlers at work; fixed
  sanitize,      \* the docker names' pod names, fixed; two may be the same
  pending,       \* pending[d]: the spec of d, here its networks, or None
  created,       \* the names taken for managed
  netMembers,    \* netMembers[d]: networks d was connected to
  pods,          \* the cluster: pods[k] is None or whose pod runs there
  call,          \* requests being handled
  up,            \* history: started, 204, and not asked to be removed since
  removed,       \* history: removed, 204, and not created or started since
  crossed        \* history: a start and a remove were handled at once, and no
                 \* remove on its own since

maps == <<pending, created, netMembers>>
history == <<up, removed, crossed>>
world == <<names, calls, sanitize>>
vars == <<world, maps, pods, call, history>>

\* A pod the shim got no answer for, or made before it restarted, is unknown.
PodState == [of : Id, known : BOOLEAN]
Idle == [op |-> "none"]
Request ==
  [op : {"start"}, id : Id, at : {"post", "record"}, spec : SUBSET Net] \union
  [op : {"remove"}, id : Id, at : {"delete", "forget"}, alone : BOOLEAN] \union
  [op : {"stop"}, id : Id]

Init ==
  /\ \E x \in Scenario :
       names = x.names /\ calls = x.calls /\ sanitize = x.sanitize
  /\ pending = [d \in Id |-> None]
  /\ created = {}
  /\ netMembers = [d \in Id |-> {}]
  /\ pods = [k \in PodName |-> None]
  /\ call = [c \in Call |-> Idle]
  /\ up = {} /\ removed = {} /\ crossed = {}

-----------------------------------------------------------------------------
Handling(op, d) == {c \in Call : call[c].op = op /\ call[c].id = d}

Answer(c) == call' = [call EXCEPT ![c] = Idle]

Pod(d) == pods[sanitize[d]]

\* docker create: the spec waits for its start.
Create(d, spec) ==
  /\ pending' = [pending EXCEPT ![d] = spec]
  /\ removed' = removed \ {d}
  /\ UNCHANGED <<world, created, netMembers, pods, call, up, crossed>>

\* networkConnect; there is nothing to undo it.
Connect(d, n) ==
  /\ netMembers' = [netMembers EXCEPT ![d] = @ \union {n}]
  /\ UNCHANGED <<world, pending, created, pods, call, history>>

\* startContainer reads the spec; without one it is over.
Start(c, d) ==
  /\ call[c] = Idle /\ pending[d] # None
  /\ call' = [x \in Call |->
       IF x = c THEN [op |-> "start", id |-> d, at |-> "post", spec |-> pending[d]]
       ELSE IF x \in Handling("remove", d) THEN [call[x] EXCEPT !.alone = FALSE]
       ELSE call[x]]
  /\ removed' = removed \ {d}
  /\ crossed' = IF Handling("remove", d) = {} THEN crossed ELSE crossed \union {d}
  /\ UNCHANGED <<world, maps, pods, up>>

Posting(c) == call[c].op = "start" /\ call[c].at = "post"

Posted(c) ==
  LET d == call[c].id IN
  /\ Posting(c) /\ Pod(d) = None
  /\ pods' = [pods EXCEPT ![sanitize[d]] = [of |-> d, known |-> TRUE]]
  /\ call' = [call EXCEPT ![c].at = "record"]
  /\ UNCHANGED <<world, maps, history>>

\* The pod is made and the answer lost: 500.
PostLost(c) ==
  LET d == call[c].id IN
  /\ Posting(c) /\ Pod(d) = None
  /\ pods' = [pods EXCEPT ![sanitize[d]] = [of |-> d, known |-> FALSE]]
  /\ Answer(c)
  /\ UNCHANGED <<world, maps, history>>

\* The name is taken, or the API fails: 500.
PostFails(c) ==
  /\ Posting(c)
  /\ Answer(c)
  /\ UNCHANGED <<world, maps, pods, history>>

\* Mutant: the pod is made and nothing is recorded but its networks.
RecordNets(c) ==
  LET d == call[c].id IN
  /\ call[c].op = "start" /\ call[c].at = "record"
  /\ netMembers' = [netMembers EXCEPT ![d] = @ \union call[c].spec]
  /\ up' = up \union {d}
  /\ Answer(c)
  /\ UNCHANGED <<world, pending, created, pods, removed, crossed>>

Record(c) ==
  LET d == call[c].id IN
  /\ call[c].op = "start" /\ call[c].at = "record"
  /\ created' = created \union {d}
  /\ netMembers' = [netMembers EXCEPT ![d] = @ \union call[c].spec]
  /\ up' = up \union {d}
  /\ Answer(c)
  /\ UNCHANGED <<world, pending, pods, removed, crossed>>

\* A delete of d's pod, whoever's it is; none is as good as deleted.
Delete(d) == pods' = [pods EXCEPT ![sanitize[d]] = None]

Stop(c, d) ==
  /\ call[c] = Idle
  /\ call' = [call EXCEPT ![c] = [op |-> "stop", id |-> d]]
  /\ UNCHANGED <<world, maps, pods, history>>

\* Mutant: stopping forgets that the container was created.
StoppedForgets(c) ==
  /\ call[c].op = "stop"
  /\ Delete(call[c].id)
  /\ created' = created \ {call[c].id}
  /\ Answer(c)
  /\ UNCHANGED <<world, pending, netMembers, history>>

Stopped(c) ==
  /\ call[c].op = "stop"
  /\ Delete(call[c].id)
  /\ Answer(c)
  /\ UNCHANGED <<world, maps, history>>

\* Mutant: a name that is not managed has no pod to delete.
RemoveManaged(c, d) ==
  /\ call[c] = Idle
  /\ call' = [call EXCEPT ![c] = [op |-> "remove", id |-> d,
                at |-> IF d \in created THEN "delete" ELSE "forget",
                alone |-> Handling("start", d) = {}]]
  /\ up' = up \ {d}
  /\ crossed' = IF Handling("start", d) = {} THEN crossed ELSE crossed \union {d}
  /\ UNCHANGED <<world, maps, pods, removed>>

Remove(c, d) ==
  /\ call[c] = Idle
  /\ call' = [call EXCEPT ![c] = [op |-> "remove", id |-> d, at |-> "delete",
                alone |-> Handling("start", d) = {}]]
  /\ up' = up \ {d}
  /\ crossed' = IF Handling("start", d) = {} THEN crossed ELSE crossed \union {d}
  /\ UNCHANGED <<world, maps, pods, removed>>

Deleted(c) ==
  /\ call[c].op = "remove" /\ call[c].at = "delete"
  /\ Delete(call[c].id)
  /\ call' = [call EXCEPT ![c].at = "forget"]
  /\ UNCHANGED <<world, maps, history>>

\* The API fails, before or after the pod is gone: 500, and nothing forgotten.
DeleteFails(c) ==
  /\ call[c].op = "stop" \/ (call[c].op = "remove" /\ call[c].at = "delete")
  /\ Delete(call[c].id) \/ UNCHANGED pods
  /\ Answer(c)
  /\ UNCHANGED <<world, maps, history>>

\* The spec and the mark go; netMembers stays.
Forget(c) ==
  LET d == call[c].id IN
  /\ call[c].op = "remove" /\ call[c].at = "forget"
  /\ pending' = [pending EXCEPT ![d] = None]
  /\ created' = created \ {d}
  /\ IF call[c].alone
     THEN removed' = removed \union {d} /\ crossed' = crossed \ {d}
     ELSE UNCHANGED <<removed, crossed>>
  /\ Answer(c)
  /\ UNCHANGED <<world, netMembers, pods, up>>

\* Somebody else deletes a pod: an eviction, a lost node, kubectl.
Evicted(k) ==
  /\ pods[k] # None
  /\ pods' = [pods EXCEPT ![k] = None]
  /\ UNCHANGED <<world, maps, call, history>>

\* What API calls under way may still do to the pod name k.
Landed(k) ==
  (IF pods[k] = None
   THEN {None} \union {[of |-> call[c].id, known |-> FALSE] :
          c \in {x \in Call : Posting(x) /\ sanitize[call[x].id] = k}}
   ELSE {[pods[k] EXCEPT !.known = FALSE]}) \union
  {None : c \in {x \in Call : /\ call[x].op \in {"stop", "remove"}
                              /\ sanitize[call[x].id] = k}}

\* The shim restarts with empty maps; its API calls under way land or do not.
Restart ==
  /\ pending' = [d \in Id |-> None]
  /\ created' = {}
  /\ netMembers' = [d \in Id |-> {}]
  /\ call' = [c \in Call |-> Idle]
  /\ pods' \in [PodName -> UNION {Landed(k) : k \in PodName}]
  /\ \A k \in PodName : pods'[k] \in Landed(k)
  /\ up' = {} /\ crossed' = {}
  /\ UNCHANGED <<world, removed>>

Asked(d) ==
  \/ \E spec \in SUBSET Net : Create(d, spec)
  \/ \E n \in Net : Connect(d, n)
  \/ \E c \in calls : Start(c, d) \/ Stop(c, d) \/ Remove(c, d)

Handle(c) ==
  \/ Posted(c) \/ PostLost(c) \/ PostFails(c) \/ Record(c)
  \/ Stopped(c) \/ Deleted(c) \/ DeleteFails(c) \/ Forget(c)

Next ==
  \/ \E d \in names : Asked(d)
  \/ \E c \in Call : Handle(c)
  \/ \E k \in PodName : Evicted(k)
  \/ Restart

Spec == Init /\ [][Next]_vars

-----------------------------------------------------------------------------
(* Properties.                                                               *)

\* Every variable keeps its type.
TypeOK ==
  /\ names \subseteq Id /\ calls \subseteq Call /\ sanitize \in [Id -> PodName]
  /\ pending \in [Id -> {None} \union SUBSET Net]
  /\ created \subseteq Id
  /\ netMembers \in [Id -> SUBSET Net]
  /\ pods \in [PodName -> {None} \union PodState]
  /\ call \in [Call -> Request \union {Idle}]
  /\ up \subseteq Id /\ removed \subseteq Id /\ crossed \subseteq Id

\* "Reports whether dockerName is a container this shim created" (k8s.go:232):
\* from the 204 of its start to its remove a container is never answered for
\* with a made-up address, unless a remove was handled while it was started.
StartedIsManaged == up \ crossed \subseteq created

\* No pod the shim made, and was told so, is a stranger to it: whatever else
\* was called, stopped or failed, its container is managed or its start about
\* to record it, as long as no start and remove of it crossed.
NoStrayPod ==
  \A k \in PodName :
    LET d == pods[k].of IN
    pods[k] # None /\ pods[k].known /\ d \notin crossed
      => d \in created \/ \E c \in Handling("start", d) : call[c].at = "record"

\* A remove that met no start leaves nothing behind until the name is used
\* again: also of a pod from before a restart, one whose answer was lost, or one
\* a crossing left unmanaged (server.go:252-264 asks nothing before it deletes).
RemovedIsGone ==
  \A k \in PodName : pods[k] # None => pods[k].of \notin removed
=============================================================================
