-------------------------- MODULE DockerShimProofs --------------------------
(***************************************************************************)
(* Proofs about DockerShim, for any names, networks, handlers and any      *)
(* sanitizeK8sName, injective or not.                                      *)
(***************************************************************************)
EXTENDS DockerShim, TLAPS

\* d's own pod is there.
Holds(d) == pods[sanitize[d]] # None /\ pods[sanitize[d]].of = d

Starting(d) == \E c \in Call : call[c].op = "start" /\ call[c].id = d
Recording(d) ==
  \E c \in Call : call[c].op = "start" /\ call[c].id = d /\ call[c].at = "record"
Removing(c) == call[c].op = "remove"

\* A pod has the name its container's name is made into.
InPlace ==
  \A k \in PodName : pods[k] # None => sanitize[pods[k].of] = k

\* While a remove is alone its container is not being started and not up, and
\* once it has deleted the pod there is none.
AloneIsQuiet ==
  \A c \in Call :
    Removing(c) /\ call[c].alone =>
      /\ ~Starting(call[c].id)
      /\ call[c].id \notin up
      /\ call[c].at = "forget" => ~Holds(call[c].id)

\* A remove that met a start may be the one that is left after another, alone,
\* has cleared the crossing: then there is nothing left to lose track of.
LeftIsQuiet ==
  \A c \in Call :
    Removing(c) /\ ~call[c].alone /\ call[c].id \notin crossed =>
      /\ ~Starting(call[c].id)
      /\ call[c].id \notin up
      /\ ~Holds(call[c].id)

\* A known pod is managed, about to be recorded, or of a crossing.
Recorded ==
  \A d \in Id :
    Holds(d) /\ pods[sanitize[d]].known /\ d \notin crossed =>
      d \in created \/ Recording(d)

RemovedIsQuiet == \A d \in removed : ~Holds(d) /\ ~Starting(d)

IInv ==
  /\ TypeOK /\ InPlace
  /\ AloneIsQuiet /\ LeftIsQuiet
  /\ Recorded /\ StartedIsManaged /\ RemovedIsQuiet

-----------------------------------------------------------------------------
LEMMA InitInv == Init => IInv
  BY ScenarioAssumption, NoneAssumption DEF Init, IInv, TypeOK, InPlace, AloneIsQuiet,
     LeftIsQuiet, Recorded, StartedIsManaged, RemovedIsQuiet, Holds, Starting, Recording,
     Removing, Idle

LEMMA TypeStep == TypeOK /\ [Next]_vars => TypeOK'
<1> SUFFICES ASSUME TypeOK, [Next]_vars PROVE TypeOK'
  OBVIOUS
<1> USE DEF TypeOK, Request, Idle, PodState
<1>1. ASSUME NEW d \in names, NEW spec \in SUBSET Net, Create(d, spec) PROVE TypeOK'
  BY <1>1 DEF Create, world, maps
<1>2. ASSUME NEW d \in names, NEW n \in Net, Connect(d, n) PROVE TypeOK'
  BY <1>2 DEF Connect, world, history
<1>3. ASSUME NEW d \in names, NEW c \in calls, Start(c, d) PROVE TypeOK'
  <2>1. ASSUME NEW x \in Call
        PROVE  call'[x] \in Request \union {Idle}
    <3>1. CASE x = c
      <4>1. pending[d] \in SUBSET Net /\ d \in Id
        BY <1>3 DEF Start
      <4> QED BY <1>3, <3>1, <4>1 DEF Start
    <3>2. CASE x # c /\ x \in Handling("remove", d)
      <4>1. call[x] \in [op : {"remove"}, id : Id, at : {"delete", "forget"}, alone : BOOLEAN]
        BY <3>2 DEF Handling
      <4>2. call'[x] = [call[x] EXCEPT !.alone = FALSE]
        BY <1>3, <3>2 DEF Start
      <4> QED BY <4>1, <4>2
    <3>3. CASE x # c /\ x \notin Handling("remove", d)
      BY <1>3, <3>3 DEF Start
    <3> QED BY <3>1, <3>2, <3>3
  <2>2. call' \in [Call -> Request \union {Idle}]
    BY <1>3, <2>1 DEF Start
  <2> QED BY <1>3, <2>2 DEF Start, world, maps
<1>4. ASSUME NEW d \in names, NEW c \in calls, Stop(c, d) PROVE TypeOK'
  BY <1>4 DEF Stop, world, maps, history
<1>5. ASSUME NEW d \in names, NEW c \in calls, Remove(c, d) PROVE TypeOK'
  BY <1>5 DEF Remove, world, maps, Handling
<1>6. ASSUME NEW c \in Call, Posted(c) PROVE TypeOK'
  BY <1>6 DEF Posted, Posting, world, maps, history
<1>7. ASSUME NEW c \in Call, PostLost(c) PROVE TypeOK'
  BY <1>7 DEF PostLost, Posting, Answer, world, maps, history
<1>8. ASSUME NEW c \in Call, PostFails(c) PROVE TypeOK'
  BY <1>8 DEF PostFails, Answer, world, maps, history
<1>9. ASSUME NEW c \in Call, Record(c) PROVE TypeOK'
  BY <1>9 DEF Record, Answer, world
<1>10. ASSUME NEW c \in Call, Stopped(c) PROVE TypeOK'
  BY <1>10 DEF Stopped, Delete, Answer, world, maps, history
<1>11. ASSUME NEW c \in Call, Deleted(c) PROVE TypeOK'
  BY <1>11 DEF Deleted, Delete, world, maps, history
<1>12. ASSUME NEW c \in Call, DeleteFails(c) PROVE TypeOK'
  BY <1>12 DEF DeleteFails, Delete, Answer, world, maps, history
<1>13. ASSUME NEW c \in Call, Forget(c) PROVE TypeOK'
  BY <1>13 DEF Forget, Answer, world
<1>14. ASSUME NEW k \in PodName, Evicted(k) PROVE TypeOK'
  BY <1>14 DEF Evicted, world, maps, history
<1>15. ASSUME Restart PROVE TypeOK'
  <2>1. \A k \in PodName : Landed(k) \subseteq {None} \union PodState
    <3> SUFFICES ASSUME NEW k \in PodName, NEW p \in Landed(k), p # None
                 PROVE  p \in PodState
      OBVIOUS
    <3>1. CASE pods[k] = None
      <4>1. PICK x \in Call : Posting(x) /\ p = [of |-> call[x].id, known |-> FALSE]
        BY <3>1 DEF Landed
      <4>2. call[x].id \in Id
        BY <4>1 DEF Posting
      <4> QED BY <4>1, <4>2
    <3>2. CASE pods[k] # None
      <4>1. p = [pods[k] EXCEPT !.known = FALSE] /\ pods[k] \in PodState
        BY <3>2 DEF Landed
      <4> QED BY <4>1
    <3> QED BY <3>1, <3>2
  <2> QED BY <1>15, <2>1 DEF Restart, world
<1>16. CASE UNCHANGED vars
  BY <1>16 DEF vars, world, maps, history
<1> QED BY <1>1, <1>2, <1>3, <1>4, <1>5, <1>6, <1>7, <1>8, <1>9, <1>10, <1>11, <1>12,
           <1>13, <1>14, <1>15, <1>16 DEF Next, Asked, Handle

\* IInv but for the types.
Rest ==
  /\ InPlace
  /\ AloneIsQuiet /\ LeftIsQuiet
  /\ Recorded /\ StartedIsManaged /\ RemovedIsQuiet

LEMMA CreateKeeps ==
  ASSUME IInv, TypeOK', NEW d \in names, NEW spec \in SUBSET Net, Create(d, spec)
  PROVE  Rest'
<1> USE DEF IInv, TypeOK, Request, Idle, PodState, Holds, Starting, Recording, Removing, world
<1>1. InPlace'
  BY DEF InPlace, Create
<1>2. AloneIsQuiet'
  BY DEF AloneIsQuiet, Create
<1>3. LeftIsQuiet'
  BY DEF LeftIsQuiet, Create
<1>4. Recorded'
  BY DEF Recorded, Create
<1>5. StartedIsManaged'
  BY DEF StartedIsManaged, Create
<1>6. RemovedIsQuiet'
  BY DEF RemovedIsQuiet, Create
<1> QED BY <1>1, <1>2, <1>3, <1>4, <1>5, <1>6 DEF Rest

LEMMA ConnectKeeps ==
  ASSUME IInv, TypeOK', NEW d \in names, NEW n \in Net, Connect(d, n)
  PROVE  Rest'
<1> USE DEF IInv, TypeOK, Request, Idle, PodState, Holds, Starting, Recording, Removing, world
<1>1. InPlace'
  BY DEF InPlace, Connect, history
<1>2. AloneIsQuiet'
  BY DEF AloneIsQuiet, Connect, history
<1>3. LeftIsQuiet'
  BY DEF LeftIsQuiet, Connect, history
<1>4. Recorded'
  BY DEF Recorded, Connect, history
<1>5. StartedIsManaged'
  BY DEF StartedIsManaged, Connect, history
<1>6. RemovedIsQuiet'
  BY DEF RemovedIsQuiet, Connect, history
<1> QED BY <1>1, <1>2, <1>3, <1>4, <1>5, <1>6 DEF Rest

LEMMA StartKeeps ==
  ASSUME IInv, TypeOK', NEW d \in names, NEW c \in calls, Start(c, d)
  PROVE  Rest'
<1> USE DEF IInv, TypeOK, Request, Idle, PodState, Holds, Starting, Recording, Removing, world
<1>1. InPlace'
  BY DEF InPlace, Start, Handling, maps
<1>2. AloneIsQuiet'
  BY DEF AloneIsQuiet, Start, Handling, maps
<1>3. LeftIsQuiet'
  BY DEF LeftIsQuiet, Start, Handling, maps
<1>4. Recorded'
  BY DEF Recorded, Start, Handling, maps
<1>5. StartedIsManaged'
  BY DEF StartedIsManaged, Start, Handling, maps
<1>6. RemovedIsQuiet'
  BY DEF RemovedIsQuiet, Start, Handling, maps
<1> QED BY <1>1, <1>2, <1>3, <1>4, <1>5, <1>6 DEF Rest

LEMMA StopKeeps ==
  ASSUME IInv, TypeOK', NEW d \in names, NEW c \in calls, Stop(c, d)
  PROVE  Rest'
<1> USE DEF IInv, TypeOK, Request, Idle, PodState, Holds, Starting, Recording, Removing, world
<1>1. InPlace'
  BY DEF InPlace, Stop, maps, history
<1>2. AloneIsQuiet'
  BY DEF AloneIsQuiet, Stop, maps, history
<1>3. LeftIsQuiet'
  BY DEF LeftIsQuiet, Stop, maps, history
<1>4. Recorded'
  BY DEF Recorded, Stop, maps, history
<1>5. StartedIsManaged'
  BY DEF StartedIsManaged, Stop, maps, history
<1>6. RemovedIsQuiet'
  BY DEF RemovedIsQuiet, Stop, maps, history
<1> QED BY <1>1, <1>2, <1>3, <1>4, <1>5, <1>6 DEF Rest

LEMMA RemoveKeeps ==
  ASSUME IInv, TypeOK', NEW d \in names, NEW c \in calls, Remove(c, d)
  PROVE  Rest'
<1> USE DEF IInv, TypeOK, Request, Idle, PodState, Holds, Starting, Recording, Removing, world
<1>1. InPlace'
  BY DEF InPlace, Remove, Handling, maps
<1>2. AloneIsQuiet'
  BY ZenonT(60) DEF AloneIsQuiet, Remove, Handling, maps
<1>3. LeftIsQuiet'
  BY ZenonT(60) DEF LeftIsQuiet, Remove, Handling, maps
<1>4. Recorded'
  BY DEF Recorded, Remove, Handling, maps
<1>5. StartedIsManaged'
  BY DEF StartedIsManaged, Remove, Handling, maps
<1>6. RemovedIsQuiet'
  BY DEF RemovedIsQuiet, Remove, Handling, maps
<1> QED BY <1>1, <1>2, <1>3, <1>4, <1>5, <1>6 DEF Rest

LEMMA PostedKeeps ==
  ASSUME IInv, TypeOK', NEW c \in Call, Posted(c)
  PROVE  Rest'
<1> USE DEF IInv, TypeOK, Request, Idle, PodState, Holds, Starting, Recording, Removing, world
<1>1. InPlace'
  BY DEF InPlace, Posted, Posting, Pod, maps, history
<1>2. AloneIsQuiet'
  BY DEF AloneIsQuiet, Posted, Posting, Pod, maps, history
<1>3. LeftIsQuiet'
  BY DEF LeftIsQuiet, Posted, Posting, Pod, maps, history
<1>4. Recorded'
  BY DEF Recorded, Posted, Posting, Pod, maps, history
<1>5. StartedIsManaged'
  BY DEF StartedIsManaged, Posted, Posting, Pod, maps, history
<1>6. RemovedIsQuiet'
  BY DEF RemovedIsQuiet, Posted, Posting, Pod, maps, history
<1> QED BY <1>1, <1>2, <1>3, <1>4, <1>5, <1>6 DEF Rest

LEMMA PostLostKeeps ==
  ASSUME IInv, TypeOK', NEW c \in Call, PostLost(c)
  PROVE  Rest'
<1> USE DEF IInv, TypeOK, Request, Idle, PodState, Holds, Starting, Recording, Removing, world
<1>1. InPlace'
  BY DEF InPlace, PostLost, Posting, Pod, Answer, maps, history
<1>2. AloneIsQuiet'
  BY DEF AloneIsQuiet, PostLost, Posting, Pod, Answer, maps, history
<1>3. LeftIsQuiet'
  BY DEF LeftIsQuiet, PostLost, Posting, Pod, Answer, maps, history
<1>4. Recorded'
  BY DEF Recorded, PostLost, Posting, Pod, Answer, maps, history
<1>5. StartedIsManaged'
  BY DEF StartedIsManaged, PostLost, Posting, Pod, Answer, maps, history
<1>6. RemovedIsQuiet'
  BY DEF RemovedIsQuiet, PostLost, Posting, Pod, Answer, maps, history
<1> QED BY <1>1, <1>2, <1>3, <1>4, <1>5, <1>6 DEF Rest

LEMMA PostFailsKeeps ==
  ASSUME IInv, TypeOK', NEW c \in Call, PostFails(c)
  PROVE  Rest'
<1> USE DEF IInv, TypeOK, Request, Idle, PodState, Holds, Starting, Recording, Removing, world
<1>1. InPlace'
  BY DEF InPlace, PostFails, Posting, Answer, maps, history
<1>2. AloneIsQuiet'
  BY DEF AloneIsQuiet, PostFails, Posting, Answer, maps, history
<1>3. LeftIsQuiet'
  BY DEF LeftIsQuiet, PostFails, Posting, Answer, maps, history
<1>4. Recorded'
  BY DEF Recorded, PostFails, Posting, Answer, maps, history
<1>5. StartedIsManaged'
  BY DEF StartedIsManaged, PostFails, Posting, Answer, maps, history
<1>6. RemovedIsQuiet'
  BY DEF RemovedIsQuiet, PostFails, Posting, Answer, maps, history
<1> QED BY <1>1, <1>2, <1>3, <1>4, <1>5, <1>6 DEF Rest

LEMMA RecordKeeps ==
  ASSUME IInv, TypeOK', NEW c \in Call, Record(c)
  PROVE  Rest'
<1> USE DEF IInv, TypeOK, Request, Idle, PodState, Holds, Starting, Recording, Removing, world
<1>1. InPlace'
  BY DEF InPlace, Record, Answer
<1>2. AloneIsQuiet'
  BY DEF AloneIsQuiet, Record, Answer
<1>3. LeftIsQuiet'
  BY DEF LeftIsQuiet, Record, Answer
<1>4. Recorded'
  BY DEF Recorded, Record, Answer
<1>5. StartedIsManaged'
  BY DEF StartedIsManaged, Record, Answer
<1>6. RemovedIsQuiet'
  BY DEF RemovedIsQuiet, Record, Answer
<1> QED BY <1>1, <1>2, <1>3, <1>4, <1>5, <1>6 DEF Rest

LEMMA StoppedKeeps ==
  ASSUME IInv, TypeOK', NEW c \in Call, Stopped(c)
  PROVE  Rest'
<1> USE DEF IInv, TypeOK, Request, Idle, PodState, Holds, Starting, Recording, Removing, world
<1>1. InPlace'
  BY DEF InPlace, Stopped, Delete, Answer, maps, history
<1>2. AloneIsQuiet'
  BY DEF AloneIsQuiet, Stopped, Delete, Answer, maps, history
<1>3. LeftIsQuiet'
  BY DEF LeftIsQuiet, Stopped, Delete, Answer, maps, history
<1>4. Recorded'
  BY DEF Recorded, Stopped, Delete, Answer, maps, history
<1>5. StartedIsManaged'
  BY DEF StartedIsManaged, Stopped, Delete, Answer, maps, history
<1>6. RemovedIsQuiet'
  BY DEF RemovedIsQuiet, Stopped, Delete, Answer, maps, history
<1> QED BY <1>1, <1>2, <1>3, <1>4, <1>5, <1>6 DEF Rest

LEMMA DeletedKeeps ==
  ASSUME IInv, TypeOK', NEW c \in Call, Deleted(c)
  PROVE  Rest'
<1> USE DEF IInv, TypeOK, Request, Idle, PodState, Holds, Starting, Recording, Removing, world
<1>1. InPlace'
  BY DEF InPlace, Deleted, Delete, maps, history
<1>2. AloneIsQuiet'
  BY DEF AloneIsQuiet, Deleted, Delete, maps, history
<1>3. LeftIsQuiet'
  BY DEF LeftIsQuiet, Deleted, Delete, maps, history
<1>4. Recorded'
  BY DEF Recorded, Deleted, Delete, maps, history
<1>5. StartedIsManaged'
  BY DEF StartedIsManaged, Deleted, Delete, maps, history
<1>6. RemovedIsQuiet'
  BY DEF RemovedIsQuiet, Deleted, Delete, maps, history
<1> QED BY <1>1, <1>2, <1>3, <1>4, <1>5, <1>6 DEF Rest

LEMMA DeleteFailsKeeps ==
  ASSUME IInv, TypeOK', NEW c \in Call, DeleteFails(c)
  PROVE  Rest'
<1> USE DEF IInv, TypeOK, Request, Idle, PodState, Holds, Starting, Recording, Removing, world
<1>1. InPlace'
  BY DEF InPlace, DeleteFails, Delete, Answer, maps, history
<1>2. AloneIsQuiet'
  BY DEF AloneIsQuiet, DeleteFails, Delete, Answer, maps, history
<1>3. LeftIsQuiet'
  BY DEF LeftIsQuiet, DeleteFails, Delete, Answer, maps, history
<1>4. Recorded'
  BY DEF Recorded, DeleteFails, Delete, Answer, maps, history
<1>5. StartedIsManaged'
  BY DEF StartedIsManaged, DeleteFails, Delete, Answer, maps, history
<1>6. RemovedIsQuiet'
  BY DEF RemovedIsQuiet, DeleteFails, Delete, Answer, maps, history
<1> QED BY <1>1, <1>2, <1>3, <1>4, <1>5, <1>6 DEF Rest

LEMMA ForgetKeeps ==
  ASSUME IInv, TypeOK', NEW c \in Call, Forget(c)
  PROVE  Rest'
<1> DEFINE d == call[c].id
<1> USE DEF IInv, TypeOK, Request, Idle, PodState, Holds, Starting, Recording, Removing, world
<1>1. d \in Id /\ Removing(c) /\ call[c].at = "forget"
  BY DEF Forget
<1>2. /\ UNCHANGED <<pods, up, sanitize>>
      /\ call'[c] = Idle
      /\ \A x \in Call : x # c => call'[x] = call[x]
  BY DEF Forget, Answer
<1>3. d \notin crossed' => ~Starting(d) /\ d \notin up /\ ~Holds(d)
  <2>1. CASE call[c].alone
    BY <1>1, <2>1 DEF AloneIsQuiet
  <2>2. CASE ~call[c].alone
    BY <1>1, <2>2 DEF LeftIsQuiet, Forget
  <2> QED BY <2>1, <2>2
<1>4. \A x \in Id : x # d =>
        (x \in crossed' <=> x \in crossed) /\ (x \in created' <=> x \in created)
  BY DEF Forget
<1>5. \A x \in Id : (Starting(x)' => Starting(x)) /\ (Recording(x) /\ x # d => Recording(x)')
  BY <1>2, <1>1
<1>6. \A x \in Id : Holds(x)' <=> Holds(x)
  BY <1>2
<1>7. InPlace'
  BY <1>2 DEF InPlace
<1>8. AloneIsQuiet'
  BY <1>2, <1>5, <1>6 DEF AloneIsQuiet
<1>9. LeftIsQuiet'
  BY <1>2, <1>3, <1>4, <1>5, <1>6 DEF LeftIsQuiet
<1>10. Recorded'
  BY <1>2, <1>3, <1>4, <1>5, <1>6 DEF Recorded
<1>11. StartedIsManaged'
  BY <1>2, <1>3, <1>4 DEF StartedIsManaged
<1>12. RemovedIsQuiet'
  <2>1. ASSUME NEW x \in removed' PROVE ~Holds(x)' /\ ~Starting(x)'
    <3>1. CASE x \in removed
      BY <1>5, <1>6, <3>1 DEF RemovedIsQuiet
    <3>2. CASE x \notin removed
      <4>1. x = d /\ call[c].alone
        BY <3>2 DEF Forget
      <4> QED BY <1>1, <1>5, <1>6, <4>1 DEF AloneIsQuiet
    <3> QED BY <3>1, <3>2
  <2> QED BY <2>1 DEF RemovedIsQuiet
<1> QED BY <1>7, <1>8, <1>9, <1>10, <1>11, <1>12 DEF Rest

LEMMA EvictedKeeps ==
  ASSUME IInv, TypeOK', NEW k \in PodName, Evicted(k)
  PROVE  Rest'
<1> USE DEF IInv, TypeOK, Request, Idle, PodState, Holds, Starting, Recording, Removing, world
<1>1. InPlace'
  BY DEF InPlace, Evicted, maps, history
<1>2. AloneIsQuiet'
  BY DEF AloneIsQuiet, Evicted, maps, history
<1>3. LeftIsQuiet'
  BY DEF LeftIsQuiet, Evicted, maps, history
<1>4. Recorded'
  BY DEF Recorded, Evicted, maps, history
<1>5. StartedIsManaged'
  BY DEF StartedIsManaged, Evicted, maps, history
<1>6. RemovedIsQuiet'
  BY DEF RemovedIsQuiet, Evicted, maps, history
<1> QED BY <1>1, <1>2, <1>3, <1>4, <1>5, <1>6 DEF Rest

LEMMA RestartKeeps ==
  ASSUME IInv, TypeOK', Restart
  PROVE  Rest'
<1> USE DEF IInv, TypeOK, Request, Idle, PodState, Holds, Starting, Recording, Removing, world
<1>1. InPlace'
  BY SMTT(30) DEF InPlace, Restart, Landed, Posting
<1>2. AloneIsQuiet'
  BY DEF AloneIsQuiet, Restart, Landed, Posting
<1>3. LeftIsQuiet'
  BY DEF LeftIsQuiet, Restart, Landed, Posting
<1>4. Recorded'
  BY DEF Recorded, Restart, Landed, Posting
<1>5. StartedIsManaged'
  BY DEF StartedIsManaged, Restart, Landed, Posting
<1>6. RemovedIsQuiet'
  BY DEF RemovedIsQuiet, Restart, Landed, Posting
<1> QED BY <1>1, <1>2, <1>3, <1>4, <1>5, <1>6 DEF Rest

LEMMA StutterKeeps ==
  ASSUME IInv, UNCHANGED vars
  PROVE  Rest'
<1> USE DEF IInv, Holds, Starting, Recording, Removing, vars, world, maps, history
<1> QED BY DEF Rest, InPlace, AloneIsQuiet, LeftIsQuiet, Recorded, StartedIsManaged,
               RemovedIsQuiet

LEMMA InvStep == IInv /\ [Next]_vars => IInv'
<1> SUFFICES ASSUME IInv, [Next]_vars PROVE IInv'
  OBVIOUS
<1>1. TypeOK'
  BY TypeStep DEF IInv
<1>2. ASSUME NEW d \in names, Asked(d) PROVE Rest'
  BY <1>1, <1>2, CreateKeeps, ConnectKeeps, StartKeeps, StopKeeps, RemoveKeeps DEF Asked
<1>3. ASSUME NEW c \in Call, Handle(c) PROVE Rest'
  BY <1>1, <1>3, PostedKeeps, PostLostKeeps, PostFailsKeeps, RecordKeeps, StoppedKeeps,
     DeletedKeeps, DeleteFailsKeeps, ForgetKeeps DEF Handle
<1>4. ASSUME NEW k \in PodName, Evicted(k) PROVE Rest'
  BY <1>1, <1>4, EvictedKeeps
<1>5. ASSUME Restart PROVE Rest'
  BY <1>1, <1>5, RestartKeeps
<1>6. ASSUME UNCHANGED vars PROVE Rest'
  BY <1>6, StutterKeeps
<1>7. Rest'
  BY <1>2, <1>3, <1>4, <1>5, <1>6 DEF Next
<1> QED BY <1>1, <1>7 DEF IInv, Rest

-----------------------------------------------------------------------------
\* The strengthening is an invariant.
THEOREM Invariant == Spec => []IInv
<1> QED BY InitInv, InvStep, PTL DEF Spec

\* Every variable keeps its type.
THEOREM TypeCorrect == Spec => []TypeOK
<1>1. IInv => TypeOK
  BY DEF IInv
<1> QED BY <1>1, Invariant, PTL

\* A container whose start was answered 204 (server.go:213-221) is answered for
\* as managed until it is removed, however many calls, failures and evictions
\* come between; the one exception is a remove handled while it was started.
THEOREM StartedStaysManaged == Spec => []StartedIsManaged
<1>1. IInv => StartedIsManaged
  BY DEF IInv
<1> QED BY <1>1, Invariant, PTL

\* createPod and the maps never disagree about a pod the shim knows it made,
\* also when two docker names are sanitized to the same pod name.
THEOREM KnownPodIsManaged == Spec => []NoStrayPod
<1>1. IInv => NoStrayPod
  <2> SUFFICES ASSUME IInv, NEW k \in PodName, pods[k] # None, pods[k].known,
                      pods[k].of \notin crossed
               PROVE  \/ pods[k].of \in created
                      \/ \E c \in Handling("start", pods[k].of) : call[c].at = "record"
    BY DEF NoStrayPod
  <2>1. pods[k].of \in Id /\ sanitize[pods[k].of] = k
    BY DEF IInv, TypeOK, PodState, InPlace
  <2>2. pods[k].of \in created \/ Recording(pods[k].of)
    BY <2>1 DEF IInv, Recorded, Holds
  <2> QED BY <2>2 DEF Recording, Handling
<1> QED BY <1>1, Invariant, PTL

\* removeContainer (server.go:252-264) deletes by name and asks nothing first:
\* after its 204 there is no pod of the container, not even one from before a
\* restart, until the name is created or started again.
THEOREM RemovedStaysGone == Spec => []RemovedIsGone
<1>1. IInv => RemovedIsGone
  <2> SUFFICES ASSUME IInv, NEW k \in PodName, pods[k] # None, pods[k].of \in removed
               PROVE  FALSE
    BY DEF RemovedIsGone
  <2>1. sanitize[pods[k].of] = k
    BY DEF IInv, InPlace
  <2> QED BY <2>1 DEF IInv, RemovedIsQuiet, Holds
<1> QED BY <1>1, Invariant, PTL
=============================================================================
