------------------------------ MODULE SolveLog ------------------------------
(***************************************************************************)
(* The solve store and its append-only log (internal/scoring).             *)
(*                                                                         *)
(* A server process keeps the solves in memory (Store.solves) and appends  *)
(* each new one to a JSON-lines file it shares with the processes before   *)
(* and after it.  Handlers of the scoring API run concurrently: a handler  *)
(* grades, marks the pair in memory under Store.mu, and, when the mark was *)
(* new, writes and fsyncs one line under Journal.mu before it answers.     *)
(*                                                                         *)
(* The file is a sequence of tokens: a pair stands for the bytes of one    *)
(* whole record, NL for a newline, Frag for a proper prefix of a record.   *)
(* The first `stable' tokens are on disk; the rest is in the page cache.   *)
(***************************************************************************)
EXTENDS Naturals, Sequences, FiniteSets

CONSTANTS
  User,        \* learner identities (auth.UserIDFunc)
  Challenge,   \* challenge hashes a client may name
  Known,       \* the hashes the build's challenges.json registered
  Answer,      \* submissions
  Accepted,    \* Accepted[c]: submissions equal to a flag of c, or near enough
               \* to a phash flag of c
  Assertive,   \* challenges with a content assertion (Verify.Assertive)
  Req,         \* requests of the scoring API
  Server,      \* server processes that may have the log open
  Scenario,    \* the sets of faults an environment may be capable of
  MaxCrash,    \* bound: crashes of processes or of the node
  NL, Frag,    \* the newline and a torn record
  None         \* no server, no pair

Pair == User \X Challenge

\* kill: a process ends without waiting for its handlers; tear: it may end
\* inside a write; power: the node goes down; shortwrite, syncfail, readfail:
\* a system call on the log fails and the process goes on; overlap: a rollout
\* starts the new process before the old one has ended (the chart's Deployment
\* sets no strategy).
FaultKind ==
  {"kill", "tear", "power", "shortwrite", "syncfail", "readfail", "overlap"}

ASSUME CatalogueAssumption ==
  /\ Known \subseteq Challenge
  /\ Assertive \subseteq Known
  /\ Accepted \in [Known -> SUBSET Answer]

ASSUME TokenAssumption ==
  /\ NL \notin Pair
  /\ Frag \notin Pair
  /\ None \notin Pair
  /\ None \notin Server
  /\ NL # Frag

ASSUME BoundAssumption ==
  /\ Scenario \subseteq SUBSET FaultKind
  /\ MaxCrash \in Nat

VARIABLES
  faults,      \* the faults of this behaviour's environment, fixed at Init
  status,      \* status[s]: "down", "boot" (log open, replay to come), "up"
  solves,      \* solves[s]: Store.solves of process s
  file,        \* the log's tokens
  stable,      \* how many of them are on disk for certain
  pc, at, pair,\* a request's place in its handler, its process, its pair
  logged,      \* logged[r]: r's own Append returned nil
  earned,      \* history: pairs some request was graded correct for
  crashes      \* history: crashes so far

reqVars == <<pc, at, pair, logged>>
vars == <<faults, status, solves, file, stable, reqVars, earned, crashes>>

-----------------------------------------------------------------------------
(* The log's text. *)

Token == Pair \union {NL, Frag}

Cut(f, n) == SubSeq(f, 1, n)

Terminated(f) == f = <<>> \/ f[Len(f)] = NL

\* Token i is a record alone on its line (a final line needs no newline).
WholeLine(f, i) ==
  /\ f[i] \in Pair
  /\ i = 1 \/ f[i-1] = NL
  /\ i = Len(f) \/ f[i+1] = NL

\* What Replay hands to visit: torn, glued and empty lines are skipped.
Readable(f) == {p \in Pair : \E i \in 1..Len(f) : f[i] = p /\ WholeLine(f, i)}

\* What a write that stopped midway can have added.
Torn(p) == {<<>>, <<Frag>>, <<p>>}

\* What the disk can hold after a power loss: every prefix, cut anywhere in
\* a record, that keeps the first n tokens.
Survivors(f, n) ==
  {Cut(f, k) : k \in n..Len(f)} \union
  {Append(Cut(f, k), Frag) : k \in {j \in n..(Len(f)-1) : f[j+1] # NL}}

Durable == Readable(Cut(file, stable))

-----------------------------------------------------------------------------
Init ==
  /\ faults \in Scenario
  /\ status = [s \in Server |-> "down"]
  /\ solves = [s \in Server |-> {}]
  /\ file = <<>>
  /\ stable = 0
  /\ pc = [r \in Req |-> "idle"]
  /\ at = [r \in Req |-> None]
  /\ pair = [r \in Req |-> None]
  /\ logged = [r \in Req |-> FALSE]
  /\ earned = {}
  /\ crashes = 0

-----------------------------------------------------------------------------
(* Boot: OpenJournal heals the tail, UseJournal replays, then main serves. *)

\* Mutant: the tail is not healed.
OpenUnhealed(s) ==
  /\ status[s] = "down"
  /\ "overlap" \in faults \/ \A t \in Server : status[t] = "down"
  /\ status' = [status EXCEPT ![s] = "boot"]
  /\ UNCHANGED <<faults, solves, file, stable, reqVars, earned, crashes>>

Open(s) ==
  /\ status[s] = "down"
  /\ "overlap" \in faults \/ \A t \in Server : status[t] = "down"
  /\ status' = [status EXCEPT ![s] = "boot"]
  /\ file' = IF Terminated(file) THEN file ELSE Append(file, NL)
  /\ UNCHANGED <<faults, solves, stable, reqVars, earned, crashes>>

\* Mutant: replay ends at the first line it cannot parse.
ReplayStopsAtTorn(s) ==
  /\ status[s] = "boot"
  /\ status' = [status EXCEPT ![s] = "up"]
  /\ LET good == {n \in 0..Len(file) : \A i \in 1..n : file[i] # Frag} IN
     \E n \in good :
       /\ \A m \in good : m <= n
       /\ solves' = [solves EXCEPT ![s] = Readable(Cut(file, n))]
  /\ UNCHANGED <<faults, file, stable, reqVars, earned, crashes>>

\* Mutant: a malformed line fails the boot.
ReplayRefuses(s) ==
  /\ status[s] = "boot"
  /\ \A i \in 1..Len(file) : file[i] # Frag
  /\ status' = [status EXCEPT ![s] = "up"]
  /\ solves' = [solves EXCEPT ![s] = Readable(file)]
  /\ UNCHANGED <<faults, file, stable, reqVars, earned, crashes>>

\* A read error keeps what was recovered and the server goes on serving.
Replay(s) ==
  /\ status[s] = "boot"
  /\ status' = [status EXCEPT ![s] = "up"]
  /\ \E n \in IF "readfail" \in faults THEN 0..Len(file) ELSE {Len(file)} :
        solves' = [solves EXCEPT ![s] = Readable(Cut(file, n))]
  /\ UNCHANGED <<faults, file, stable, reqVars, earned, crashes>>

-----------------------------------------------------------------------------
(* Handlers. *)

Goto(r, l) == pc' = [pc EXCEPT ![r] = l]

Arrive(r, s, p) ==
  /\ pc[r] = "idle"
  /\ status[s] = "up"
  /\ at' = [at EXCEPT ![r] = s]
  /\ pair' = [pair EXCEPT ![r] = p]
  /\ UNCHANGED <<faults, status, solves, file, stable, logged, crashes>>

\* Mutant: the verdict is not looked at before the solve is recorded.
AttemptUngraded(r, s, p, answer) ==
  /\ Arrive(r, s, p)
  /\ Goto(r, IF p[2] \in Known THEN "mark" ELSE "refused")
  /\ earned' = earned \union
       {q \in {p} : q[2] \in Known /\ answer \in Accepted[q[2]]}

\* POST challenges/attempt up to the end of Grade's flag loop.
Attempt(r, s, p, answer) ==
  /\ Arrive(r, s, p)
  /\ IF p[2] \in Known /\ answer \in Accepted[p[2]]
       THEN Goto(r, "mark") /\ earned' = earned \union {p}
       ELSE Goto(r, "refused") /\ UNCHANGED earned

\* POST challenges/verify up to the call of FetchPod.
Verify(r, s, p) ==
  /\ Arrive(r, s, p)
  /\ Goto(r, IF p[2] \in Assertive THEN "fetch" ELSE "refused")
  /\ UNCHANGED earned

\* FetchPod answered 200 with a body that Matches, or anything else.
Fetched(r) ==
  /\ pc[r] = "fetch"
  /\ \/ Goto(r, "mark") /\ earned' = earned \union {pair[r]}
     \/ Goto(r, "refused") /\ UNCHANGED earned
  /\ UNCHANGED <<faults, status, solves, file, stable, at, pair, logged, crashes>>

\* Mutant: every correct submission is journalled, new or not.
MarkAlwaysNew(r) ==
  /\ pc[r] = "mark"
  /\ solves' = [solves EXCEPT ![at[r]] = @ \union {pair[r]}]
  /\ Goto(r, "append")
  /\ UNCHANGED <<faults, status, file, stable, at, pair, logged, earned, crashes>>

\* Mutant: recordSolve reports the opposite.
MarkInverted(r) ==
  /\ pc[r] = "mark"
  /\ solves' = [solves EXCEPT ![at[r]] = @ \union {pair[r]}]
  /\ Goto(r, IF pair[r] \in solves[at[r]] THEN "append" ELSE "correct")
  /\ UNCHANGED <<faults, status, file, stable, at, pair, logged, earned, crashes>>

\* Mutant: the pair is tested for under the lock, and not set.
MarkTestsOnly(r) ==
  /\ pc[r] = "mark"
  /\ Goto(r, IF pair[r] \in solves[at[r]] THEN "correct" ELSE "append")
  /\ UNCHANGED <<faults, status, solves, file, stable, at, pair, logged, earned, crashes>>

\* recordSolve: test-and-set under Store.mu; only a new mark is journalled,
\* a repeated one is answered at once.
Mark(r) ==
  /\ pc[r] = "mark"
  /\ solves' = [solves EXCEPT ![at[r]] = @ \union {pair[r]}]
  /\ Goto(r, IF pair[r] \in solves[at[r]] THEN "correct" ELSE "append")
  /\ UNCHANGED <<faults, status, file, stable, at, pair, logged, earned, crashes>>

\* Mutant: Append returns without unlocking.
LogNeverReleased(s) ==
  \A q \in Req : at[q] = s => pc[q] # "sync" /\ ~logged[q]

\* Journal.mu of process s is held from Write to the end of Sync.
LogFree(s) == \A q \in Req : at[q] = s => pc[q] # "sync"

Write(r) ==
  /\ pc[r] = "append"
  /\ LogFree(at[r])
  /\ file' = file \o <<pair[r], NL>>
  /\ Goto(r, "sync")
  /\ UNCHANGED <<faults, status, solves, stable, at, pair, logged, earned, crashes>>

\* Write returns an error; the process goes on and the learner is told
\* "correct": the failure is only logged.
WriteFails(r) ==
  /\ "shortwrite" \in faults
  /\ pc[r] = "append"
  /\ LogFree(at[r])
  /\ \E torn \in Torn(pair[r]) : file' = file \o torn
  /\ Goto(r, "correct")
  /\ UNCHANGED <<faults, status, solves, stable, at, pair, logged, earned, crashes>>

Sync(r) ==
  /\ pc[r] = "sync"
  /\ stable' = Len(file)
  /\ logged' = [logged EXCEPT ![r] = TRUE]
  /\ Goto(r, "correct")
  /\ UNCHANGED <<faults, status, solves, file, at, pair, earned, crashes>>

SyncFails(r) ==
  /\ "syncfail" \in faults
  /\ pc[r] = "sync"
  /\ Goto(r, "correct")
  /\ UNCHANGED <<faults, status, solves, file, stable, at, pair, logged, earned, crashes>>

-----------------------------------------------------------------------------
(* Crashes.  A process's memory and its unanswered requests are gone. *)

Busy == {"fetch", "mark", "append", "sync"}

Fall(S) ==
  /\ crashes < MaxCrash
  /\ crashes' = crashes + 1
  /\ status' = [s \in Server |-> IF s \in S THEN "down" ELSE status[s]]
  /\ solves' = [s \in Server |-> IF s \in S THEN {} ELSE solves[s]]
  /\ pc' = [r \in Req |-> IF pc[r] \in Busy /\ at[r] \in S THEN "lost" ELSE pc[r]]
  /\ UNCHANGED <<faults, at, pair, logged, earned>>

\* The process ends without waiting for its handlers (SIGKILL, or SIGTERM:
\* main returns as soon as Shutdown closes the listener).  The page cache
\* survives; the line being written may be cut.
Kill(s) ==
  /\ "kill" \in faults
  /\ status[s] # "down"
  /\ Fall({s})
  /\ \/ file' = file
     \/ \E r \in Req : /\ "tear" \in faults
                       /\ pc[r] = "append" /\ at[r] = s /\ LogFree(s)
                       /\ \E torn \in Torn(pair[r]) : file' = file \o torn
  /\ UNCHANGED stable

\* The node goes down: what was not synced may be lost.
PowerLoss ==
  /\ "power" \in faults
  /\ \E s \in Server : status[s] # "down"
  /\ Fall(Server)
  /\ file' \in Survivors(file, stable)
  /\ stable' = Len(file')

-----------------------------------------------------------------------------
Boot(s) == Open(s) \/ Replay(s)

Submit(r) ==
  \E s \in Server, p \in Pair :
    \/ \E answer \in Answer : Attempt(r, s, p, answer)
    \/ Verify(r, s, p)

Handle(r) ==
  \/ Fetched(r) \/ Mark(r)
  \/ Write(r) \/ WriteFails(r)
  \/ Sync(r) \/ SyncFails(r)

Next ==
  \/ \E s \in Server : Boot(s) \/ Kill(s)
  \/ \E r \in Req : Submit(r) \/ Handle(r)
  \/ PowerLoss

Spec == Init /\ [][Next]_vars

\* A handler that has started is scheduled (FetchPod has a 10 s timeout, and
\* the Go mutex hands over to a starving waiter); the kubelet restarts a
\* container that ended.
Fairness ==
  /\ \A r \in Req : WF_vars(Handle(r))
  /\ \A s \in Server : WF_vars(Boot(s))

FairSpec == Spec /\ Fairness

-----------------------------------------------------------------------------
TypeOK ==
  /\ faults \in Scenario
  /\ status \in [Server -> {"down", "boot", "up"}]
  /\ solves \in [Server -> SUBSET Pair]
  /\ file \in Seq(Token)
  /\ stable \in 0..Len(file)
  /\ pc \in [Req -> Busy \union {"idle", "correct", "refused", "lost"}]
  /\ at \in [Req -> Server \union {None}]
  /\ pair \in [Req -> Pair \union {None}]
  /\ logged \in [Req -> BOOLEAN]
  /\ earned \in SUBSET Pair
  /\ crashes \in 0..MaxCrash

\* No process shows, and the log never yields, a solve nobody earned: not
\* after torn writes, glued lines, heals or replays (store_test "recovered a
\* solve that never happened").
NoPhantomSolve ==
  /\ \A s \in Server : solves[s] \subseteq earned
  /\ Readable(file) \subseteq earned

\* No write stops short while a process lives to append after it.
IntactWrites ==
  /\ "shortwrite" \notin faults
  /\ ~ ({"tear", "overlap"} \subseteq faults)

\* One process at a time, and its replay read the whole log.
FullView == faults \intersect {"overlap", "readfail"} = {}

\* A solve the learner was told was recorded survives a crash (journal.go:104):
\* once its Append returned nil, it is on disk and a replay finds it.
LoggedSurvives ==
  \A r \in Req : logged[r] => pair[r] \in Durable

\* The same, of environments where no write stops short under a live process;
\* torn tails, heals, replays and concurrent appends do not hurt it.
LoggedIsDurable == IntactWrites => LoggedSurvives

\* What a serving process holds in memory is in the log, or a handler is
\* about to put it there: memory never runs ahead for good (journal.go:23-26).
MemoryIsJournalled ==
  IntactWrites =>
    \A s \in Server : \A p \in solves[s] :
      \/ p \in Readable(file)
      \/ \E r \in Req : pc[r] = "append" /\ at[r] = s /\ pair[r] = p

\* The log holds a solve once, over any number of resubmissions, crashes and
\* replays (store.go:157-158, journal_test TestJournalAppendsOnlyNewSolves).
JournalIsASet ==
  FullView =>
    \A i, j \in 1..Len(file) :
      WholeLine(file, i) /\ WholeLine(file, j) /\ file[i] = file[j] => i = j

\* Over rollouts, which let two processes append what neither has read of the
\* other, it still holds a solve at most once for each process that serves at a
\* time (store.go:157-158): what a process replayed or marked it never appends
\* again, and what it did append its successors replay.
OncePerProcess ==
  "readfail" \notin faults =>
    \A p \in Pair :
      Cardinality({i \in 1..Len(file) : file[i] = p /\ WholeLine(file, i)})
        <= Cardinality(Server)

\* Some handler of another process has appended p.
AppendedElsewhere(s, p) ==
  \E r \in Req :
    pair[r] = p /\ at[r] \in Server \ {s} /\ pc[r] \in {"sync", "correct", "lost"}

\* A serving process shows everything the log holds, whatever crashed in between,
\* unless its replay met a read error; while a rollout has two processes on the log,
\* it lacks nothing but what the other one appended.
BoardShowsLog ==
  "readfail" \notin faults =>
    \A s \in Server : status[s] = "up" =>
      \A p \in Readable(file) \ solves[s] :
        "overlap" \in faults /\ AppendedElsewhere(s, p)

\* A solve the learner was told is correct is on disk (docs/SCORING.md:86).
AcknowledgedIsDurable ==
  \A r \in Req : pc[r] = "correct" => pair[r] \in Durable

\* Once on disk a solve is never undone: no later tear, heal or append makes
\* its line unreadable.
DurableNeverLost == [][IntactWrites => Durable \subseteq Durable']_vars

\* Every request is answered unless its process dies first.
Answered == \A r \in Req : (pc[r] \in Busy) ~> (pc[r] \notin Busy)

\* A solve on disk comes back on a scoreboard after every crash.
DurableReturns ==
  \A p \in Pair : (p \in Durable) ~> (\E s \in Server : p \in solves[s])

-----------------------------------------------------------------------------
(* The log as its callers see it, where one process at a time appends whole  *)
(* lines and replays all of them.                                            *)
Ledger == INSTANCE SolveLedger WITH
  Solve <- Pair,
  serving <- (\E s \in Server : status[s] = "up"),
  board <- UNION {solves[s] : s \in Server},
  ledger <- Readable(file),
  secured <- Durable

LedgerSpec == Ledger!Spec
=============================================================================
