# Verification of training-platform

TLA+ models of the parts of training-platform that run concurrently, fail
halfway or must survive a restart, checked with TLC on small instances and, for
the safety properties, proved with TLAPS for every value of the constants.
Everything is translated from the code; line references below are to the
repository root.

## The system and its parts

One Go process (`training serve`) serves rendered lessons, a scoring API, a
session API that boots one privileged pod per terminal, a WebSocket bridge into
those pods, an exposed-port proxy, social login and, optionally, a Docker-API
shim. The rendered lesson page holds the client half of the session protocol.

| Part | State it keeps | Operations | What makes it correct |
|---|---|---|---|
| Solve store and log (`internal/scoring/store.go`, `journal.go`) | `solves` map under `mu`; an append-only JSON-lines file under the journal's `mu` | `Grade`, `RecordSolve`, `OpenJournal`, `UseJournal`/`Replay`, `Append` | only earned solves; what was logged survives; each once; the board shows the log |
| Scoring API (`internal/scoring/http.go`) | none | attempt, verify (fetches a page from the learner's pod), read-only routes | every request answered; no answer says more than is recorded |
| Session engine (`internal/session/session.go`) | none in memory: pods and two deadline labels in the cluster | `NewEphemeralInstance`, `Extend`, `Status`, `DeletePod`, `GCExpiredPods` | hard cap, idle window, no leaked pod, nothing reaped early |
| Sessions API and collector loop (`internal/server/server.go`, `cmd/training/main.go`) | none | POST, GET, DELETE, keepalive; `RunGC` | 404 means gone, errors do not |
| Lesson page console (`internal/content/layout.go`) | nodes (pod, socket, retries, stopped), timers, sessionStorage | start, stop, reattach, keepalive, reconnect, expire | a reload never leaks pods; Stop ends everything; a late callback of an old session leaves the new one alone |
| Exercise proof client (`internal/content/exercise-verify.js`) | chip, button, timer, html2canvas on a result page | load, `start`, `submit` | a verdict for every opened page; "accepted" is true and credited to the right learner |
| Docker shim (`internal/dockershim`) | maps pending, created, podName, execs, netMembers under `mu` | create, start, stop, remove, inspect, network connect, exec | a started container is managed until removed; a removed one is gone |
| Terminal bridge (`internal/terminal`) | read buffer, resize queue of 4 | `Read`, `Write`, `Next` | input in order and whole; sizes never go backwards; close ends both loops |
| Router (`internal/router`) | none | `DecodeHost`, proxy | decodes what the page encodes |
| Identity (`internal/auth`) | signed cookies, a state cookie per browser | login, callback, logout, anonymous name | the solves of one browser follow one name; a login is refused only when its state cookie was taken |
| Lesson build (`internal/content`, `hash.go`, `load.go`) | files | `BuildDir` | distinct questions have distinct hashes |
| Chart (`deploy/helm`) | Deployment, PVC | install, rollout | one writer of the log |

How they meet: the lesson page calls the sessions API, which calls the engine, which
calls the Kubernetes API; the collector works on the same pods from another
goroutine (and, over a rollout, from another process). The lesson page and the result
pages call the scoring API, as whoever the browser's cookies say; verify fetches from the learner's pod and then calls
the store; the store calls the journal after it has let go of its own lock. The
engine keeps nothing in memory, so the cluster is the shared state; the store
keeps everything in memory, and the file is what the next process starts from.

What is hard here: a keepalive racing the collector; a boot whose handler, call
or cleanup fails halfway; torn, short or unsynced writes and what a later
process makes of them; a repeated submission that overtakes the first one's
append; two processes during a rollout; in the page, callbacks of a session
that is already over; several tabs and scripts on one set of cookies; calls
for one container that cross. `PROJECT.json` lists each under `hazards`, at its line.

## Modules

| Module | Role |
|---|---|
| `SolveLog` | store, journal and the handlers of the scoring API that change state |
| `SolveLedger` | abstract specification: what the log promises to a scoreboard |
| `SessionEngine` | engine, sessions API, collector, and the cluster they act on |
| `LessonPage` | the lesson page's half of the session protocol, as interleaved callbacks, and the pods it talks about |
| `Identity` | a browser's cookies, its requests and its login round trips |
| `ExerciseVerify` | the exercise proof client, the page it runs in and the API it posts to |
| `DockerShim` | the Docker API shim and the pods it makes |
| `TerminalStream` | one terminal: socket, adapter and the two loops of the exec |
| `TerminalLine` | abstract specification: what a terminal promises its learner |
| `MCSolveLog`, `MCSessionEngine`, `MCLessonPage`, `MCExerciseVerify`, `MCDockerShim` | instances for TLC (`TerminalStream` needs none) |
| `SolveLogProofs`, `SolveLedgerProofs` | invariants of `SolveLog`; `SolveLog` implements `SolveLedger` |
| `SessionEngineProofs`, `LessonPageProofs`, `DockerShimProofs` | their invariants and action properties |
| `TerminalStreamProofs` | invariants of `TerminalStream`; `TerminalStream` implements `TerminalLine` |
| `PodTrackingProofs` | on top of `LessonPageProofs`: the page forgets no pod |
| `ExerciseVerifyProofs` | what each step does to the cookies of `Identity`; the invariants of both |

`ExerciseVerify` composes: its `Next` is a step of the tabs of `Identity`, or of a
result page or submission, and every request of either goes through `Send` and
`Over` of `Identity`. `SolveLedger` is instantiated in `SolveLog` by a refinement mapping, `TerminalLine` in
`TerminalStream` by the variables of the same names.

Operators whose comment starts with "Mutant:" are not part of a model. Each is a
plausible bug in the definition that follows it, and `PROJECT.json` names the
property that notices it.

### SolveLog

| TLA+ | Code |
|---|---|
| `solves[s]` | `Store.solves` of process `s` |
| `file`, `stable` | the log, and how much of it has reached the disk |
| `pc`, `at`, `pair`, `logged` | where a handler stands, its process, user and challenge, whether its own `Append` returned nil |
| `earned` | history: pairs some request was graded correct for |
| `Open`, `Replay` | `OpenJournal` with `terminateLastLine`; `UseJournal` |
| `Attempt`, `Verify`, `Fetched` | attempt up to `Grade`'s verdict; verify before and after `FetchPod` |
| `Mark` | `recordSolve`, a test-and-set under `Store.mu` |
| `Write`, `WriteFails`, `Sync`, `SyncFails` | `Append`; `LogFree` is `Journal.mu` |
| `Kill`, `PowerLoss` | the process ends without waiting for handlers (`main` returns as soon as `Shutdown` has closed the listener); the node goes down |

The file is a sequence of tokens: a pair is the bytes of one whole record, `NL` a
newline, `Frag` a proper prefix of a record. This is what the properties can
tell apart: a line is readable exactly when a pair stands alone on it, whether
the final newline is there or not (`bufio.Scanner` accepts a last line without
one). `Survivors` is every prefix the disk may keep after a power loss, cut
anywhere inside a record, that contains the synced part.

The environment is chosen at the start from `Scenario`, a set of sets of faults:
`kill`, `tear` (it may end inside a write), `power`, `shortwrite`, `syncfail`,
`readfail` (a system call fails and the process goes on), `overlap` (a rollout
starts the new process first). Properties that hold only in some environments
say which: `IntactWrites` means that no write stops short while a process lives to append
after it, `FullView` that one process at a time has the log and reads all of it.
`BoardShowsLog` needs only the replay to read all: over a rollout it says that a board
lacks nothing but records handlers of another process appended.

Assumed: a write that is not torn is one atomic append (the code relies on
`O_APPEND` and one `Write` call); a failed fsync leaves the file's pages in
place; system calls fail at the log only, and a boot whose open fails is simply
not a boot (the container restarts). Persistence switched off (an empty path) is
not modelled: there is nothing to promise.

### SessionEngine

| TLA+ | Code |
|---|---|
| `exists`, `ready`, `hard`, `idle` | a pod in the cluster, Running with an IP, its labels `expires-at` and `idle-expires-at` |
| `boot[p]` | where `POST /sessions` stands: `Request` (labels computed), `Create`/`CreateFails`, `Ready`/`WaitFails`, `Cleanup` |
| `ping[k]` | a keepalive: `PingGet`, `PingPatch` are `Extend`'s two API calls, the window computed between them |
| `gc`, `seen`, `condemned` | a pass of `GCExpiredPods`: `GCList`, then the clock (`GCClock`), then one delete at a time |
| `Stop` | `DELETE`, answered 204 whatever happened |
| `Tell`, `Extended` | an answer that carries an expiry; the one `Extend` returns |
| `born`, `told`, `renewed`, `overtaken` | history: when the labels were computed, the latest expiry reported, pods patched since the collector's list, pods two keepalives were to patch at a time |
| `Tick`, `Kubelet`, `Fail`, `Crash` | clock, pod start, a failing or unanswered API call, a server restart |

`effectiveExpiry` is the code's, with 0 for "no deadline". A call may take
effect and still fail (`CreateFails`, the third case of `PingPatch`); a call whose
handler has ended takes effect at once or never. Not
modelled: a collision of two random pod names; the namespace-per-session half of
the engine, which nothing in this program calls to create sessions; other
clients of the namespace; the GET handler, which only reads. `Stop`
may come from anyone who knows the pod's name, and at any time after the boot.

### LessonPage

| TLA+ | Code (`internal/content/layout.go`) |
|---|---|
| `pod`, `ws`, `stopped`, `retries` | the fields of a node; `ws` is `None` also for a socket that is closed for good |
| `sock[k]` | a chain: a socket, its `onclose` with the answer it awaits, the timer that connects again |
| `saved` | the pods in sessionStorage |
| `up`, `timer` | Stop is shown and Start hidden; the keepalive interval is set |
| `start`, `stop[j]`, `ping[k]`, `look` | where `start()`, a click on Stop, a `keepalive()` and `reattach()` stand at their awaits |
| `Start`, `Booted`, `BootFails`, `SessionUp` | `start`, `bootNode` after its POST, `sessionUp` |
| `StopWalk` (in `Stop`, `Deleted`), `DeleteArrives` | the pieces of `stop` between DELETEs; the API server's side of one |
| `Keepalive`, `Pinged`, `Checked`, `Count`, `expireUI` | `keepalive` between its awaits; the reset |
| `Looked`, `Reattached`, `NotReattached` | `reattach`, and the `store.clear()` where it is called |
| `Opened`, `Closed`, `Lost`, `OnClose`, `Asked`, `Reconnect` | `connect` and its handlers |
| `cluster`, `Die`, `Reload` | the pods as the sessions API reports them; a new load of the page |
| `learned` | history: pods whose names the page has had |

A step of the model is what the page does between two awaits. `flags`, chosen
from `Scenario`, says what the environment is capable of: failing boots, failing
calls, dropped sockets, dying pods, pods no shell can be started in, a reload
while Start or Stop is at work, a Start while `reattach` still looks, a tab shown
again while Start is at work, a call that outlasts a boot requested after it.
Without the last, `Booted` waits for the calls that were under way when the boot
was requested (`elder`): a boot takes seconds, the others milliseconds. In a
`slow` environment old answers do meet a new session, and the properties
about pods and panels claim nothing there.

Left out: terminal sizing and output, click-to-run, quizzes, verify buttons and port
links, which change none of this state; expiry texts; a lesson whose images
change between two loads (a look that fails); two tabs (sessionStorage is a tab's own).

### Identity

| TLA+ | Code (`internal/auth`) |
|---|---|
| `jar` | the browser's anonymous name, session and state cookies |
| `wire[s]` | a request of `s`: the cookies it left with, and the name `AnonymousMiddleware` gives it |
| `Send`, `SetName`, `Over` | a request leaves; the middleware's `Set-Cookie` is applied with the answer; it is over |
| `flow[t]` | the state the provider will return to tab `t` |
| `Login`, `Redirected` | `handleLogin` and its answer |
| `Callback`, `SignedIn`, `ExchangeFails`, `Refused` | `handleCallback` and its three outcomes |
| `Logout`, `LoggedOut`, `SessionExpires`, `StateExpires` | `handleLogout`; the cookies' ages |
| `UserID` | `UserIDFunc` |
| `refused`, `spoiled`, `raced` | history: last login refused; its state cookie taken by another step; two requests without a name were on the wire |

The server keeps no state here, so a handler is one step, taken when its answer
reaches the browser: what it reads was fixed when the request left, and what it
answers meets the cookies as they have become. All cookies are SameSite=Lax, so a
script or fetch of a page on another site carries and sets none (`Keeps`). Random
names and states are drawn among those nothing refers to any more. The
signature of the session cookie is taken to be unforgeable.

### ExerciseVerify

| TLA+ | Code (`internal/content/exercise-verify.js`) |
|---|---|
| `Loader`, `ScriptFails`, `Run` | the loader snippet of a result page, and the script's own top level |
| `Loaded`, `Start` | the load event; `start()`, which shows the button or sets the timer |
| `Click`, `Timeout`, `Submit` | `submit()` up to its first wait |
| `LibraryLoads`, `LibraryIsNone`, `LibraryFails` | `loadScript` of html2canvas and its callbacks |
| `Captured`, `CaptureFails` | html2canvas's promise; then the `fetch` |
| `Grade` | the attempt handler on the server |
| `Answered`, `PostFails` | the `then`s that set the chip; the `catch` |
| `Load`, `Leave`, `Change` | the learner opens, reloads or leaves the page; its content changes |
| `chip`, `trigger`, `lib`, `job[j]` | status text; what waits to call `submit`; `window.html2canvas`; a submission under way |

Leaving a page aborts what its script had under way, but not a proof that is on the
wire: the server may grade it, and nobody is shown the answer. `looks`
says whether a picture taken now would match. What the
server stores is `solves`; that it is kept is the business of `SolveLog`.

### DockerShim

| TLA+ | Code (`internal/dockershim`) |
|---|---|
| `pending`, `created`, `netMembers` | the maps under `mu` |
| `pods[k]` | whose pod has the name `k`, and whether the shim was told it exists |
| `call[c]` | a request between its turns at `mu` and its API calls |
| `Create`, `Connect` | create and network connect, one turn each |
| `Start`, `Posted`/`PostLost`/`PostFails`, `Record` | `startContainer` |
| `Stop`, `Stopped`; `Remove`, `Deleted`, `Forget`; `DeleteFails` | stop and remove |
| `Evicted`, `Restart` | a pod deleted by others; the shim starts again with empty maps, and API calls under way land or do not (`Landed`) |

`sanitize` is any function from docker names to pod names, chosen at the start; two
names may share a pod name. The cache `podName` holds only values of `sanitizeK8sName`,
and inspect, logs and exec change neither maps nor pods.

### TerminalStream

| TLA+ | Code (`internal/terminal/wsstream.go`) |
|---|---|
| `net` | frames in the socket: typed bytes, a resize, anything else |
| `buf`, `sizes`, `closed` | `wsStream.buf`, the channel `sizes` and its close |
| `ReadLeftover`, `ReadBytes`, `ReadResize`, `ReadOther`, `ReadFails` | `Read` |
| `Write`, `WriteFails` | the exec stream's stdin loop between two reads |
| `NextSize`, `NextNil` | `Next` and the resize loop: with a size queued and the channel closed, `select` takes either |
| `Exit`, `AttachReturns` | the shell ends; `Attach` closes the socket |

Bytes and sizes are numbered in the order the browser sends them. The two loops are
client-go's remotecommand, modelled from how the code hands it the adapter.
`wsStream.Write` sends each piece of output as one frame and keeps no state.
The properties see two lines of pieces: bytes (`Keys`: stdin, chunk, buffer, frames) and
sizes (`Sizes`: the TTY's, the queue, frames). `Held` is all that is in a line, `InOrder`
that it is in order within each piece and from one to the next.

## What is checked

Run with `tlc -workers 2 -config X.cfg M`.

| Run | Instance | Shows |
|---|---|---|
| `SolveLog_faults` | 2 users, 3 requests, 2 processes, 2 crashes, six environments (crashes alone; with short writes and failing fsyncs; with read errors; with overlap; all faults but read errors; all faults) | safety of the log: `NoPhantomSolve`, `LoggedIsDurable`, `MemoryIsJournalled`, `JournalIsASet`, `OncePerProcess`, `BoardShowsLog`, `DurableNeverLost` |
| `SolveLog_ledger` | 2 users, 3 requests, 1 process, 3 crashes, kill, tear and power loss | the log implements `SolveLedger`; `Answered`; `DurableReturns` |
| `SessionEngine_lease` | 2 pods, 1 keepalive slot, TTL 2, idle window 1 or off, 1 failing call, 1 restart, clock to 4 | `LifetimeCap`, `ToldIsKept`, `CondemnedIsExpired`, `NotFoundMeansGone`, `FailedBootIsCleanedUp`, `NoLeak` |
| `LessonPage_session` | 1 or 2 terminals, 3 pods, 3 sockets, 1 retry, 1 keepalive, 1 Stop, 1 dropped socket, 1 reload, six environments | `UpIsPinged`, `ScreenIsSaved`, `Tracked`, `TypedIntoOwnPod`, `PanelsKeepRunningPods` |
| `LessonPage_settle` | 1 or 2 terminals, 2 pods, failing calls, dying pods, dropped sockets; pods without a shell | `StopEnds`, `Settles` |
| `ExerciseVerify_proof` | 1 result page, 2 submissions, 2 tabs, 1 account, 2 names, 2 login states, eight casts and settings | `AcceptedIsCredited`, `ProgressFollowsBrowser`, `NeverStuck`, `RefusedOnlyIfSpoiled`, `EndsInVerdict` |
| `DockerShim_shim` | 2 docker names with a pod name each or sharing one, 3 handlers, 1 network | `StartedIsManaged`, `NoStrayPod`, `RemovedIsGone` |
| `TerminalStream_stream` | frames up to 3 bytes for a `Read` of 2, the real queue of 4, 4 bytes, 5 sizes | the bridge implements `TerminalLine`; `TypedInOrder`, `TtyFollows`, `Delivered`, `ResizeLoopEnds` |
| `SolveLog_ack`, `SolveLog_glue`, `SessionEngine_race`, `LessonPage_leak` | smallest instances | a counterexample each, see below |

Why the bounds are enough. Solve log: three requests are the smallest number that
has one handler inside an append, one waiting for the journal and a resubmission
overtaking both; two processes are what a rollout overlaps; with two crashes a
record can be torn, healed, resubmitted and cut again, and the ledger run takes a
third; a second challenge is there to be unknown. Users, requests and processes
are interchangeable, so the safety run uses symmetry; the temporal run does not.
Session engine: with TTL 2 and idle window 1 both orders of the two deadlines
occur and the clock passes each; `LastBoot` 1 makes both boots start together;
`MaxFail` and `MaxCrash` bound failures per behaviour. One ping slot is used again
and again, for either pod, and a delayed patch of an old window is among its
interleavings. Two keepalives that cross (`overtaken`) take two slots; the proofs cover
any number of them.
Lesson page: two terminals are the fewest of which one can boot and the other not;
a third pod and a third socket leave room for a session after a Stop, with a socket of the
old one still closing; one retry (the code has five) has both a try that is
granted and one that is not; Stops and keepalives come one at a time but again and
again, and the proofs cover any number. The capabilities are combined as far as the
state space allows. In the settle run a Stop has a second terminal to go on to after a
DELETE that fails, and one terminal leaves a second session for an old socket to end in.
Exercise proofs: two submissions are what one page needs for a click during a capture,
and a tab beside them logs in and out between any two of their steps; two tabs are
what one state cookie has to serve. Each cast leaves out who the question does not
need. A name that nothing refers to is used again, so two suffice for a
browser that has one and a request that was given another.
Docker shim: a start and a remove that cross need two handlers, and the third
is there to remove again while the crossing is being undone; with a shared pod name
two handlers, one for each container, meet at one pod. One network is enough to tell a
recorded membership from none.
Terminal: a frame longer than `Read`'s buffer, one frame behind it, and one size more
than the queue can hold.
Requests or other bounded things run out in most models, and learners may do
nothing, so quiet end states exist and deadlock is not checked.

Fairness. `SolveLog!Fairness` is weak fairness of each handler's next step (the Go
scheduler runs it; `FetchPod` has a 10 s timeout; Go's mutex hands over to a
starving waiter) and of booting (the kubelet restarts the container).
`SessionEngine!FairSpec` has weak fairness of the clock and of the collector's
steps (its goroutine runs as long as the process, and the process is restarted).
`LessonPage!Fairness` has calls answered (or failed), timers fire and sockets open
or close: the browser does this. `ExerciseVerify!Fairness` has the browser run
or give up a script it asked for, fire the load event and the timer, and each submission
move on or fail (html2canvas has an image timeout, and fetches end with the connection).
`TerminalStream!Spec` is fair to the two loops: they are goroutines, and a write
to the exec's stdin returns because the shell reads it or exits. Nothing is assumed of
learners, the provider or the kubelet's success.

### Disagreements between the code and what it says

* `SolveLog_ack`: "Each record is fsync'd before the request returns"
  (docs/SCORING.md:86). `recordSolve` marks the pair before the append, so a
  repeated submission is answered "correct" with nothing on disk yet.
* `SolveLog_glue`: "a solve the learner was told was recorded must survive a
  crash" (journal.go:104). After a write that fails midway in a process that
  lives on, the next record is glued to the torn one; the heal happens only when
  the file is opened.
* `SessionEngine_race`: the collector deletes pods past "the idle window no page
  has refreshed" (session.go:281-283). It decides on listed labels: a keepalive
  answered 200 between its list and its delete does not save the pod.
* `LessonPage_leak`: the page saves pod names "so a reload reattaches to the
  running Pods instead of leaking new ones" (docs/RUNTIME.md:17-18). They are
  saved only when every terminal is up: a Start whose second boot fails leaves
  the first pod attached but unsaved, and the next Start or reload forgets it.

Exceptions met while modelling, which the properties above name or the models show:

* "The log has a single writer" (templates/pvc.yaml:5), and solves "survive `make
  dev-deploy` rollouts" (dev-values.yaml:11). The Deployment has no `strategy`, so the
  default rolling update has two processes on the log, and the new one's board
  misses what the old one logs after the replay. That it misses nothing else is what
  `BoardShowsLog` says there; `JournalIsASet` is claimed where one process at a time
  has the log (`FullView`), and over a rollout `OncePerProcess` bounds the copies.
* The console is reset for pods "that no longer exist" (layout.go:335-336). A keepalive
  that begins while Start is at work, because the tab is shown again, counts the
  terminals booted so far; if their pods are gone it resets the others too, with their
  pods running, and clears the saved names. `PanelsKeepRunningPods` excepts `peek`.
* "Extend slides a Pod's idle window forward" (session.go:399). A keepalive computes its
  window before it patches, so of two that cross the older one's patch may come last and
  move the window back, before the expiry the newer one reported. `ToldIsKept` excepts
  pods two keepalives were to patch at a time (`overtaken`).
* `isManaged` "reports whether dockerName is a container this shim created" (k8s.go:232).
  A start that makes and records its pod between a remove's delete and its forgetting
  leaves a running pod whose name is not managed. `StartedIsManaged` and `NoStrayPod`
  except such crossings (`crossed`), and `RemovedIsGone` says a later remove clears it.
* Reconnecting should "give up once the Pod is gone or after a few tries"
  (layout.go:237-238). The bridge upgrades before it execs (terminal.go:56), so where the
  exec fails each try opens first, and opening sets the count back to 0.
  `Settles` excepts `noshell`.
* A Start clicked while `reattach` still looks, whose second boot fails, leaves the session
  `reattach` saved with a panel that shows another pod. `ScreenIsSaved` excepts that pair.
* A result page on a site of its own sends no SameSite=Lax cookie, so its solve is
  credited to a name made up for that one request, where docs/SCORING.md:71-72 has it
  attributed. `AcceptedIsCredited` and `ProgressFollowsBrowser` are about the page's own
  cookies and same-site pages.
* With two submissions at work the chip shows the verdict of the one that ends last,
  which need not be the one clicked last.
* "Next returns nil once the socket is gone" (wsstream.go:84-86), but a stdin loop that ended
  on a failed write reads no more, so the channel is never closed and the resize
  loop waits for ever. `ResizeLoopEnds` excepts it.
* API calls of the shim that are under way when it restarts may still make a pod
  nobody knows; a remove of its container deletes it (`RemovedIsGone`).

## What is proved

`tlapm M.tla` for each `*Proofs` module. The assumptions are the named ASSUMEs on
the constants; sets of users, requests, pods and pings may be infinite.

* **SolveLogProofs**: `Spec => []` each invariant of the `faults` run but
  `OncePerProcess`, `TypeOK`, and `DurableNeverLost`. They are not inductive alone. `IInv` adds: a busy request is
  at a serving process and has a pair (`AtWork`); memory belongs to a serving
  process, and without `overlap` at most one process is not down (`OneProcess`);
  handlers past grading, memory and every record of the file, readable or not,
  are earned (`Earned`); where writes are intact, a record that is not the last
  token is closed by a newline, and no process has the log open while its last
  line is unterminated (`FileShape`); a request about to sync has a readable
  record, and one whose append returned has a durable one (`Logging`); a request
  about to append or sync has marked its pair, and no two requests of a process are
  about to append the same one (`Appending`); in a full view nothing that is
  readable is about to be appended, and no record follows a readable record of
  the same solve (`Fresh`). `AppendedStays` carries `BoardShowsLog` over a
  rollout: a handler that has appended keeps its process and its solve. The lemmas before
  it say what appending a newline, a record or a torn piece, and cutting the file, do to
  the readable lines.
* **SolveLedgerProofs**: `LogImplementsLedger`: if the environments are among kill,
  tear, power loss and failing fsync, `Spec => LedgerSpec`. `serving` is "some
  process is up", `board` what it shows, `ledger` the readable records, `secured`
  the readable records of the synced part. One lemma per action: `Replay` is
  `Restart`, `Mark` is `Record`, `Write` is `Enter`, `Sync` is `Secure`,
  `Kill` and `PowerLoss` are `Crash`, the others stutter.
* **SessionEngineProofs**: `TypeOK`, `LifetimeCap`, `ToldIsKept`, `CondemnedIsExpired`,
  `NotFoundMeansGone`, `FailedBootIsCleanedUp` as invariants, and three action
  properties: gone pods stay gone; a step of the collector deletes a pod only
  past its deadline or renewed since the list, so what `SessionEngine_race` shows
  is the only way to be reaped early; and (`ReapsOnlyAsTold`) only past the expiry its
  pages were told, but for that race and two keepalives that crossed. `IInv` adds: a name
  is free until `Create`, and a session the page knows has had its pod (`Lifecycle`); the
  hard label is the one the boot computed, and no page was told a later expiry
  (`Labelled`); a keepalive under way has a pod some page holds (`Pinging`); what the
  collector listed is what a pod still carries unless a keepalive has patched it since
  (`Collecting`); a pod has an idle label exactly when idle GC is on, and none is
  further ahead than a window that opens now (`Windowed`); and a keepalive that has
  read its pod brings a window no nearer than the one there, unless another one was
  under way (`Sliding`). That a later window never makes a sooner deadline, with or
  without a hard cap, is the lemma `LaterWindow`.
* **LessonPageProofs**: `TypeOK`, `UpIsPinged`, `ScreenIsSaved`, `TypedIntoOwnPod` and
  `PanelsKeepRunningPods`, for every environment, any number of terminals, pods, sockets and
  tries, and any number of keepalives and Stops under way at once. `IInv` adds what the
  page's functions still know after an await: a Stop is at a node, a keepalive has nodes
  left (`Working`); a node's socket was opened for it and its pod (`Wired`); while
  `reattach` looks nothing is up and no panel has a pod (`Looking`); a stopped node has a
  Stop at it (`Halted`); and a keepalive that takes all pods for gone is right about those
  it has asked for (`Counting`). That `Least` has a least element comes from the
  well-foundedness of the naturals.
* **PodTrackingProofs**: `Tracked`. Where it is claimed (`Calm`), every running pod the page
  has heard of is followed from place to place: Start boots into empty panels, and only once the
  Stops before it are over (`Booting`); a Stop leaves behind only panels whose pod it has
  seen deleted (`Emptying`); a session's panels are saved, and with several terminals, whose
  pods do not die there, what is saved runs (`Keeping`); and such a pod is in a panel,
  in a Stop's hands, or among the names `reattach` holds (`Remembering`). One terminal
  needs less because a failed boot or a dead pod leaves no other one behind.
* **ExerciseVerifyProofs**: `TypeOK`, `AcceptedIsCredited`,
  `ProgressFollowsBrowser`, `NeverStuck` and `RefusedOnlyIfSpoiled`, for any tabs, pages,
  submissions, accounts and names. For the cookies: an unspoiled login still has its state
  in the browser and in its callback (`Returning`); a browser without a name has only
  requests without one (`Unnamed`); unless two of these raced, all requests are of one name
  (`OneName`). For the page: whatever the script sets off comes after a name
  (`Attended`), and a "correct" on its way is about a recorded solve (`Credited`).
  Its first part states, once for each kind of step, what it does to the cookies;
  the second cites that for every step of a page or submission.
* **DockerShimProofs**: `StartedIsManaged`, `NoStrayPod` and `RemovedIsGone`, for any
  `sanitizeK8sName` and any number of handlers. `IInv` adds: a pod has the name its
  container's name is made into (`InPlace`); a remove that met no start keeps its
  container quiet, and after its delete there is no pod (`AloneIsQuiet`); the same of a
  remove left over from a crossing that has been cleared since (`LeftIsQuiet`); a known
  pod is managed or about to be recorded (`Recorded`); a removed name is quiet
  (`RemovedIsQuiet`).
* **TerminalStreamProofs**: `TypedInOrder`, `TtyFollows`, that the channel is closed once
  (`ClosedOnce`; a second close would panic), and `BridgeImplementsLine`:
  `Spec => LineSpec`, for frames, reads and a queue of any size. Four lemmas say what joining
  two pieces, or two lines, does to what they hold and to their order; with them each
  step is a move of one piece from the head of one part to the end of the next. `IInv`
  adds: when the loop reads, all it had read is written (`Clean`); the channel is
  closed by the loop that ended on a read (`Told`); no byte or size is of the future
  (`AllTyped`, `AskedFor`), and a size that was dropped is older than those still in
  the socket (`AskedFor`); each piece is a run of consecutive bytes, and stdin is the first
  of all (`Runs`), which with `TypedInOrder` makes a write continue exactly where the
  last one stopped (`RunsMeet`). `Write` is `Take`, `NextSize` is `Show`, the browser's
  actions are their namesakes, `Disconnect` is `Leave`, the others stutter.

The type invariants are proved and not listed in a run.

Only model-checked: liveness (`Answered`, `DurableReturns`, `NoLeak`, `StopEnds`, `Settles`,
`EndsInVerdict`, `Delivered`, `ResizeLoopEnds`), which is beyond TLAPS here as is ENABLED,
the counterexamples, and `OncePerProcess`, which counts records.

## Not modelled

* The router (`DecodeHost`): a codec of strings without state. Its table test names
  the cases, and a model would restate them.
* The lesson build, `hash.go`, `load.go`: sequential and offline. Its output is the
  constants `Known`, `Accepted` and `Assertive` of `SolveLog`. Slugs and hashes may collide, and the later one
  wins; no document promises anything else.
* The perceptual hash: image arithmetic. `SolveLog` and `ExerciseVerify` take its
  verdict as given.
* The read-only handlers of the scoring and sessions APIs, the lesson server, version, assets and the
  scoreboard page: no state.
* The shim's inspect, logs and exec framing, and the bridge's output: byte pumps.
* The engine's namespace-per-session half: nothing in this program creates such sessions.
* Quizzes, verify buttons, click-to-run and port links of the lesson page: each writes only
  its own element.
* The chart beyond the rollout strategy, and the browser's screenshot client: configuration and
  tools outside the running system.
