--------------------------- MODULE ExerciseVerify ---------------------------
(***************************************************************************)
(* The exercise proof client (internal/content/exercise-verify.js) on the  *)
(* result page a learner's pod serves, the scoring API it posts to         *)
(* (internal/scoring, attempt only) and the browser's cookies (Identity).  *)
(*                                                                         *)
(* A result page loads the script, the script waits for the page, captures *)
(* it with html2canvas and posts the picture; the answer is shown on a     *)
(* status chip.  Every wait is a step of its own: scripts that load late   *)
(* or not at all, a second click while the first capture is under way, a   *)
(* page that changes or is left, answers that are lost.                    *)
(***************************************************************************)
EXTENDS Identity

CONSTANTS
  Page,      \* tabs opened by "Test Exercise", one challenge each
  Job        \* bound: submissions that may be under way at once

ASSUME PageAssumption ==
  /\ Page \subseteq Sender /\ Job \subseteq Sender
  /\ Tab \intersect (Page \union Job) = {} /\ Page \intersect Job = {}
VARIABLES
  setup,       \* setup[p]: the challenge, and whether p ships #sendResult; fixed
  faulty,      \* html2canvas may load without defining itself; fixed
  doc,         \* the document
  looks,       \* what the page shows is what the exercise expects
  script,      \* exercise-verify.js
  trigger,     \* what start() waits for, then what starts submit()
  lib,         \* window.html2canvas is there
  chip,        \* the status chip
  job,         \* submissions under way
  account      \* history: who was logged in when the answered proof was posted

fixed == <<setup, faulty>>
document == <<doc, looks, script, trigger>>
proofs == <<fixed, document, lib, chip, job, account>>
vars == <<identity, solves, proofs>>

\* hash_code: none for a plain preview, or one the server may not know.  Both
\* lessonsDomain and ctfdDomain are the platform's own origin (layout.go:441-443),
\* with or without the slashes the script strips.
Setup == [hash : {"none", "known", "unknown"}, button : BOOLEAN]
Doc == {"closed", "loading", "loaded"}
Trigger == {"none", "load", "button", "timer", "done"}
Verdict == {"nolib", "accepted", "nomatch", "rejected", "failed"}
Chip == {"none", "ready", "capturing", "submitting"} \union Verdict
Answer == {"correct", "incorrect", "unknown"}
Submission == [page : Page, at : {"library", "capture", "posted", "graded"},
               shot : BOOLEAN, answer : Answer, live : BOOLEAN]
NoJob == [at |-> "idle"]

ASSUME SetupAssumption ==
  \A x \in Scenario : x.setup \in [Page -> Setup] /\ x.faulty \in BOOLEAN

Init ==
  /\ \E x \in Scenario : IdentityInit(x) /\ setup = x.setup /\ faulty = x.faulty
  /\ doc = [p \in Page |-> "closed"]
  /\ looks = [p \in Page |-> FALSE]
  /\ script = [p \in Page |-> "none"] /\ trigger = [p \in Page |-> "none"]
  /\ lib = [p \in Page |-> FALSE] /\ chip = [p \in Page |-> "none"]
  /\ job = [j \in Job |-> NoJob]
  /\ account = [p \in Page |-> None]

-----------------------------------------------------------------------------
(* The page.                                                                 *)

Busy(j) == job[j] # NoJob
Of(p) == {j \in Job : Busy(j) /\ job[j].page = p /\ job[j].live}

\* The learner follows "Test Exercise", or reloads the page.
Load(p) ==
  /\ p \in cast /\ doc[p] = "closed"
  /\ doc' = [doc EXCEPT ![p] = "loading"]
  /\ \E right \in BOOLEAN : looks' = [looks EXCEPT ![p] = right]
  /\ UNCHANGED <<identity, fixed, script, trigger, lib, chip, job, solves, account>>

\* The page is left with everything its script had under way; a proof that is
\* already on the wire may be graded all the same.
Leave(p) ==
  /\ doc[p] # "closed"
  /\ doc' = [doc EXCEPT ![p] = "closed"]
  /\ script' = [script EXCEPT ![p] = "none"]
  /\ trigger' = [trigger EXCEPT ![p] = "none"]
  /\ lib' = [lib EXCEPT ![p] = FALSE]
  /\ chip' = [chip EXCEPT ![p] = "none"]
  /\ looks' = [looks EXCEPT ![p] = FALSE]
  /\ account' = [account EXCEPT ![p] = None]
  /\ job' = [j \in Job |->
       IF j \notin Of(p) THEN job[j]
       ELSE IF job[j].at \in {"posted", "graded"} THEN [job[j] EXCEPT !.live = FALSE]
       ELSE NoJob]
  /\ wire' = [s \in Sender |->
       IF s = p \/ (s \in Of(p) /\ job[s].at = "library") THEN NoRequest ELSE wire[s]]
  /\ UNCHANGED <<world, jar, raced, logins, fixed, solves>>

\* The page's content becomes right, or wrong.
Change(p) ==
  /\ doc[p] # "closed"
  /\ looks' = [looks EXCEPT ![p] = ~@]
  /\ UNCHANGED <<identity, fixed, doc, script, trigger, lib, chip, job, solves, account>>

\* The loader in the page puts the script element in, in or after the parsing.
Loader(p) ==
  /\ doc[p] # "closed" /\ script[p] = "none"
  /\ Send(p, "script")
  /\ script' = [script EXCEPT ![p] = "asked"]
  /\ UNCHANGED <<logins, fixed, doc, looks, trigger, lib, chip, job, solves, account>>

ScriptFails(p) ==
  /\ script[p] = "asked"
  /\ Over(p)
  /\ script' = [script EXCEPT ![p] = "failed"]
  /\ UNCHANGED <<jar, logins, fixed, doc, looks, trigger, lib, chip, job, solves, account>>

\* start(): the page's own button, or a timer.
Start(p) ==
  /\ trigger' = [trigger EXCEPT ![p] = IF setup[p].button THEN "button" ELSE "timer"]
  /\ chip' = [chip EXCEPT ![p] = IF setup[p].button THEN "ready" ELSE @]

\* Mutant: the script always waits for the load event.
RunWaits(p) ==
  /\ script[p] = "asked"
  /\ jar' = SetName(p)
  /\ Over(p)
  /\ script' = [script EXCEPT ![p] = "ran"]
  /\ trigger' = [trigger EXCEPT ![p] = IF setup[p].hash = "none" THEN @ ELSE "load"]
  /\ UNCHANGED <<chip, logins, fixed, doc, looks, lib, job, solves, account>>

\* The script runs: without a hash it does nothing, in a page that has loaded
\* it starts, in one that has not it waits for the load event.
Run(p) ==
  /\ script[p] = "asked"
  /\ jar' = SetName(p)
  /\ Over(p)
  /\ script' = [script EXCEPT ![p] = "ran"]
  /\ IF setup[p].hash = "none" THEN UNCHANGED <<trigger, chip>>
     ELSE IF doc[p] = "loaded" THEN Start(p)
     ELSE /\ trigger' = [trigger EXCEPT ![p] = "load"]
          /\ UNCHANGED chip
  /\ UNCHANGED <<logins, fixed, doc, looks, lib, job, solves, account>>

\* The load event, which waits for a script element put in before it.
Loaded(p) ==
  /\ doc[p] = "loading" /\ script[p] # "asked"
  /\ doc' = [doc EXCEPT ![p] = "loaded"]
  /\ IF trigger[p] = "load" THEN Start(p) ELSE UNCHANGED <<trigger, chip>>
  /\ UNCHANGED <<identity, fixed, looks, script, lib, job, solves, account>>

-----------------------------------------------------------------------------
(* Submissions.                                                              *)

Show(p, text) == chip' = [chip EXCEPT ![p] = text]

\* submit(): asks for the library once more while it is not there.
Submit(p) ==
  \E j \in Job \intersect cast :
    /\ ~Busy(j)
    /\ Show(p, "capturing")
    /\ job' = [job EXCEPT ![j] =
         [page |-> p, at |-> IF lib[p] THEN "capture" ELSE "library",
          shot |-> FALSE, answer |-> "unknown", live |-> TRUE]]
    /\ IF lib[p]
       THEN UNCHANGED <<world, jar, wire, raced>>
       ELSE Send(j, "library")
    /\ UNCHANGED <<logins, fixed, doc, looks, script, lib, solves, account>>

Timeout(p) ==
  /\ trigger[p] = "timer"
  /\ trigger' = [trigger EXCEPT ![p] = "done"]
  /\ Submit(p)

Click(p) ==
  /\ trigger[p] = "button"
  /\ UNCHANGED trigger
  /\ Submit(p)

At(j, where) == Busy(j) /\ job[j].live /\ job[j].at = where

\* html2canvas is there: the capture begins.
LibraryLoads(j) ==
  /\ At(j, "library")
  /\ jar' = SetName(j)
  /\ Over(j)
  /\ lib' = [lib EXCEPT ![job[j].page] = TRUE]
  /\ job' = [job EXCEPT ![j].at = "capture"]
  /\ UNCHANGED <<logins, fixed, document, chip, solves, account>>

\* It loads and defines nothing: the callback throws, and no handler of the
\* chain that was to follow sees it.
LibraryIsNone(j) ==
  /\ At(j, "library") /\ faulty /\ ~lib[job[j].page]
  /\ jar' = SetName(j)
  /\ Over(j)
  /\ job' = [job EXCEPT ![j] = NoJob]
  /\ UNCHANGED <<logins, fixed, document, lib, chip, solves, account>>

\* Mutant: nobody listens for the library's error.
LibraryFailsUnseen(j) ==
  /\ At(j, "library")
  /\ Over(j)
  /\ job' = [job EXCEPT ![j] = NoJob]
  /\ UNCHANGED <<jar, logins, fixed, document, lib, chip, solves, account>>

LibraryFails(j) ==
  /\ At(j, "library")
  /\ Over(j)
  /\ Show(job[j].page, "nolib")
  /\ job' = [job EXCEPT ![j] = NoJob]
  /\ UNCHANGED <<jar, logins, fixed, document, lib, solves, account>>

\* The picture is of the page as it is now, and is posted.
Captured(j) ==
  /\ At(j, "capture")
  /\ Send(j, "attempt")
  /\ Show(job[j].page, "submitting")
  /\ job' = [job EXCEPT ![j].at = "posted", ![j].shot = looks[job[j].page]]
  /\ UNCHANGED <<logins, fixed, document, lib, solves, account>>

CaptureFails(j) ==
  /\ At(j, "capture")
  /\ Show(job[j].page, "failed")
  /\ job' = [job EXCEPT ![j] = NoJob]
  /\ UNCHANGED <<identity, fixed, document, lib, solves, account>>

\* Mutant: the learner's anonymous name is credited, logged in or not.
GradeAsVisitor(j) ==
  /\ Busy(j) /\ job[j].at = "posted"
  /\ LET p == job[j].page
         known == setup[p].hash = "known"
     IN /\ job' = [job EXCEPT ![j].at = "graded", ![j].answer =
             IF ~known THEN "unknown" ELSE IF job[j].shot THEN "correct" ELSE "incorrect"]
        /\ solves' = IF known /\ job[j].shot
             THEN solves \union {<<p, wire[j].name>>} ELSE solves
  /\ UNCHANGED <<identity, fixed, document, lib, chip, account>>

\* The attempt handler: Grade and the solve it records, for who the request is.
Grade(j) ==
  /\ Busy(j) /\ job[j].at = "posted"
  /\ LET p == job[j].page
         known == setup[p].hash = "known"
     IN /\ job' = [job EXCEPT ![j].at = "graded", ![j].answer =
             IF ~known THEN "unknown" ELSE IF job[j].shot THEN "correct" ELSE "incorrect"]
        /\ solves' = IF known /\ job[j].shot
             THEN solves \union {<<p, UserID(j)>>} ELSE solves
  /\ UNCHANGED <<identity, fixed, document, lib, chip, account>>

\* Mutant: whatever the answer's status, a success reads "accepted".
ToldBySuccess(answer) == IF answer = "unknown" THEN "rejected" ELSE "accepted"

Told(answer) ==
  CASE answer = "correct" -> "accepted"
    [] answer = "incorrect" -> "nomatch"
    [] answer = "unknown" -> "rejected"

\* The answer reaches the page; nobody is told if the page was left.
Answered(j) ==
  /\ Busy(j) /\ job[j].at = "graded"
  /\ jar' = SetName(j)
  /\ Over(j)
  /\ job' = [job EXCEPT ![j] = NoJob]
  /\ IF job[j].live
     THEN /\ Show(job[j].page, Told(job[j].answer))
          /\ account' = [account EXCEPT ![job[j].page] = wire[j].cookies.session]
     ELSE UNCHANGED <<chip, account>>
  /\ UNCHANGED <<logins, fixed, document, lib, solves>>

\* The proof or its answer is lost, or the answer is no JSON.
PostFails(j) ==
  /\ Busy(j) /\ job[j].at \in {"posted", "graded"}
  /\ Over(j)
  /\ job' = [job EXCEPT ![j] = NoJob]
  /\ IF job[j].live THEN Show(job[j].page, "failed") ELSE UNCHANGED chip
  /\ UNCHANGED <<jar, logins, fixed, document, lib, solves, account>>

PageStep(p) ==
  \/ Load(p) \/ Leave(p) \/ Change(p)
  \/ Loader(p) \/ ScriptFails(p) \/ Run(p) \/ Loaded(p)
  \/ Timeout(p) \/ Click(p)

JobStep(j) ==
  \/ LibraryLoads(j) \/ LibraryIsNone(j) \/ LibraryFails(j)
  \/ Captured(j) \/ CaptureFails(j)
  \/ Grade(j) \/ Answered(j) \/ PostFails(j)

Next ==
  \/ IdentityNext /\ UNCHANGED proofs
  \/ \E p \in Page : PageStep(p)
  \/ \E j \in Job : JobStep(j)

Spec == Init /\ [][Next]_vars

\* The browser loads what it began to load and runs its timers; a submission
\* moves on or fails (html2canvas, fetch and the servers all give up in the end).
Fairness ==
  /\ \A p \in Page : /\ WF_vars(Run(p) \/ ScriptFails(p))
                     /\ WF_vars(Loaded(p))
                     /\ WF_vars(Timeout(p))
  /\ \A j \in Job : WF_vars(JobStep(j))

FairSpec == Spec /\ Fairness

-----------------------------------------------------------------------------
(* Properties.                                                               *)

\* What a page or a submission has on the wire is what its stage waits for.
Wired ==
  /\ \A p \in Page :
       IF script[p] = "asked" THEN wire[p].for = "script" ELSE ~OnWire(p)
  /\ \A j \in Job :
       CASE job[j].at = "library" -> wire[j].for = "library"
         [] job[j].at \in {"posted", "graded"} -> wire[j].for = "attempt"
         [] OTHER -> ~OnWire(j)

OwnTypes ==
  /\ setup \in [Page -> Setup] /\ faulty \in BOOLEAN
  /\ doc \in [Page -> Doc]
  /\ looks \in [Page -> BOOLEAN]
  /\ script \in [Page -> {"none", "asked", "ran", "failed"}]
  /\ trigger \in [Page -> Trigger]
  /\ lib \in [Page -> BOOLEAN]
  /\ chip \in [Page -> Chip]
  /\ job \in [Job -> Submission \union {NoJob}]
  /\ solves \subseteq Page \X (Name \union Account)
  /\ account \in [Page -> Account \union {None}]

\* Every variable keeps its type, and nothing that was left or has ended still
\* waits for an answer that would be taken for another's.
TypeOK == IdentityTypeOK /\ OwnTypes /\ Wired

\* "proof accepted - recorded" (exercise-verify.js:69) is true, and where the
\* page is same-site and its learner was logged in when the proof was posted
\* the solve is that account's ("attribute the solve when logged in", line 61):
\* whatever the learner clicks, changes, leaves or logs out of meanwhile.
AcceptedIsCredited ==
  \A p \in Page :
    chip[p] = "accepted" =>
      /\ \E who \in Name \union Account : <<p, who>> \in solves
      /\ account[p] # None => <<p, account[p]>> \in solves

\* The solves of one browser do not scatter over several anonymous names
\* (anon.go:15-19): unless its very first requests ran in parallel, every solve
\* is a name's it still has or an account's.
ProgressFollowsBrowser ==
  (sameSite /\ ~raced) => \A s \in solves : s[2] \in Account \union {jar.name}

\* The chip speaks of work under way only while there is some: however two
\* submissions of a page interleave and fail, the last one to end has its say.
NeverStuck ==
  \A p \in Page :
    ~faulty /\ chip[p] \in {"capturing", "submitting"} => Of(p) # {}

\* Opening the page "is all the learner does" (line 78): once the script has
\* run, also when it came after the load event, a verdict is shown.
EndsInVerdict ==
  \A p \in Page :
    /\ script[p] = "ran" /\ ~faulty
    /\ setup[p].hash # "none" /\ ~setup[p].button
    ~> chip[p] \in Verdict \/ doc[p] = "closed" \/ NewName = {}
=============================================================================
