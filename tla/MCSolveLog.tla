----------------------------- MODULE MCSolveLog -----------------------------
(* Small instances of SolveLog for TLC. *)
EXTENDS SolveLog, TLC

CONSTANTS c1, c2, right, wrong

\* c2 is a hash no build registered; "right" is the only accepted submission.
MCChallenge == {c1, c2}
MCKnown == {c1}
MCAnswer == {right, wrong}
MCAccepted == [c \in MCKnown |-> {right}]

CrashScenario == {{"kill", "tear", "power"}}

\* Crashes alone, each with failing system calls or an overlap, and all
\* with and without failing reads.
FaultScenario ==
  CrashScenario \union
  {{"kill", "tear", "power", "shortwrite", "syncfail"},
   {"kill", "power", "readfail"},
   {"kill", "power", "overlap"},
   FaultKind \ {"readfail"},
   FaultKind}

NoFault == {{}}
ShortWriteScenario == {{"shortwrite"}}

Symmetry == Permutations(User) \union Permutations(Req) \union Permutations(Server)
=============================================================================
