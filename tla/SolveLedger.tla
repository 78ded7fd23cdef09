----------------------------- MODULE SolveLedger -----------------------------
(***************************************************************************)
(* What the solve log promises to a scoreboard: memory that restarts from  *)
(* the ledger, a ledger that only takes solves from memory, and a secured  *)
(* part of it that no crash takes back.                                    *)
(***************************************************************************)
CONSTANT Solve

VARIABLES
  serving,   \* a process answers requests
  board,     \* the solves it shows
  ledger,    \* the solves a replay would find
  secured    \* those that survive every crash

vars == <<serving, board, ledger, secured>>

TypeOK ==
  /\ serving \in BOOLEAN
  /\ board \in SUBSET Solve
  /\ ledger \in SUBSET Solve
  /\ secured \in SUBSET ledger

Init ==
  /\ serving = FALSE
  /\ board = {}
  /\ ledger = {}
  /\ secured = {}

Record(p) ==
  /\ serving
  /\ board' = board \union {p}
  /\ UNCHANGED <<serving, ledger, secured>>

Enter(p) ==
  /\ p \in board
  /\ ledger' = ledger \union {p}
  /\ UNCHANGED <<serving, board, secured>>

Secure ==
  /\ secured' = ledger
  /\ UNCHANGED <<serving, board, ledger>>

\* The process ends; entries not yet secured may be lost, and an entry on
\* its way from the board may still arrive.
Crash ==
  /\ serving' = FALSE
  /\ board' = {}
  /\ ledger' \in SUBSET (ledger \union board)
  /\ secured \subseteq secured'
  /\ secured' \subseteq ledger'

Restart ==
  /\ ~serving
  /\ serving' = TRUE
  /\ board' = ledger
  /\ UNCHANGED <<ledger, secured>>

Next ==
  \/ \E p \in Solve : Record(p) \/ Enter(p)
  \/ Secure
  \/ Crash
  \/ Restart

Spec == Init /\ [][Next]_vars
=============================================================================
