-------------------------- MODULE SolveLedgerProofs --------------------------
(***************************************************************************)
(* The solve log implements the ledger its callers rely on, for processes  *)
(* that die at any moment, tear their last write or lose power, and        *)
(* appends whose fsync fails.  The mapping is SolveLog!Ledger; each step   *)
(* of the log is one step of the ledger or none.                           *)
(***************************************************************************)
EXTENDS SolveLogProofs

\* One process at a time, whole writes while it lives, whole replays.
Orderly == faults \subseteq {"kill", "tear", "power", "syncfail"}

serving == \E s \in Server : status[s] = "up"
board == UNION {solves[s] : s \in Server}
ledger == Readable(file)

LEMMA OrderlyScenario ==
  ASSUME Orderly
  PROVE  /\ IntactWrites /\ FullView
         /\ "overlap" \notin faults /\ "shortwrite" \notin faults /\ "readfail" \notin faults
BY DEF Orderly, IntactWrites, FullView

\* What is on disk is part of what a replay would find.
LEMMA DurableInLedger == IInv /\ Orderly => Durable \subseteq ledger
<1> SUFFICES ASSUME IInv, Orderly PROVE Durable \subseteq ledger
  OBVIOUS
<1>1. file \in Seq(Token) /\ stable \in 0..Len(file) /\ Len(file) \in Nat
  BY DEF IInv, TypeOK
<1>2. Len(file) = stable \/ stable = 0 \/ file[stable] \notin Pair \/ file[stable+1] = NL
  BY <1>1, OrderlyScenario DEF IInv, FileShape
<1>3. Extends(Cut(file, stable), file)
  BY <1>1, CutExtends
<1> QED BY <1>1, <1>2, <1>3, CutKept DEF Durable, ledger

\* Where nothing was synced and nothing lost, the disk holds what it held.
LEMMA DurableSame ==
  ASSUME IInv, [Next]_vars, ~PowerLoss, UNCHANGED stable
  PROVE  Durable' = Durable
BY Growth, CutSame DEF IInv, TypeOK, Durable

LEMMA OneBoard ==
  ASSUME IInv, Orderly, NEW s \in Server, status[s] # "down"
  PROVE  /\ board = solves[s]
         /\ serving <=> status[s] = "up"
<1>1. \A t \in Server : t # s => status[t] = "down" /\ solves[t] = {}
  BY OrderlyScenario DEF IInv, OneProcess
<1> QED BY <1>1 DEF board, serving

\* A step with no new record: heals add no solve and hide none.
LEMMA LedgerSame ==
  ASSUME IInv, Orderly, [Next]_vars, ~PowerLoss,
         \A i \in (Len(file)+1)..Len(file') : file'[i] \notin Pair
  PROVE  ledger' = ledger
<1>1. Extends(file, file')
  BY Growth DEF IInv
<1>2. Readable(file') \subseteq Readable(file) \union {}
  BY <1>1, ReadableGrowsBy
<1>3. Readable(file) \subseteq Readable(file')
  BY NothingHidden, OrderlyScenario DEF IInv
<1> QED BY <1>2, <1>3 DEF ledger

LEMMA OpenIsSilent ==
  ASSUME IInv, Orderly, [Next]_vars, NEW s \in Server, Open(s)
  PROVE  UNCHANGED <<serving, board, ledger, Durable>>
<1>1. \A t \in Server : status[t] = "down"
  BY OrderlyScenario DEF Open
<1>2. UNCHANGED <<solves, stable, crashes>> /\ crashes \in Nat
  BY BoundAssumption DEF Open, IInv, TypeOK
<1>3. ~PowerLoss
  BY <1>2 DEF PowerLoss, Fall
<1>4. \A t \in Server : status'[t] # "up"
  BY <1>1 DEF Open, IInv, TypeOK
<1>5. \A i \in (Len(file)+1)..Len(file') : file'[i] \notin Pair
  <2>1. file \in Seq(Token) /\ Len(file) \in Nat
    BY DEF IInv, TypeOK
  <2>2. CASE file' = file
    BY <2>1, <2>2
  <2>3. CASE file' = Append(file, NL)
    BY <2>1, <2>3, TokenAssumption
  <2> QED BY <2>2, <2>3 DEF Open
<1> QED BY <1>1, <1>2, <1>3, <1>4, <1>5, LedgerSame, DurableSame DEF serving, board

LEMMA ReplayRestarts ==
  ASSUME IInv, Orderly, [Next]_vars, NEW s \in Server, Replay(s)
  PROVE  ~serving /\ serving' /\ board' = ledger /\ UNCHANGED <<ledger, Durable>>
<1>1. /\ UNCHANGED <<file, stable>> /\ status[s] = "boot"
      /\ status' = [status EXCEPT ![s] = "up"]
      /\ solves' = [solves EXCEPT ![s] = Readable(Cut(file, Len(file)))]
  BY OrderlyScenario DEF Replay
<1>2. Cut(file, Len(file)) = file
  BY DEF Cut, IInv, TypeOK
<1>3. \A t \in Server : t # s => status[t] = "down" /\ solves[t] = {}
  BY <1>1, OrderlyScenario DEF IInv, OneProcess
<1>4. solves'[s] = Readable(file) /\ \A t \in Server : t # s => solves'[t] = {}
  BY <1>1, <1>2, <1>3 DEF IInv, TypeOK
<1>5. board' = ledger
  BY <1>4 DEF board, ledger
<1> QED BY <1>1, <1>3, <1>5 DEF serving, ledger, Durable, IInv, TypeOK

LEMMA MarkRecords ==
  ASSUME IInv, Orderly, NEW r \in Req, Mark(r)
  PROVE  /\ pair[r] \in Pair /\ serving
         /\ board' = board \union {pair[r]}
         /\ UNCHANGED <<serving, ledger, Durable>>
<1>1. at[r] \in Server /\ status[at[r]] = "up" /\ pair[r] \in Pair
  BY DEF Mark, IInv, AtWork, Busy
<1>2. UNCHANGED <<status, file, stable>> /\ solves' = [solves EXCEPT ![at[r]] = @ \union {pair[r]}]
  BY DEF Mark
<1>3. solves'[at[r]] = solves[at[r]] \union {pair[r]}
      /\ \A t \in Server : t # at[r] => solves'[t] = solves[t]
  BY <1>1, <1>2 DEF IInv, TypeOK
<1>4. board' = board \union {pair[r]}
  BY <1>1, <1>3 DEF board
<1> QED BY <1>1, <1>2, <1>4 DEF serving, ledger, Durable

LEMMA WriteEnters ==
  ASSUME IInv, Orderly, [Next]_vars, NEW r \in Req, Write(r)
  PROVE  /\ pair[r] \in Pair /\ pair[r] \in board
         /\ ledger' = ledger \union {pair[r]}
         /\ UNCHANGED <<serving, board, Durable>>
<1>1. at[r] \in Server /\ status[at[r]] = "up" /\ pair[r] \in Pair
  BY DEF Write, IInv, AtWork, Busy
<1>2. /\ UNCHANGED <<status, solves, stable, crashes>> /\ crashes \in Nat
      /\ file' = file \o <<pair[r], NL>>
  BY BoundAssumption DEF Write, IInv, TypeOK
<1>3. ~PowerLoss
  BY <1>2 DEF PowerLoss, Fall
<1>4. pair[r] \in board
  BY <1>1 DEF IInv, Appending, Write, board
<1>5. Terminated(file) /\ file \in Seq(Token) /\ Len(file) \in Nat
  BY <1>1, OrderlyScenario DEF IInv, FileShape, TypeOK
<1>6. pair[r] \in Readable(file')
  BY <1>1, <1>2, <1>5, RecordIsReadable
<1>7. Readable(file) \subseteq Readable(file')
  BY <1>3, NothingHidden, OrderlyScenario DEF IInv
<1>8. Readable(file') \subseteq Readable(file) \union {pair[r]}
  <2>1. <<pair[r], NL>> \in Seq(Token)
    BY <1>1 DEF Token
  <2>2. Extends(file, file') /\ Len(file') = Len(file) + 2
    BY <1>2, <1>5, <2>1, ConcatExtends
  <2>3. file'[Len(file) + 1] = pair[r] /\ file'[Len(file) + 2] = NL
    BY <1>2, <1>5, <2>1
  <2>4. \A i \in (Len(file)+1)..Len(file') : file'[i] \in Pair => file'[i] \in {pair[r]}
    BY <1>5, <2>2, <2>3, TokenAssumption
  <2> QED BY <2>2, <2>4, ReadableGrowsBy
<1>9. Durable' = Durable
  BY <1>2, <1>3, DurableSame
<1> QED BY <1>1, <1>2, <1>4, <1>6, <1>7, <1>8, <1>9 DEF serving, board, ledger

LEMMA SyncSecures ==
  ASSUME IInv, NEW r \in Req, Sync(r)
  PROVE  Durable' = ledger /\ UNCHANGED <<serving, board, ledger>>
<1>1. Cut(file, Len(file)) = file
  BY DEF Cut, IInv, TypeOK
<1> QED BY <1>1 DEF Sync, Durable, ledger, serving, board

LEMMA HandlerIsSilent ==
  ASSUME NEW r \in Req, Submit(r) \/ Fetched(r) \/ SyncFails(r)
  PROVE  UNCHANGED <<serving, board, ledger, Durable>>
BY DEF Submit, Attempt, Verify, Arrive, Fetched, SyncFails, serving, board, ledger, Durable

\* A process that ends takes its memory along, and may leave a last record.
LEMMA KillCrashes ==
  ASSUME IInv, Orderly, [Next]_vars, NEW s \in Server, Kill(s)
  PROVE  ~serving' /\ board' = {} /\ ledger' \subseteq ledger \union board
<1>1. \A t \in Server : t # s => status[t] = "down" /\ solves[t] = {}
  BY OrderlyScenario DEF Kill, IInv, OneProcess
<1>2. \A t \in Server : status'[t] = "down" /\ solves'[t] = {}
  BY <1>1 DEF Kill, Fall
<1>3. Readable(file') \subseteq Readable(file) \union board
  <2>1. file \in Seq(Token) /\ Len(file) \in Nat
    BY DEF IInv, TypeOK
  <2>2. CASE file' = file
    BY <2>2
  <2>3. CASE file' # file
    <3>1. PICK r \in Req : pc[r] = "append" /\ \E t \in Torn(pair[r]) : file' = file \o t
      BY <2>3 DEF Kill
    <3>2. PICK t \in Torn(pair[r]) : file' = file \o t
      BY <3>1
    <3>3. pair[r] \in board /\ pair[r] \in Pair
      BY <3>1 DEF IInv, Appending, AtWork, Busy, board
    <3>4. t \in Seq(Token) /\ \A i \in 1..Len(t) : t[i] \in {pair[r], Frag}
      BY <3>3, TornIsText
    <3>5. Extends(file, file') /\ Len(file') = Len(file) + Len(t)
      BY <2>1, <3>2, <3>4, ConcatExtends
    <3>6. \A i \in (Len(file)+1)..Len(file') : file'[i] \in {pair[r], Frag}
      BY <2>1, <3>2, <3>4, <3>5, ConcatExtends
    <3> QED BY <3>3, <3>5, <3>6, ReadableGrowsBy, TokenAssumption
  <2> QED BY <2>2, <2>3
<1> QED BY <1>2, <1>3 DEF serving, board, ledger

\* A loss of power yields nothing that was not in the log.
LEMMA PowerLossCrashes ==
  ASSUME IInv, Orderly, PowerLoss
  PROVE  ~serving' /\ board' = {} /\ ledger' \subseteq ledger
<1>1. \A t \in Server : status'[t] = "down" /\ solves'[t] = {}
  BY DEF PowerLoss, Fall
<1>2. Readable(file') \subseteq Readable(file)
  <2>0. file \in Seq(Token) /\ Len(file) \in Nat /\ stable \in 0..Len(file)
    BY DEF IInv, TypeOK
  <2>1. PICK k \in stable..Len(file) :
          /\ Extends(Cut(file, k), file')
          /\ file' = Cut(file, k) \/ file' = Append(Cut(file, k), Frag)
    BY <2>0, SurvivorShape DEF PowerLoss
  <2>2. k \in 0..Len(file)
    BY <2>0, <2>1
  <2>3. Cut(file, k) \in Seq(Token) /\ Len(Cut(file, k)) = k /\ Extends(Cut(file, k), file)
    BY <2>0, <2>2, CutExtends DEF Extends
  <2>4. \A i \in (k+1)..Len(file') : file'[i] \notin Pair
    BY <2>1, <2>2, <2>3, TokenAssumption
  <2>5. Readable(file') \subseteq Readable(Cut(file, k)) \union {}
    BY <2>1, <2>3, <2>4, ReadableGrowsBy
  <2>6. Len(file) = k \/ k = 0 \/ file[k] \notin Pair \/ file[k+1] = NL
    BY <2>0, <2>2, OrderlyScenario DEF IInv, FileShape
  <2>7. Readable(Cut(file, k)) \subseteq Readable(file)
    BY <2>0, <2>2, <2>3, <2>6, CutKept
  <2> QED BY <2>5, <2>7
<1> QED BY <1>1, <1>2 DEF serving, board, ledger

-----------------------------------------------------------------------------
LEMMA InitRefines == Init => Ledger!Init
<1> SUFFICES ASSUME Init PROVE Ledger!Init
  OBVIOUS
<1>1. file = <<>> /\ stable = 0 /\ Len(file) = 0
  BY DEF Init
<1>2. Readable(file) = {} /\ Durable = {}
  <2>1. Cut(file, stable) \in Seq(Token) /\ Len(Cut(file, stable)) = 0
    <3>1. file \in Seq(Token) /\ stable \in 0..Len(file)
      BY <1>1
    <3> QED BY <1>1, <3>1, CutExtends DEF Extends
  <2> QED BY <1>1, <2>1 DEF Durable, Readable
<1> QED BY <1>2 DEF Init, Ledger!Init

LEMMA StepRefines ==
  ASSUME IInv, IInv', Orderly, Orderly', [Next]_vars
  PROVE  [Ledger!Next]_(Ledger!vars)
<1> USE DEF serving, board, ledger
<1>1. ASSUME UNCHANGED <<serving, board, ledger, Durable>> PROVE UNCHANGED Ledger!vars
  BY <1>1 DEF Ledger!vars
<1>2. ASSUME NEW s \in Server, Replay(s) PROVE Ledger!Restart
  BY <1>2, ReplayRestarts DEF Ledger!Restart
<1>3. ASSUME NEW r \in Req, Mark(r) PROVE \E p \in Pair : Ledger!Record(p)
  BY <1>3, MarkRecords DEF Ledger!Record
<1>4. ASSUME NEW r \in Req, Write(r) PROVE \E p \in Pair : Ledger!Enter(p)
  BY <1>4, WriteEnters DEF Ledger!Enter
<1>5. ASSUME NEW r \in Req, Sync(r) PROVE Ledger!Secure
  BY <1>5, SyncSecures DEF Ledger!Secure
<1>6. ASSUME (\E s \in Server : Kill(s)) \/ PowerLoss PROVE Ledger!Crash
  <2>1. Durable \subseteq Durable'
    BY DurableKept, OrderlyScenario DEF IInv
  <2>2. Durable' \subseteq ledger'
    <3>1. (IInv /\ Orderly => Durable \subseteq ledger)'
      BY DurableInLedger, PTL
    <3> QED BY <3>1
  <2>3. ~serving' /\ board' = {} /\ ledger' \subseteq ledger \union board
    BY <1>6, KillCrashes, PowerLossCrashes
  <2> QED BY <2>1, <2>2, <2>3 DEF Ledger!Crash
<1>7. ASSUME NEW r \in Req, WriteFails(r) PROVE FALSE
  BY <1>7, OrderlyScenario DEF WriteFails
<1>8. UNCHANGED vars => UNCHANGED <<serving, board, ledger, Durable>>
  BY DEF vars, Durable
<1> QED
  BY <1>1, <1>2, <1>3, <1>4, <1>5, <1>6, <1>7, <1>8, OpenIsSilent, HandlerIsSilent
     DEF Next, Boot, Handle, Ledger!Next

\* Where every scenario is one of dying processes, lost power and failing
\* fsyncs, the log implements the ledger: memory restarts from the log, the log
\* only takes solves from memory, and no crash takes back what was secured.
THEOREM LogImplementsLedger ==
  ASSUME \A F \in Scenario : F \subseteq {"kill", "tear", "power", "syncfail"}
  PROVE  Spec => LedgerSpec
<1>1. IInv => Orderly
  BY DEF IInv, TypeOK, Orderly
<1>2. IInv /\ IInv' /\ [Next]_vars => [Ledger!Next]_(Ledger!vars)
  <2>1. Orderly /\ [Next]_vars => Orderly'
    BY FaultsFixed DEF Orderly
  <2> QED BY <1>1, <2>1, StepRefines
<1> QED BY <1>2, InitRefines, Inductive, PTL DEF Spec, LedgerSpec, Ledger!Spec
=============================================================================
