--------------------------- MODULE SolveLogProofs ---------------------------
(***************************************************************************)
(* The safety of the solve log, for every catalogue, every number of       *)
(* users, requests and processes, every scenario of faults and any number  *)
(* of crashes.                                                             *)
(*                                                                         *)
(* What the log yields depends on how records lie between newlines, so the *)
(* argument rests on three facts about the file that the code never states *)
(* (FileShape): records are only ever earned ones, a record that is not    *)
(* the last token is closed by a newline, and no process has the log open  *)
(* while its last line is unterminated.  The last two need IntactWrites.   *)
(***************************************************************************)
EXTENDS SolveLog, TLAPS

\* A busy request is at a serving process.
AtWork ==
  \A r \in Req : pc[r] \in Busy =>
    /\ at[r] \in Server /\ status[at[r]] = "up"
    /\ pair[r] \in Pair

\* Memory belongs to a serving process; unless rollouts overlap there is one.
OneProcess ==
  /\ \A s \in Server : status[s] # "up" => solves[s] = {}
  /\ "overlap" \notin faults =>
       \A s, t \in Server : status[s] # "down" /\ status[t] # "down" => s = t

\* Only earned records: in handlers, in memory, in the file.
Earned ==
  /\ \A r \in Req : pc[r] \in {"mark", "append", "sync"} => pair[r] \in earned
  /\ \A s \in Server : solves[s] \subseteq earned
  /\ \A i \in 1..Len(file) : file[i] \in Pair => file[i] \in earned

FileShape ==
  IntactWrites =>
    /\ \A i \in 1..(Len(file) - 1) : file[i] \in Pair => file[i+1] = NL
    /\ (\E s \in Server : status[s] # "down") => Terminated(file)

\* What Sync puts on disk is readable, what was synced stays so.
Logging ==
  /\ \A r \in Req : logged[r] => pc[r] = "correct"
  /\ IntactWrites =>
       \A r \in Req :
         /\ pc[r] = "sync" => pair[r] \in Readable(file)
         /\ logged[r] => pair[r] \in Durable

\* A request that is to append has marked its pair, and no other has.
Appending ==
  /\ \A r \in Req : pc[r] \in {"append", "sync"} => pair[r] \in solves[at[r]]
  /\ \A q, r \in Req :
       pc[q] = "append" /\ pc[r] = "append" /\ at[q] = at[r] /\ pair[q] = pair[r] => q = r

\* No record follows a readable record of the same solve, and none is about to.
Fresh ==
  FullView =>
    /\ \A r \in Req : pc[r] = "append" => pair[r] \notin Readable(file)
    /\ \A i, j \in 1..Len(file) : i < j /\ WholeLine(file, i) => file[j] # file[i]

IInv ==
  /\ TypeOK
  /\ AtWork
  /\ OneProcess
  /\ Earned
  /\ FileShape
  /\ Logging
  /\ MemoryIsJournalled
  /\ Appending
  /\ BoardShowsLog
  /\ Fresh

-----------------------------------------------------------------------------
(* The text of a log that grew from another. *)

\* h starts with f.
Extends(f, h) ==
  /\ f \in Seq(Token) /\ h \in Seq(Token)
  /\ Len(f) <= Len(h)
  /\ \A i \in 1..Len(f) : h[i] = f[i]

\* Tearing or appending never makes an earlier record readable.
LEMMA NothingRevived ==
  ASSUME NEW f, NEW h, Extends(f, h), NEW i \in 1..Len(f), WholeLine(h, i)
  PROVE  WholeLine(f, i)
<1>1. Len(f) \in Nat /\ Len(h) \in Nat
  BY DEF Extends
<1>2. h[i] = f[i] /\ (i # 1 => h[i-1] = f[i-1]) /\ (i # Len(f) => h[i+1] = f[i+1])
  BY <1>1 DEF Extends
<1> QED BY <1>1, <1>2 DEF WholeLine, Extends

\* A readable record stays so when nothing is glued to it.
LEMMA NothingGlued ==
  ASSUME NEW f, NEW h, Extends(f, h), NEW i \in 1..Len(f), WholeLine(f, i),
         i = Len(f) => Len(h) = Len(f) \/ h[i+1] = NL
  PROVE  WholeLine(h, i)
<1>1. Len(f) \in Nat /\ Len(h) \in Nat
  BY DEF Extends
<1>2. h[i] = f[i] /\ (i # 1 => h[i-1] = f[i-1]) /\ (i # Len(f) => h[i+1] = f[i+1])
  BY <1>1 DEF Extends
<1> QED BY <1>1, <1>2 DEF WholeLine, Extends

\* A log yields nothing but its old solves and the records appended to it.
LEMMA ReadableGrowsBy ==
  ASSUME NEW f, NEW h, Extends(f, h), NEW S,
         \A i \in (Len(f)+1)..Len(h) : h[i] \in Pair => h[i] \in S
  PROVE  Readable(h) \subseteq Readable(f) \union S
<1> SUFFICES ASSUME NEW i \in 1..Len(h), WholeLine(h, i) PROVE h[i] \in Readable(f) \union S
  BY DEF Readable
<1>1. Len(f) \in Nat /\ Len(h) \in Nat /\ h[i] \in Pair
  BY DEF Extends, WholeLine
<1>2. CASE i \in 1..Len(f)
  BY <1>2, NothingRevived DEF Readable, Extends, WholeLine
<1>3. CASE i \notin 1..Len(f)
  BY <1>1, <1>3
<1> QED BY <1>2, <1>3

\* It keeps them when it was terminated or goes on with a newline.
LEMMA ReadableKept ==
  ASSUME NEW f, NEW h, Extends(f, h),
         Len(h) = Len(f) \/ f = <<>> \/ f[Len(f)] \notin Pair \/ h[Len(f)+1] = NL
  PROVE  Readable(f) \subseteq Readable(h)
<1> SUFFICES ASSUME NEW i \in 1..Len(f), WholeLine(f, i) PROVE f[i] \in Readable(h)
  BY DEF Readable
<1>1. Len(f) \in Nat /\ Len(h) \in Nat /\ f[i] \in Pair /\ h[i] = f[i] /\ i \in 1..Len(h) /\ f # <<>>
  BY DEF Extends, WholeLine
<1>2. WholeLine(h, i)
  BY <1>1, NothingGlued
<1> QED BY <1>1, <1>2 DEF Readable

LEMMA CutExtends ==
  ASSUME NEW f \in Seq(Token), NEW n \in 0..Len(f)
  PROVE  /\ Extends(Cut(f, n), f)
         /\ Len(Cut(f, n)) = n
         /\ \A i \in 1..n : Cut(f, n)[i] = f[i]
BY DEF Cut, Extends

LEMMA AppendExtends ==
  ASSUME NEW f \in Seq(Token), NEW t \in Token
  PROVE  /\ Extends(f, Append(f, t))
         /\ Len(Append(f, t)) = Len(f) + 1
         /\ Append(f, t)[Len(f) + 1] = t
BY DEF Extends

LEMMA ConcatExtends ==
  ASSUME NEW f \in Seq(Token), NEW g \in Seq(Token)
  PROVE  /\ Extends(f, f \o g)
         /\ Len(f \o g) = Len(f) + Len(g)
         /\ \A i \in (Len(f)+1)..(Len(f)+Len(g)) :
              (f \o g)[i] = g[i - Len(f)] /\ i - Len(f) \in 1..Len(g)
BY DEF Extends

\* What a terminated log gains by a whole record.
LEMMA RecordIsReadable ==
  ASSUME NEW f \in Seq(Token), Terminated(f), NEW p \in Pair
  PROVE  p \in Readable(f \o <<p, NL>>)
<1> DEFINE h == f \o <<p, NL>>
<1>1. <<p, NL>> \in Seq(Token)
  BY DEF Token
<1>2. Len(f) \in Nat /\ Len(h) = Len(f) + 2 /\ h[Len(f)+1] = p /\ h[Len(f)+2] = NL
  BY <1>1, ConcatExtends
<1>3. Len(f) # 0 => h[Len(f)] = NL
  BY <1>1, ConcatExtends DEF Terminated, Extends
<1>4. WholeLine(h, Len(f) + 1)
  BY <1>2, <1>3 DEF WholeLine
<1>5. h[Len(f) + 1] \in Readable(h)
  <2> HIDE DEF h
  <2> QED BY <1>2, <1>4 DEF Readable
<1> QED BY <1>2, <1>5

\* The disk after a power loss holds the synced part, perhaps more of the log,
\* perhaps a torn record after it.
LEMMA SurvivorShape ==
  ASSUME NEW f \in Seq(Token), NEW n \in 0..Len(f), NEW h \in Survivors(f, n)
  PROVE  /\ h \in Seq(Token)
         /\ \E k \in n..Len(f) :
              /\ Extends(Cut(f, k), h)
              /\ \/ h = Cut(f, k)
                 \/ k # Len(f) /\ f[k+1] # NL /\ h = Append(Cut(f, k), Frag)
<1>1. CASE h \in {Cut(f, k) : k \in n..Len(f)}
  <2>1. PICK k \in n..Len(f) : h = Cut(f, k)
    BY <1>1
  <2>2. Extends(h, h)
    BY <2>1, CutExtends DEF Extends
  <2> QED BY <2>1, <2>2 DEF Extends
<1>2. CASE h \in {Append(Cut(f, k), Frag) : k \in {j \in n..(Len(f)-1) : f[j+1] # NL}}
  <2>1. PICK k \in n..(Len(f)-1) : f[k+1] # NL /\ h = Append(Cut(f, k), Frag)
    BY <1>2
  <2>2. Cut(f, k) \in Seq(Token)
    BY <2>1, CutExtends DEF Extends
  <2>3. Extends(Cut(f, k), h)
    BY <2>1, <2>2, AppendExtends DEF Token
  <2> QED BY <2>1, <2>3 DEF Extends
<1> QED BY <1>1, <1>2 DEF Survivors

-----------------------------------------------------------------------------
LEMMA InitIInv == Init => IInv
<1> SUFFICES ASSUME Init PROVE IInv
  OBVIOUS
<1>1. Len(file) = 0 /\ file \in Seq(Token)
  BY DEF Init
<1>2. TypeOK
  BY <1>1, BoundAssumption DEF Init, TypeOK
<1>3. AtWork /\ OneProcess /\ Earned /\ Appending /\ MemoryIsJournalled /\ BoardShowsLog
  BY <1>1 DEF Init, AtWork, Busy, OneProcess, Earned, Appending, MemoryIsJournalled,
       BoardShowsLog, Readable
<1>4. FileShape /\ Logging /\ Fresh
  BY <1>1 DEF Init, FileShape, Logging, Fresh, Terminated
<1> QED BY <1>2, <1>3, <1>4 DEF IInv

\* The tokens a write can leave behind.
LEMMA TornIsText ==
  ASSUME NEW p \in Pair, NEW t \in Torn(p)
  PROVE  t \in Seq(Token) /\ Len(t) <= 1 /\ (\A i \in 1..Len(t) : t[i] \in {p, Frag})
<1>1. CASE t = <<>>
  BY <1>1
<1>2. ASSUME NEW c \in {p, Frag}, t = <<c>>
      PROVE  t \in Seq(Token) /\ Len(t) <= 1 /\ (\A i \in 1..Len(t) : t[i] \in {p, Frag})
  <2>1. c \in Token
    BY DEF Token
  <2> QED BY <1>2, <2>1
<1> QED BY <1>1, <1>2 DEF Torn

\* How each step changes the log: it heals, appends, or loses a tail.
LEMMA LogStep ==
  ASSUME TypeOK, AtWork, [Next]_vars
  PROVE  \/ UNCHANGED file
         \/ \E s \in Server : Open(s) /\ ~Terminated(file) /\ file' = Append(file, NL)
         \/ \E r \in Req : Write(r) /\ file' = file \o <<pair[r], NL>>
         \/ \E r \in Req : \E t \in Torn(pair[r]) :
              /\ pair[r] \in Pair /\ pc[r] = "append"
              /\ file' = file \o t
              /\ \/ WriteFails(r)
                 \/ "tear" \in faults /\ \E s \in Server : Kill(s) /\ at[r] = s
         \/ PowerLoss
<1>1. ASSUME NEW s \in Server, Open(s)
      PROVE  UNCHANGED file \/ (~Terminated(file) /\ file' = Append(file, NL))
  BY <1>1 DEF Open
<1>2. ASSUME NEW s \in Server, Replay(s) PROVE UNCHANGED file
  BY <1>2 DEF Replay
<1>3. ASSUME NEW s \in Server, Kill(s)
      PROVE  \/ UNCHANGED file
             \/ /\ "tear" \in faults
                /\ \E r \in Req : \E t \in Torn(pair[r]) :
                     pair[r] \in Pair /\ pc[r] = "append" /\ at[r] = s /\ file' = file \o t
  BY <1>3 DEF Kill, AtWork, Busy
<1>4. ASSUME NEW r \in Req, Submit(r) \/ Fetched(r) \/ Mark(r) \/ Sync(r) \/ SyncFails(r)
      PROVE  UNCHANGED file
  BY <1>4 DEF Submit, Attempt, Verify, Arrive, Fetched, Mark, Sync, SyncFails
<1>5. ASSUME NEW r \in Req, Write(r) PROVE file' = file \o <<pair[r], NL>>
  BY <1>5 DEF Write
<1>6. ASSUME NEW r \in Req, WriteFails(r)
      PROVE  \E t \in Torn(pair[r]) : pair[r] \in Pair /\ pc[r] = "append" /\ file' = file \o t
  BY <1>6 DEF WriteFails, AtWork, Busy
<1>7. CASE UNCHANGED vars
  BY <1>7 DEF vars
<1> QED
  BY <1>1, <1>2, <1>3, <1>4, <1>5, <1>6, <1>7 DEF Next, Boot, Handle

LEMMA TypeStep == TypeOK /\ AtWork /\ [Next]_vars => TypeOK'
<1> SUFFICES ASSUME TypeOK, AtWork, [Next]_vars PROVE TypeOK'
  OBVIOUS
<1> USE BoundAssumption DEF TypeOK, reqVars
<1>1. ASSUME NEW s \in Server, Open(s) PROVE TypeOK'
  <2>1. file' \in Seq(Token) /\ Len(file) <= Len(file')
    BY <1>1, AppendExtends DEF Open, Token, Extends
  <2> QED BY <1>1, <2>1 DEF Open
<1>2. ASSUME NEW s \in Server, Replay(s) PROVE TypeOK'
  <2>1. \E S \in SUBSET Pair : solves' = [solves EXCEPT ![s] = S]
    BY <1>2 DEF Replay, Readable
  <2> QED BY <1>2, <2>1 DEF Replay
<1>3. ASSUME NEW r \in Req, NEW s \in Server, NEW p \in Pair, Verify(r, s, p) PROVE TypeOK'
  BY <1>3 DEF Verify, Arrive, Goto, Busy
<1>4. ASSUME NEW r \in Req, NEW s \in Server, NEW p \in Pair, NEW a \in Answer, Attempt(r, s, p, a)
      PROVE  TypeOK'
  BY <1>4 DEF Attempt, Arrive, Goto, Busy
<1>5. ASSUME NEW r \in Req, Fetched(r) PROVE TypeOK'
  BY <1>5 DEF Fetched, Goto, Busy, AtWork
<1>6. ASSUME NEW r \in Req, Mark(r) PROVE TypeOK'
  BY <1>6 DEF Mark, Goto, Busy, AtWork
<1>7. ASSUME NEW r \in Req, Write(r) PROVE TypeOK'
  <2>1. <<pair[r], NL>> \in Seq(Token)
    BY <1>7 DEF Write, AtWork, Busy, Token
  <2>2. file' \in Seq(Token) /\ Len(file) <= Len(file')
    BY <1>7, <2>1 DEF Write
  <2> QED BY <1>7, <2>2 DEF Write, Goto, Busy
<1>8. ASSUME NEW r \in Req, WriteFails(r) PROVE TypeOK'
  <2>1. PICK t \in Torn(pair[r]) : file' = file \o t
    BY <1>8 DEF WriteFails
  <2>2. t \in Seq(Token)
    BY <1>8, TornIsText DEF WriteFails, AtWork, Busy
  <2>3. file' \in Seq(Token) /\ Len(file) <= Len(file')
    BY <2>1, <2>2
  <2> QED BY <1>8, <2>3 DEF WriteFails, Goto, Busy
<1>9. ASSUME NEW r \in Req, Sync(r) \/ SyncFails(r) PROVE TypeOK'
  <2>1. UNCHANGED <<faults, status, solves, file, at, pair, earned, crashes>>
    BY <1>9 DEF Sync, SyncFails
  <2>2. stable' \in 0..Len(file)
    BY <1>9 DEF Sync, SyncFails
  <2>3. pc' = [pc EXCEPT ![r] = "correct"] /\ logged' \in [Req -> BOOLEAN]
    BY <1>9 DEF Sync, SyncFails, Goto
  <2> QED BY <2>1, <2>2, <2>3
<1>10. ASSUME NEW S \in SUBSET Server, Fall(S) PROVE
         /\ faults' \in Scenario
         /\ status' \in [Server -> {"down", "boot", "up"}]
         /\ solves' \in [Server -> SUBSET Pair]
         /\ pc' \in [Req -> Busy \union {"idle", "correct", "refused", "lost"}]
         /\ UNCHANGED <<at, pair, logged, earned>>
         /\ crashes' \in 0..MaxCrash
  <2>1. status' \in [Server -> {"down", "boot", "up"}] /\ faults' \in Scenario
    BY <1>10 DEF Fall
  <2>2. solves' \in [Server -> SUBSET Pair]
    BY <1>10 DEF Fall
  <2>3. pc' \in [Req -> Busy \union {"idle", "correct", "refused", "lost"}]
    BY <1>10 DEF Fall
  <2>4. UNCHANGED <<at, pair, logged, earned>> /\ crashes' \in 0..MaxCrash
    BY <1>10 DEF Fall
  <2> QED BY <2>1, <2>2, <2>3, <2>4
<1>11. ASSUME NEW s \in Server, Kill(s) PROVE TypeOK'
  <2>1. file' \in Seq(Token) /\ Len(file) <= Len(file')
    <3>1. CASE file' = file
      BY <3>1
    <3>2. CASE file' # file
      <4>1. PICK r \in Req : pc[r] = "append" /\ \E t \in Torn(pair[r]) : file' = file \o t
        BY <1>11, <3>2 DEF Kill
      <4>2. PICK t \in Torn(pair[r]) : file' = file \o t
        BY <4>1
      <4>3. t \in Seq(Token)
        BY <4>1, TornIsText DEF AtWork, Busy
      <4> QED BY <4>2, <4>3
    <3> QED BY <3>1, <3>2
  <2>2. Fall({s}) /\ UNCHANGED stable
    BY <1>11 DEF Kill
  <2> QED BY <1>10, <2>1, <2>2
<1>12. CASE PowerLoss
  <2>1. Fall(Server) /\ file' \in Survivors(file, stable) /\ stable' = Len(file')
    BY <1>12 DEF PowerLoss
  <2>2. file' \in Seq(Token)
    BY <2>1, SurvivorShape
  <2> QED BY <1>10, <2>1, <2>2
<1>13. CASE UNCHANGED vars
  BY <1>13 DEF vars
<1> QED
  BY <1>1, <1>2, <1>3, <1>4, <1>5, <1>6, <1>7, <1>8, <1>9, <1>11, <1>12, <1>13
     DEF Next, Boot, Handle, Submit

\* A handler works where it arrived, and only while that process lives.
LEMMA AtWorkStep == TypeOK /\ AtWork /\ [Next]_vars => AtWork'
<1> SUFFICES ASSUME TypeOK, AtWork, [Next]_vars PROVE AtWork'
  OBVIOUS
<1> USE DEF TypeOK, AtWork, Busy, reqVars
<1>1. ASSUME NEW s \in Server, Boot(s) PROVE AtWork'
  BY <1>1 DEF Boot, Open, Replay
<1>2. ASSUME NEW r \in Req, Submit(r) PROVE AtWork'
  <2>1. UNCHANGED status
    BY <1>2 DEF Submit, Attempt, Verify, Arrive
  <2>2. \E s \in Server, p \in Pair, l \in {"mark", "fetch", "refused"} :
          /\ status[s] = "up"
          /\ at' = [at EXCEPT ![r] = s] /\ pair' = [pair EXCEPT ![r] = p]
          /\ pc' = [pc EXCEPT ![r] = l]
    BY <1>2 DEF Submit, Attempt, Verify, Arrive, Goto
  <2> QED BY <2>1, <2>2
<1>3. ASSUME NEW r \in Req, Handle(r) PROVE AtWork'
  <2>1. UNCHANGED <<status, at, pair>> /\ pc[r] \in Busy
    BY <1>3 DEF Handle, Fetched, Mark, Write, WriteFails, Sync, SyncFails
  <2>2. \A q \in Req : q # r => pc'[q] = pc[q]
    BY <1>3 DEF Handle, Fetched, Mark, Write, WriteFails, Sync, SyncFails, Goto
  <2> QED BY <2>1, <2>2
<1>4. ASSUME NEW S \in SUBSET Server, Fall(S) PROVE AtWork'
  BY <1>4 DEF Fall
<1>5. CASE UNCHANGED vars
  BY <1>5 DEF vars
<1> QED
  BY <1>1, <1>2, <1>3, <1>4, <1>5 DEF Next, Kill, PowerLoss

LEMMA OneProcessStep == TypeOK /\ AtWork /\ OneProcess /\ [Next]_vars => OneProcess'
<1> SUFFICES ASSUME TypeOK, AtWork, OneProcess, [Next]_vars PROVE OneProcess'
  OBVIOUS
<1> USE DEF TypeOK, OneProcess
<1>1. ASSUME NEW s \in Server, Open(s) PROVE OneProcess'
  BY <1>1 DEF Open
<1>2. ASSUME NEW s \in Server, Replay(s) PROVE OneProcess'
  <2>1. UNCHANGED faults /\ status[s] = "boot" /\ status' = [status EXCEPT ![s] = "up"]
    BY <1>2 DEF Replay
  <2>2. \A t \in Server : t # s => solves'[t] = solves[t]
    BY <1>2 DEF Replay
  <2> QED BY <2>1, <2>2
<1>3. ASSUME NEW r \in Req, Submit(r) PROVE OneProcess'
  BY <1>3 DEF Submit, Attempt, Verify, Arrive
<1>4. ASSUME NEW r \in Req, Mark(r) PROVE OneProcess'
  BY <1>4 DEF Mark, AtWork, Busy
<1>5. ASSUME NEW r \in Req, Handle(r), ~Mark(r) PROVE OneProcess'
  <2>1. UNCHANGED <<faults, status, solves>>
    BY <1>5 DEF Handle, Fetched, Write, WriteFails, Sync, SyncFails
  <2> QED BY <2>1
<1>6. ASSUME NEW S \in SUBSET Server, Fall(S) PROVE OneProcess'
  BY <1>6 DEF Fall
<1>7. CASE UNCHANGED vars
  BY <1>7 DEF vars
<1> QED
  <2> HIDE DEF TypeOK, OneProcess
  <2>1. (\E s \in Server : Kill(s)) \/ PowerLoss => OneProcess'
    BY <1>6 DEF Kill, PowerLoss
  <2>2. (\E s \in Server : Boot(s)) => OneProcess'
    BY <1>1, <1>2 DEF Boot
  <2>3. (\E r \in Req : Submit(r) \/ Handle(r)) => OneProcess'
    BY <1>3, <1>4, <1>5
  <2> QED BY <1>7, <2>1, <2>2, <2>3 DEF Next

LEMMA EarnedGrows == [Next]_vars => earned \subseteq earned'
<1> SUFFICES ASSUME [Next]_vars PROVE earned \subseteq earned'
  OBVIOUS
<1>1. ASSUME NEW s \in Server, Boot(s) \/ Kill(s) PROVE UNCHANGED earned
  BY <1>1 DEF Boot, Open, Replay, Kill, Fall
<1>2. ASSUME NEW r \in Req, Submit(r) PROVE earned \subseteq earned'
  BY <1>2 DEF Submit, Attempt, Verify
<1>3. ASSUME NEW r \in Req, Handle(r) PROVE earned \subseteq earned'
  BY <1>3 DEF Handle, Fetched, Mark, Write, WriteFails, Sync, SyncFails
<1>4. PowerLoss => UNCHANGED earned
  BY DEF PowerLoss, Fall
<1> QED BY <1>1, <1>2, <1>3, <1>4 DEF Next, vars

\* No step writes a record nobody earned, not even half of one.
LEMMA EarnedStep == TypeOK /\ AtWork /\ Earned /\ [Next]_vars => Earned'
<1> SUFFICES ASSUME TypeOK, AtWork, Earned, [Next]_vars PROVE Earned'
  OBVIOUS
<1> USE DEF TypeOK, Earned
<1>1. earned \subseteq earned'
  BY EarnedGrows
<1>2. \A r \in Req : pc'[r] \in {"mark", "append", "sync"} => pair'[r] \in earned'
  <2>1. ASSUME NEW r \in Req, Submit(r)
        PROVE  \A q \in Req : pc'[q] \in {"mark", "append", "sync"} => pair'[q] \in earned'
    BY <1>1, <2>1 DEF Submit, Attempt, Verify, Arrive, Goto
  <2>2. ASSUME NEW r \in Req, Handle(r)
        PROVE  \A q \in Req : pc'[q] \in {"mark", "append", "sync"} => pair'[q] \in earned'
    <3>1. UNCHANGED pair
      BY <2>2 DEF Handle, Fetched, Mark, Write, WriteFails, Sync, SyncFails
    <3>2. \A q \in Req : q # r => pc'[q] = pc[q]
      BY <2>2 DEF Handle, Fetched, Mark, Write, WriteFails, Sync, SyncFails, Goto
    <3>3. pc'[r] \in {"mark", "append", "sync"} => pair[r] \in earned'
      BY <1>1, <2>2 DEF Handle, Fetched, Mark, Write, WriteFails, Sync, SyncFails, Goto
    <3> QED BY <1>1, <3>1, <3>2, <3>3
  <2>3. ASSUME NEW S \in SUBSET Server, Fall(S)
        PROVE  \A q \in Req : pc'[q] \in {"mark", "append", "sync"} => pair'[q] \in earned'
    BY <1>1, <2>3 DEF Fall
  <2>4. ASSUME (\E s \in Server : Boot(s)) \/ UNCHANGED vars
        PROVE  UNCHANGED reqVars
    BY <2>4 DEF Boot, Open, Replay, vars
  <2> QED BY <1>1, <2>1, <2>2, <2>3, <2>4 DEF Next, Kill, PowerLoss, reqVars
<1>3. \A s \in Server : solves'[s] \subseteq earned'
  <2>1. ASSUME NEW s \in Server, Replay(s) PROVE \A t \in Server : solves'[t] \subseteq earned
    <3>1. PICK n \in 0..Len(file) : solves' = [solves EXCEPT ![s] = Readable(Cut(file, n))]
      <4>1. (IF "readfail" \in faults THEN 0..Len(file) ELSE {Len(file)}) \subseteq 0..Len(file)
        OBVIOUS
      <4> QED BY <2>1, <4>1 DEF Replay
    <3>2. Readable(Cut(file, n)) \subseteq earned
      BY <3>1, CutExtends DEF Readable
    <3> QED BY <3>1, <3>2
  <2>2. ASSUME NEW r \in Req, Mark(r) PROVE \A t \in Server : solves'[t] \subseteq earned
    BY <2>2 DEF Mark, AtWork, Busy
  <2>3. ASSUME NEW S \in SUBSET Server, Fall(S) PROVE \A t \in Server : solves'[t] \subseteq earned
    BY <2>3 DEF Fall
  <2>4. ASSUME NEW r \in Req, Submit(r) \/ (Handle(r) /\ ~Mark(r)) PROVE UNCHANGED solves
    BY <2>4 DEF Submit, Attempt, Verify, Arrive, Handle, Fetched, Write, WriteFails, Sync, SyncFails
  <2>5. ASSUME (\E s \in Server : Open(s)) \/ UNCHANGED vars
        PROVE  UNCHANGED solves
    BY <2>5 DEF Open, vars
  <2> QED BY <1>1, <2>1, <2>2, <2>3, <2>4, <2>5 DEF Next, Boot, Kill, PowerLoss
<1>4. ASSUME NEW i \in 1..Len(file)', file'[i] \in Pair PROVE file'[i] \in earned
  <2>1. CASE UNCHANGED file
    BY <1>4, <2>1
  <2>2. CASE file' = Append(file, NL)
    BY <1>4, <2>2, AppendExtends, TokenAssumption DEF Extends, Token
  <2>3. ASSUME NEW r \in Req, Write(r), file' = file \o <<pair[r], NL>> PROVE file'[i] \in earned
    <3>1. pair[r] \in Pair /\ pair[r] \in earned
      BY <2>3 DEF Write, AtWork, Busy
    <3>2. <<pair[r], NL>> \in Seq(Token)
      BY <3>1 DEF Token
    <3> QED BY <1>4, <2>3, <3>1, <3>2, TokenAssumption
  <2>4. ASSUME NEW r \in Req, NEW t \in Torn(pair[r]), pair[r] \in Pair, pc[r] = "append", file' = file \o t
        PROVE  file'[i] \in earned
    <3>1. t \in Seq(Token) /\ \A j \in 1..Len(t) : t[j] \in {pair[r], Frag}
      BY <2>4, TornIsText
    <3>2. pair[r] \in earned
      BY <2>4
    <3>3. CASE i \in 1..Len(file)
      BY <1>4, <2>4, <3>1, <3>3, ConcatExtends DEF Extends
    <3>4. CASE i \notin 1..Len(file)
      <4>1. file'[i] \in {pair[r], Frag}
        BY <1>4, <2>4, <3>1, <3>4, ConcatExtends
      <4> QED BY <1>4, <3>2, <4>1, TokenAssumption
    <3> QED BY <3>3, <3>4
  <2>5. CASE PowerLoss
    <3>1. file' \in Survivors(file, stable)
      BY <2>5 DEF PowerLoss
    <3>2. PICK k \in stable..Len(file) :
            file' = Cut(file, k) \/ (k # Len(file) /\ file' = Append(Cut(file, k), Frag))
      BY <3>1, SurvivorShape
    <3>3. /\ Cut(file, k) \in Seq(Token) /\ Len(Cut(file, k)) = k
          /\ \A j \in 1..k : Cut(file, k)[j] = file[j]
      BY <3>2, CutExtends DEF Extends
    <3>4. i \in 1..k \/ file'[i] = Frag
      <4>1. CASE file' = Cut(file, k)
        BY <1>4, <3>3, <4>1
      <4>2. CASE file' = Append(Cut(file, k), Frag)
        BY <1>4, <3>3, <4>2
      <4> QED BY <3>2, <4>1, <4>2
    <3>5. i \in 1..k
      BY <1>4, <3>4, TokenAssumption
    <3>6. file'[i] = file[i]
      <4>1. CASE file' = Cut(file, k)
        BY <3>3, <3>5, <4>1
      <4>2. CASE file' = Append(Cut(file, k), Frag)
        BY <3>3, <3>5, <4>2
      <4> QED BY <3>2, <4>1, <4>2
    <3> QED BY <1>4, <3>2, <3>5, <3>6
  <2> QED BY <2>1, <2>2, <2>3, <2>4, <2>5, LogStep
<1> QED BY <1>1, <1>2, <1>3, <1>4

LEMMA FaultsFixed ==
  ASSUME [Next]_vars
  PROVE  /\ UNCHANGED faults
         /\ IntactWrites' <=> IntactWrites
         /\ FullView' <=> FullView
<1>1. UNCHANGED faults
  <2>1. ASSUME NEW s \in Server, Boot(s) \/ Kill(s) PROVE UNCHANGED faults
    BY <2>1 DEF Boot, Open, Replay, Kill, Fall
  <2>2. ASSUME NEW r \in Req, Submit(r) PROVE UNCHANGED faults
    BY <2>2 DEF Submit, Attempt, Verify, Arrive
  <2>3. ASSUME NEW r \in Req, Handle(r) PROVE UNCHANGED faults
    BY <2>3 DEF Handle, Fetched, Mark, Write, WriteFails, Sync, SyncFails
  <2>4. PowerLoss => UNCHANGED faults
    BY DEF PowerLoss, Fall
  <2> QED BY <2>1, <2>2, <2>3, <2>4 DEF Next, vars
<1> QED BY ONLY <1>1 DEF IntactWrites, FullView

\* Only an opening process leaves "down".
LEMMA WhoIsUp ==
  ASSUME TypeOK, [Next]_vars, NEW s \in Server, status'[s] # "down"
  PROVE  Open(s) \/ status[s] # "down"
<1>1. ASSUME NEW t \in Server, Open(t) PROVE t = s \/ status[s] # "down"
  BY <1>1 DEF Open, TypeOK
<1>2. ASSUME NEW t \in Server, Replay(t) PROVE status[s] # "down"
  BY <1>2 DEF Replay, TypeOK
<1>3. ASSUME NEW r \in Req, Submit(r) \/ Handle(r) PROVE UNCHANGED status
  BY <1>3 DEF Submit, Attempt, Verify, Arrive, Handle, Fetched, Mark, Write, WriteFails, Sync, SyncFails
<1>4. ASSUME NEW S \in SUBSET Server, Fall(S) PROVE status[s] # "down"
  BY <1>4 DEF Fall, TypeOK
<1> QED BY <1>1, <1>2, <1>3, <1>4 DEF Next, Boot, Kill, PowerLoss, vars

\* Under IntactWrites a write stops short only when the last process ends.
LEMMA TearIsTheEnd ==
  ASSUME TypeOK, AtWork, OneProcess, FileShape, IntactWrites,
         NEW r \in Req, pc[r] = "append",
         \/ WriteFails(r)
         \/ "tear" \in faults /\ \E s \in Server : Kill(s) /\ at[r] = s
  PROVE  /\ \A s \in Server : status'[s] = "down"
         /\ Terminated(file)
<1>1. PICK s \in Server : "tear" \in faults /\ Kill(s) /\ at[r] = s
  BY DEF WriteFails, IntactWrites
<1>2. status[s] = "up" /\ Terminated(file)
  BY <1>1 DEF AtWork, Busy, FileShape
<1>3. \A t \in Server : t # s => status[t] = "down"
  BY <1>1, <1>2 DEF OneProcess, IntactWrites
<1>4. \A t \in Server : status'[t] = "down"
  BY <1>1, <1>3 DEF Kill, Fall
<1> QED BY <1>2, <1>4

LEMMA FileShapeStep ==
  TypeOK /\ AtWork /\ OneProcess /\ FileShape /\ [Next]_vars => FileShape'
<1> SUFFICES ASSUME TypeOK, AtWork, OneProcess, FileShape, [Next]_vars PROVE FileShape'
  OBVIOUS
<1> SUFFICES ASSUME IntactWrites
             PROVE  /\ \A i \in 1..(Len(file') - 1) : file'[i] \in Pair => file'[i+1] = NL
                    /\ \A s \in Server : status'[s] # "down" => Terminated(file')
  BY FaultsFixed DEF FileShape
<1> DEFINE Shape(f) == \A i \in 1..(Len(f) - 1) : f[i] \in Pair => f[i+1] = NL
<1>0. Shape(file) /\ file \in Seq(Token) /\ Len(file) \in Nat /\ stable \in 0..Len(file)
  BY DEF FileShape, TypeOK
<1>1. CASE UNCHANGED file
  <2>1. ASSUME NEW s \in Server, Open(s) PROVE Terminated(file)
    <3>1. Append(file, NL) # file
      BY <1>0
    <3> QED BY <1>1, <2>1, <3>1 DEF Open
  <2> QED BY <1>0, <1>1, <2>1, WhoIsUp DEF FileShape
<1>2. CASE file' = Append(file, NL)
  BY <1>0, <1>2 DEF Terminated
<1>3. ASSUME NEW r \in Req, Write(r), file' = file \o <<pair[r], NL>> PROVE Shape(file') /\ Terminated(file')
  <2>1. pair[r] \in Pair /\ Terminated(file)
    BY <1>3 DEF Write, AtWork, Busy, FileShape
  <2>2. <<pair[r], NL>> \in Seq(Token)
    BY <2>1 DEF Token
  <2>3. Len(file') = Len(file) + 2 /\ file'[Len(file) + 1] = pair[r] /\ file'[Len(file) + 2] = NL
    BY <1>0, <1>3, <2>2
  <2>4. \A i \in 1..Len(file) : file'[i] = file[i]
    BY <1>0, <1>3, <2>2
  <2> QED BY <1>0, <2>1, <2>3, <2>4, TokenAssumption DEF Terminated
<1>4. ASSUME NEW r \in Req, NEW t \in Torn(pair[r]), pair[r] \in Pair, pc[r] = "append", file' = file \o t,
             \/ WriteFails(r)
             \/ "tear" \in faults /\ \E s \in Server : Kill(s) /\ at[r] = s
      PROVE  Shape(file') /\ \A s \in Server : status'[s] = "down"
  <2>1. (\A s \in Server : status'[s] = "down") /\ Terminated(file)
    BY <1>4, TearIsTheEnd
  <2>2. t \in Seq(Token) /\ Len(t) <= 1
    BY <1>4, TornIsText
  <2>3. Len(file') <= Len(file) + 1 /\ \A i \in 1..Len(file) : file'[i] = file[i]
    BY <1>0, <1>4, <2>2
  <2>4. Len(file') \in Nat
    BY <1>0, <1>4, <2>2
  <2> QED BY <1>0, <2>1, <2>3, <2>4, TokenAssumption DEF Terminated
<1>5. ASSUME PowerLoss PROVE Shape(file') /\ \A s \in Server : status'[s] = "down"
  <2>1. \A s \in Server : status'[s] = "down"
    BY <1>5 DEF PowerLoss, Fall
  <2>2. PICK k \in stable..Len(file) :
          \/ file' = Cut(file, k)
          \/ k # Len(file) /\ file[k+1] # NL /\ file' = Append(Cut(file, k), Frag)
    BY <1>0, <1>5, SurvivorShape DEF PowerLoss
  <2>3. Cut(file, k) \in Seq(Token) /\ Len(Cut(file, k)) = k /\ \A i \in 1..k : Cut(file, k)[i] = file[i]
    <3>1. k \in 0..Len(file)
      BY <1>0, <2>2
    <3> QED BY <1>0, <3>1, CutExtends DEF Extends
  <2>4. CASE file' = Cut(file, k)
    BY <1>0, <2>1, <2>3, <2>4
  <2>5. CASE k # Len(file) /\ file[k+1] # NL /\ file' = Append(Cut(file, k), Frag)
    <3>1. Extends(Cut(file, k), file') /\ Len(file') = k + 1
      BY <2>3, <2>5, AppendExtends DEF Token
    <3>2. k \in Nat /\ \A i \in 1..k : file'[i] = file[i]
      BY <1>0, <2>2, <2>3, <3>1 DEF Extends
    <3>3. file[k] \notin Pair \/ k = 0
      BY <1>0, <2>2, <2>5, <3>2
    <3>4. ASSUME NEW i \in 1..(Len(file') - 1), file'[i] \in Pair PROVE file'[i+1] = NL
      <4>1. i \in 1..k /\ i # k /\ file[i] \in Pair
        BY <3>1, <3>2, <3>3, <3>4
      <4>2. i \in 1..(Len(file) - 1) /\ i + 1 \in 1..k
        BY <1>0, <2>2, <4>1
      <4> QED BY <1>0, <3>2, <4>1, <4>2
    <3> QED BY <2>1, <3>4
  <2> QED BY <2>2, <2>4, <2>5
<1> QED BY <1>1, <1>2, <1>3, <1>4, <1>5, LogStep

-----------------------------------------------------------------------------
(* What a step makes readable, and what it leaves so. *)

LEMMA CutSame ==
  ASSUME NEW f, NEW h, Extends(f, h), NEW n \in 0..Len(f)
  PROVE  Cut(h, n) = Cut(f, n)
<1>1. Len(f) \in Nat /\ Len(h) \in Nat /\ n \in 0..Len(h) /\ f \in Seq(Token) /\ h \in Seq(Token)
  BY DEF Extends
<1>2. /\ Cut(f, n) \in Seq(Token) /\ Len(Cut(f, n)) = n
      /\ Cut(h, n) \in Seq(Token) /\ Len(Cut(h, n)) = n
  BY <1>1, CutExtends DEF Extends
<1>3. \A i \in 1..n : Cut(h, n)[i] = Cut(f, n)[i]
  BY <1>1, CutExtends DEF Extends
<1> QED BY <1>2, <1>3

\* A synced part of the log keeps its records in any log that starts with it.
LEMMA CutKept ==
  ASSUME NEW f \in Seq(Token), NEW n \in 0..Len(f), NEW h, Extends(Cut(f, n), h),
         Len(h) = n \/ n = 0 \/ f[n] \notin Pair \/ h[n+1] = NL
  PROVE  Readable(Cut(f, n)) \subseteq Readable(h)
<1>1. Len(Cut(f, n)) = n /\ Cut(f, n) \in Seq(Token) /\ \A i \in 1..n : Cut(f, n)[i] = f[i]
  BY CutExtends DEF Extends
<1>2. n = 0 => Cut(f, n) = <<>>
  BY <1>1
<1>3. n # 0 => Cut(f, n)[Len(Cut(f, n))] = f[n]
  BY <1>1
<1> QED BY <1>1, <1>2, <1>3, ReadableKept

LEMMA Growth ==
  ASSUME TypeOK, AtWork, [Next]_vars, ~PowerLoss
  PROVE  /\ Extends(file, file')
         /\ \/ \A i \in (Len(file)+1)..Len(file') : file'[i] \notin Pair
            \/ \E r \in Req :
                 /\ pc[r] = "append" /\ pair[r] \in Pair
                 /\ Write(r) \/ WriteFails(r) \/ \E s \in Server : Kill(s) /\ at[r] = s
                 /\ \A i \in (Len(file)+1)..Len(file') : file'[i] \in Pair => file'[i] = pair[r]
<1>0. file \in Seq(Token) /\ Len(file) \in Nat
  BY DEF TypeOK
<1>1. CASE UNCHANGED file
  BY <1>0, <1>1 DEF Extends
<1>2. CASE file' = Append(file, NL)
  <2>1. Extends(file, file') /\ Len(file') = Len(file) + 1 /\ file'[Len(file) + 1] = NL
    BY <1>0, <1>2, AppendExtends DEF Token
  <2> QED BY <1>0, <2>1, TokenAssumption
<1>3. ASSUME NEW r \in Req, Write(r), file' = file \o <<pair[r], NL>>
      PROVE  /\ Extends(file, file') /\ pc[r] = "append" /\ pair[r] \in Pair
             /\ \A i \in (Len(file)+1)..Len(file') : file'[i] \in Pair => file'[i] = pair[r]
  <2>1. pair[r] \in Pair /\ pc[r] = "append"
    BY <1>3 DEF Write, AtWork, Busy
  <2>2. <<pair[r], NL>> \in Seq(Token)
    BY <2>1 DEF Token
  <2>3. Extends(file, file') /\ Len(file') = Len(file) + 2
    BY <1>0, <1>3, <2>2, ConcatExtends
  <2>4. file'[Len(file) + 2] = NL /\ file'[Len(file) + 1] = pair[r]
    BY <1>0, <1>3, <2>2
  <2> QED BY <1>0, <2>1, <2>3, <2>4, TokenAssumption
<1>4. ASSUME NEW r \in Req, NEW t \in Torn(pair[r]), pair[r] \in Pair, file' = file \o t
      PROVE  /\ Extends(file, file')
             /\ \A i \in (Len(file)+1)..Len(file') : file'[i] \in Pair => file'[i] = pair[r]
  <2>1. t \in Seq(Token) /\ \A i \in 1..Len(t) : t[i] \in {pair[r], Frag}
    BY <1>4, TornIsText
  <2>2. Extends(file, file') /\ Len(file') = Len(file) + Len(t)
    BY <1>0, <1>4, <2>1, ConcatExtends
  <2>3. \A i \in (Len(file)+1)..Len(file') : file'[i] \in {pair[r], Frag}
    BY <1>0, <1>4, <2>1, <2>2, ConcatExtends
  <2> QED BY <2>2, <2>3, TokenAssumption
<1> QED BY <1>1, <1>2, <1>3, <1>4, LogStep

\* No step but a loss of power hides a record where writes are intact.
LEMMA NothingHidden ==
  ASSUME TypeOK, AtWork, OneProcess, FileShape, IntactWrites, [Next]_vars, ~PowerLoss
  PROVE  Readable(file) \subseteq Readable(file')
<1>0. Extends(file, file') /\ file \in Seq(Token) /\ Len(file) \in Nat
  BY Growth DEF TypeOK
<1>1. ASSUME Terminated(file) PROVE Readable(file) \subseteq Readable(file')
  BY <1>0, <1>1, ReadableKept, TokenAssumption DEF Terminated
<1>2. CASE UNCHANGED file
  BY <1>2
<1>3. CASE file' = Append(file, NL)
  <2>1. file'[Len(file) + 1] = NL
    BY <1>0, <1>3
  <2> QED BY <1>0, <2>1, ReadableKept
<1>4. ASSUME NEW r \in Req, Write(r) PROVE Terminated(file)
  BY <1>4 DEF Write, AtWork, Busy, FileShape
<1>5. ASSUME NEW r \in Req, pc[r] = "append",
             \/ WriteFails(r)
             \/ "tear" \in faults /\ \E s \in Server : Kill(s) /\ at[r] = s
      PROVE  Terminated(file)
  BY <1>5, TearIsTheEnd
<1> QED BY <1>1, <1>2, <1>3, <1>4, <1>5, LogStep

LEMMA StableStep ==
  ASSUME [Next]_vars
  PROVE  \/ UNCHANGED stable /\ ~PowerLoss
         \/ ~PowerLoss /\ UNCHANGED file /\ stable' = Len(file)
         \/ PowerLoss /\ file' \in Survivors(file, stable) /\ stable' = Len(file')
<1>1. PowerLoss => file' \in Survivors(file, stable) /\ stable' = Len(file')
  BY DEF PowerLoss
<1>2. ASSUME NEW s \in Server, Boot(s) \/ Kill(s) PROVE UNCHANGED stable
  BY <1>2 DEF Boot, Open, Replay, Kill
<1>3. ASSUME NEW r \in Req, Submit(r) PROVE UNCHANGED stable
  BY <1>3 DEF Submit, Attempt, Verify, Arrive
<1>4. ASSUME NEW r \in Req, Handle(r) PROVE UNCHANGED stable \/ (UNCHANGED file /\ stable' = Len(file))
  BY <1>4 DEF Handle, Fetched, Mark, Write, WriteFails, Sync, SyncFails
<1> QED BY <1>1, <1>2, <1>3, <1>4 DEF Next, vars

\* What is on disk stays there, and a replay finds it.
LEMMA DurableKept ==
  ASSUME TypeOK, AtWork, OneProcess, FileShape, IntactWrites, [Next]_vars
  PROVE  Durable \subseteq Durable'
<1>0. file \in Seq(Token) /\ Len(file) \in Nat /\ stable \in 0..Len(file)
  BY DEF TypeOK
<1>1. Cut(file, Len(file)) = file
  BY <1>0 DEF Cut
<1>2. \A i \in 1..(Len(file) - 1) : file[i] \in Pair => file[i+1] = NL
  BY DEF FileShape
<1>3. CASE UNCHANGED stable /\ ~PowerLoss
  BY <1>0, <1>3, Growth, CutSame DEF Durable
<1>4. CASE UNCHANGED file /\ stable' = Len(file)
  <2>1. Durable' = Readable(file)
    BY <1>1, <1>4 DEF Durable
  <2>2. Extends(Cut(file, stable), file)
    BY <1>0, CutExtends
  <2>3. Len(file) = stable \/ stable = 0 \/ file[stable] \notin Pair \/ file[stable+1] = NL
    BY <1>0, <1>2
  <2> QED BY <1>0, <2>1, <2>2, <2>3, CutKept DEF Durable
<1>5. CASE PowerLoss /\ file' \in Survivors(file, stable) /\ stable' = Len(file')
  <2>1. file' \in Seq(Token)
    BY <1>0, <1>5, SurvivorShape
  <2>2. Durable' = Readable(file')
    <3>1. Cut(file', Len(file')) = file'
      BY <2>1 DEF Cut
    <3> QED BY <1>5, <3>1 DEF Durable
  <2>3. PICK k \in stable..Len(file) :
          /\ Extends(Cut(file, k), file')
          /\ \/ file' = Cut(file, k)
             \/ k # Len(file) /\ file[k+1] # NL /\ file' = Append(Cut(file, k), Frag)
    BY <1>0, <1>5, SurvivorShape
  <2>4. k \in 0..Len(file)
    BY <1>0, <2>3
  <2>5. /\ Cut(file, k) \in Seq(Token) /\ Len(Cut(file, k)) = k
        /\ \A i \in 1..k : Cut(file, k)[i] = file[i]
    BY <1>0, <2>4, CutExtends DEF Extends
  <2>6. /\ Cut(file, stable) \in Seq(Token) /\ Len(Cut(file, stable)) = stable
        /\ \A i \in 1..stable : Cut(file, stable)[i] = file[i]
    BY <1>0, CutExtends DEF Extends
  <2>7. Extends(Cut(file, stable), file')
    BY <1>0, <2>3, <2>5, <2>6 DEF Extends
  <2>8. k # stable => file'[stable+1] = file[stable+1]
    BY <1>0, <2>3, <2>5 DEF Extends
  <2>9. Len(file') = stable \/ stable = 0 \/ file[stable] \notin Pair \/ file'[stable+1] = NL
    BY <1>0, <1>2, <2>3, <2>5, <2>8
  <2> QED BY <1>0, <2>2, <2>7, <2>9, CutKept DEF Durable
<1> QED BY <1>3, <1>4, <1>5, StableStep

-----------------------------------------------------------------------------
LEMMA LoggingStep ==
  TypeOK /\ AtWork /\ OneProcess /\ FileShape /\ Logging /\ [Next]_vars => Logging'
<1> SUFFICES ASSUME TypeOK, AtWork, OneProcess, FileShape, Logging, [Next]_vars PROVE Logging'
  OBVIOUS
<1>1. ASSUME NEW r \in Req
      PROVE  /\ logged'[r] => pc'[r] = "correct"
             /\ logged'[r] => \/ logged[r] /\ pair'[r] = pair[r]
                              \/ Sync(r)
             /\ pc'[r] = "sync" => \/ pc[r] = "sync" /\ pair'[r] = pair[r] /\ ~PowerLoss
                                   \/ Write(r)
  <2>1. ASSUME NEW q \in Req, Submit(q)
        PROVE  /\ UNCHANGED logged
               /\ pc[r] = "correct" \/ pc[r] = "sync" \/ pc'[r] = "sync" =>
                    pc'[r] = pc[r] /\ pair'[r] = pair[r]
    BY <2>1 DEF TypeOK, Submit, Attempt, Verify, Arrive, Goto
  <2>2. ASSUME NEW q \in Req, Fetched(q) \/ Mark(q) \/ WriteFails(q) \/ SyncFails(q)
        PROVE  /\ UNCHANGED <<logged, pair>>
               /\ pc[r] = "correct" => pc'[r] = "correct"
               /\ pc'[r] = "sync" => pc[r] = "sync"
    BY <2>2 DEF TypeOK, Fetched, Mark, WriteFails, SyncFails, Goto
  <2>3. ASSUME NEW q \in Req, Write(q)
        PROVE  /\ UNCHANGED <<logged, pair>>
               /\ pc[r] = "correct" => pc'[r] = "correct"
               /\ pc'[r] = "sync" => pc[r] = "sync" \/ Write(r)
    BY <2>3 DEF TypeOK, Write, Goto
  <2>4. ASSUME NEW q \in Req, Sync(q)
        PROVE  /\ UNCHANGED pair
               /\ logged'[r] => logged[r] \/ Sync(r)
               /\ pc[r] = "correct" \/ Sync(r) => pc'[r] = "correct"
               /\ pc'[r] = "sync" => pc[r] = "sync"
    BY <2>4 DEF TypeOK, Sync, Goto
  <2>5. ASSUME NEW S \in SUBSET Server, Fall(S)
        PROVE  /\ UNCHANGED <<logged, pair>>
               /\ pc[r] = "correct" => pc'[r] = "correct"
               /\ pc'[r] = "sync" => pc[r] = "sync" /\ at[r] \notin S
    BY <2>5 DEF TypeOK, Fall, Busy
  <2>6. ASSUME (\E s \in Server : Boot(s)) \/ UNCHANGED vars PROVE UNCHANGED reqVars
    BY <2>6 DEF Boot, Open, Replay, vars
  <2>7. pc[r] = "sync" => at[r] \in Server
    BY DEF AtWork, Busy
  <2>8. PowerLoss => pc'[r] # "sync" /\ (pc[r] = "correct" => pc'[r] = "correct")
                     /\ UNCHANGED <<logged, pair>>
    BY <2>5, <2>7 DEF PowerLoss
  <2>9. (\E q \in Req : Submit(q) \/ Handle(q)) =>
           /\ logged'[r] => \/ logged[r] /\ pair'[r] = pair[r]
                            \/ Sync(r)
           /\ pc[r] = "correct" \/ Sync(r) => pc'[r] = "correct"
           /\ pc'[r] = "sync" => (pc[r] = "sync" /\ pair'[r] = pair[r]) \/ Write(r)
    <3>1. Sync(r) => pc'[r] = "correct"
      BY DEF TypeOK, Sync, Goto
    <3>2. logged[r] => pc[r] = "correct"
      BY DEF Logging
    <3> QED BY <2>1, <2>2, <2>3, <2>4, <3>1, <3>2 DEF Handle
  <2>10. ASSUME NEW s \in Server, Kill(s)
         PROVE  /\ UNCHANGED <<logged, pair>>
                /\ pc[r] = "correct" => pc'[r] = "correct"
                /\ pc'[r] = "sync" => pc[r] = "sync"
    BY <2>5, <2>10 DEF Kill
  <2>11. logged[r] => pc[r] = "correct"
    BY DEF Logging
  <2> QED BY <2>6, <2>8, <2>9, <2>10, <2>11 DEF Next, reqVars
<1>2. ASSUME IntactWrites, NEW r \in Req, pc'[r] = "sync" PROVE pair'[r] \in Readable(file')
  <2>1. CASE Write(r)
    <3>1. pair[r] \in Pair /\ Terminated(file)
      BY <1>2, <2>1 DEF Write, AtWork, Busy, FileShape
    <3> QED BY <2>1, <3>1, RecordIsReadable DEF Write, TypeOK
  <2>2. CASE pc[r] = "sync" /\ pair'[r] = pair[r] /\ ~PowerLoss
    BY <1>2, <2>2, NothingHidden DEF Logging
  <2> QED BY <1>1, <1>2, <2>1, <2>2
<1>3. ASSUME IntactWrites, NEW r \in Req, logged'[r] PROVE pair'[r] \in Durable'
  <2>1. CASE Sync(r)
    <3>1. /\ pair'[r] = pair[r] /\ pc[r] = "sync"
          /\ file' = file /\ stable' = Len(file)
      BY <2>1 DEF Sync
    <3>2. Cut(file, Len(file)) = file
      BY DEF TypeOK, Cut
    <3> QED BY <1>3, <3>1, <3>2 DEF Logging, Durable
  <2>2. CASE logged[r] /\ pair'[r] = pair[r]
    BY <1>3, <2>2, DurableKept DEF Logging
  <2> QED BY <1>1, <1>3, <2>1, <2>2
<1>4. IntactWrites' <=> IntactWrites
  BY FaultsFixed
<1> QED BY <1>1, <1>2, <1>3, <1>4 DEF Logging

\* Memory never runs ahead of the log but for a handler about to append.
LEMMA MemoryStep ==
  TypeOK /\ AtWork /\ OneProcess /\ FileShape /\ MemoryIsJournalled /\ [Next]_vars
    => MemoryIsJournalled'
<1> SUFFICES ASSUME TypeOK, AtWork, OneProcess, FileShape, MemoryIsJournalled, [Next]_vars
             PROVE  MemoryIsJournalled'
  OBVIOUS
<1> SUFFICES ASSUME IntactWrites, NEW s \in Server, NEW p \in solves'[s]
             PROVE  \/ p \in Readable(file')
                    \/ \E r \in Req : pc'[r] = "append" /\ at'[r] = s /\ pair'[r] = p
  BY FaultsFixed DEF MemoryIsJournalled
<1>1. ASSUME p \in solves[s], ~PowerLoss,
             \A r \in Req : pc[r] = "append" /\ at[r] = s /\ pair[r] = p =>
               \/ pc'[r] = "append" /\ at'[r] = s /\ pair'[r] = p
               \/ Write(r)
      PROVE  \/ p \in Readable(file')
             \/ \E r \in Req : pc'[r] = "append" /\ at'[r] = s /\ pair'[r] = p
  <2>1. CASE p \in Readable(file)
    BY <1>1, <2>1, NothingHidden
  <2>2. ASSUME NEW r \in Req, Write(r), pair[r] = p PROVE p \in Readable(file')
    <3>1. pair[r] \in Pair /\ Terminated(file) /\ file' = file \o <<pair[r], NL>>
      BY <2>2 DEF Write, AtWork, Busy, FileShape
    <3> QED BY <2>2, <3>1, RecordIsReadable DEF TypeOK
  <2> QED BY <1>1, <2>1, <2>2 DEF MemoryIsJournalled
<1>2. ASSUME NEW t \in Server, Open(t)
      PROVE  UNCHANGED <<solves, reqVars>> /\ ~PowerLoss
  <2>1. UNCHANGED <<solves, reqVars>> /\ UNCHANGED crashes /\ crashes \in Nat
    BY <1>2, BoundAssumption DEF Open, TypeOK
  <2> QED BY <2>1 DEF PowerLoss, Fall
<1>3. ASSUME NEW t \in Server, Replay(t)
      PROVE  \/ p \in Readable(file')
             \/ \E r \in Req : pc'[r] = "append" /\ at'[r] = s /\ pair'[r] = p
  <2>1. UNCHANGED <<file, reqVars>>
    BY <1>3 DEF Replay
  <2>2. CASE t # s
    <3>1. solves'[s] = solves[s]
      BY <1>3, <2>2 DEF Replay
    <3> QED BY <2>1, <3>1 DEF MemoryIsJournalled, reqVars
  <2>3. CASE t = s
    <3>1. PICK n \in 0..Len(file) : solves' = [solves EXCEPT ![s] = Readable(Cut(file, n))]
      <4>1. (IF "readfail" \in faults THEN 0..Len(file) ELSE {Len(file)}) \subseteq 0..Len(file)
        BY DEF TypeOK
      <4> QED BY <1>3, <2>3, <4>1 DEF Replay
    <3>2. p \in Readable(Cut(file, n))
      BY <3>1 DEF TypeOK
    <3>3. Len(file) = n \/ n = 0 \/ file[n] \notin Pair \/ file[n+1] = NL
      BY <3>1 DEF FileShape, TypeOK
    <3>4. Readable(Cut(file, n)) \subseteq Readable(file)
      BY <3>1, <3>3, CutExtends, CutKept DEF TypeOK
    <3> QED BY <2>1, <3>2, <3>4
  <2> QED BY <2>2, <2>3
<1>4. ASSUME NEW q \in Req, Submit(q) \/ Fetched(q) \/ Write(q) \/ Sync(q) \/ SyncFails(q)
      PROVE  /\ UNCHANGED solves
             /\ \A r \in Req : pc[r] = "append" =>
                  (pc'[r] = "append" /\ at'[r] = at[r] /\ pair'[r] = pair[r]) \/ Write(r)
  BY <1>4 DEF TypeOK, Submit, Attempt, Verify, Arrive, Fetched, Write, Sync, SyncFails, Goto
<1>5. ASSUME NEW q \in Req, Mark(q)
      PROVE  \/ p \in Readable(file')
             \/ \E r \in Req : pc'[r] = "append" /\ at'[r] = s /\ pair'[r] = p
  <2>1. /\ UNCHANGED <<file, at, pair>>
        /\ \A r \in Req : pc[r] = "append" => pc'[r] = "append"
    BY <1>5 DEF Mark, Goto, TypeOK
  <2>2. CASE p \in solves[s]
    BY <2>1, <2>2 DEF MemoryIsJournalled
  <2>3. CASE p \notin solves[s]
    BY <1>5, <2>1, <2>3 DEF Mark, Goto, TypeOK
  <2> QED BY <2>2, <2>3
<1>6. ASSUME NEW q \in Req, WriteFails(q) PROVE FALSE
  BY <1>6 DEF WriteFails, IntactWrites
<1>7. ASSUME NEW S \in SUBSET Server, Fall(S)
      PROVE  /\ s \notin S /\ p \in solves[s]
             /\ UNCHANGED <<at, pair>>
             /\ \A r \in Req : pc[r] = "append" /\ at[r] = s => pc'[r] = "append"
  BY <1>7 DEF Fall, TypeOK
<1>8. ~PowerLoss
  BY <1>7 DEF PowerLoss
<1>9. ASSUME NEW t \in Server, Kill(t)
      PROVE  \/ p \in Readable(file')
             \/ \E r \in Req : pc'[r] = "append" /\ at'[r] = s /\ pair'[r] = p
  BY <1>1, <1>7, <1>8, <1>9 DEF Kill
<1>10. CASE UNCHANGED vars
  BY <1>10 DEF vars, reqVars, MemoryIsJournalled
<1>11. ASSUME NEW q \in Req, Submit(q) \/ Handle(q)
       PROVE  \/ p \in Readable(file')
              \/ \E r \in Req : pc'[r] = "append" /\ at'[r] = s /\ pair'[r] = p
  BY <1>1, <1>4, <1>5, <1>6, <1>8, <1>11 DEF Handle
<1>12. ASSUME NEW t \in Server, Boot(t)
       PROVE  \/ p \in Readable(file')
              \/ \E r \in Req : pc'[r] = "append" /\ at'[r] = s /\ pair'[r] = p
  BY <1>1, <1>2, <1>3, <1>12 DEF Boot, reqVars
<1> QED BY <1>8, <1>9, <1>10, <1>11, <1>12 DEF Next

\* The mark decides, under Store.mu, which one request appends a pair.
LEMMA AppendingStep ==
  TypeOK /\ AtWork /\ OneProcess /\ Appending /\ [Next]_vars => Appending'
<1> SUFFICES ASSUME TypeOK, AtWork, OneProcess, Appending, [Next]_vars PROVE Appending'
  OBVIOUS
<1> DEFINE Keeps(l) == \A r \in Req : pc'[r] = l => pc[r] = l /\ at'[r] = at[r] /\ pair'[r] = pair[r]
\* Nobody is about to append who was not before, and memory keeps its pairs.
<1>1. ASSUME Keeps("append"),
             \A r \in Req : pc'[r] = "sync" =>
               pc[r] \in {"append", "sync"} /\ at'[r] = at[r] /\ pair'[r] = pair[r],
             \A r \in Req : pc'[r] \in {"append", "sync"} => solves[at[r]] \subseteq solves'[at[r]]
      PROVE  Appending'
  BY <1>1 DEF Appending
<1>2. ASSUME NEW s \in Server, Open(s) PROVE Appending'
  BY <1>1, <1>2 DEF Open, reqVars
<1>3. ASSUME NEW s \in Server, Replay(s) PROVE Appending'
  <2>1. UNCHANGED reqVars /\ \A t \in Server : t # s => solves'[t] = solves[t]
    BY <1>3 DEF Replay
  <2>2. \A r \in Req : pc[r] \in {"append", "sync"} => at[r] \in Server /\ at[r] # s
    BY <1>3 DEF Replay, AtWork, Busy
  <2> QED BY <1>1, <2>1, <2>2 DEF reqVars
<1>4. ASSUME NEW q \in Req, Submit(q) PROVE Appending'
  <2>1. UNCHANGED solves
    BY <1>4 DEF Submit, Attempt, Verify, Arrive
  <2>2. Keeps("append") /\ Keeps("sync")
    BY <1>4 DEF Submit, Attempt, Verify, Arrive, Goto, TypeOK
  <2> QED BY <1>1, <2>1, <2>2
<1>5. ASSUME NEW q \in Req, Fetched(q) \/ Write(q) \/ WriteFails(q) \/ Sync(q) \/ SyncFails(q)
      PROVE  Appending'
  <2>1. UNCHANGED <<solves, at, pair>>
    BY <1>5 DEF Fetched, Write, WriteFails, Sync, SyncFails
  <2>2. \A r \in Req : /\ pc'[r] = "append" => pc[r] = "append"
                       /\ pc'[r] = "sync" => pc[r] \in {"append", "sync"}
    BY <1>5 DEF Fetched, Write, WriteFails, Sync, SyncFails, Goto, TypeOK
  <2> QED BY <1>1, <2>1, <2>2
<1>6. ASSUME NEW q \in Req, Mark(q) PROVE Appending'
  <2>1. /\ UNCHANGED <<at, pair>> /\ at[q] \in Server
        /\ solves' = [solves EXCEPT ![at[q]] = @ \union {pair[q]}]
        /\ pc' = [pc EXCEPT ![q] = IF pair[q] \in solves[at[q]] THEN "correct" ELSE "append"]
    BY <1>6 DEF Mark, Goto, AtWork, Busy
  <2>2. \A r \in Req : pc'[r] \in {"append", "sync"} => pair[r] \in solves'[at[r]]
    BY <2>1 DEF Appending, TypeOK, AtWork, Busy
  <2>3. \A r \in Req : r # q => pc'[r] = pc[r]
    BY <2>1 DEF TypeOK
  <2>4. pc'[q] = "append" => \A r \in Req : pc[r] = "append" /\ at[r] = at[q] => pair[r] # pair[q]
    BY <2>1 DEF Appending, TypeOK
  <2> QED BY <2>1, <2>2, <2>3, <2>4 DEF Appending
<1>7. ASSUME NEW S \in SUBSET Server, Fall(S) PROVE Appending'
  <2>1. UNCHANGED <<at, pair>>
    BY <1>7 DEF Fall
  <2>2. \A r \in Req : pc'[r] \in {"append", "sync"} =>
          pc'[r] = pc[r] /\ solves'[at[r]] = solves[at[r]]
    BY <1>7 DEF Fall, TypeOK, AtWork, Busy
  <2> QED BY <1>1, <2>1, <2>2
<1>8. CASE UNCHANGED vars
  BY <1>1, <1>8 DEF vars, reqVars
<1>9. (\E s \in Server : Kill(s)) \/ PowerLoss => Appending'
  <2> HIDE DEF Keeps
  <2> QED BY <1>7 DEF Kill, PowerLoss
<1>10. (\E r \in Req : Submit(r) \/ Handle(r)) => Appending'
  BY <1>4, <1>5, <1>6 DEF Handle
<1> QED BY <1>2, <1>3, <1>8, <1>9, <1>10 DEF Next, Boot

\* A request that has appended never moves to another process or solve.
LEMMA AppendedStays ==
  ASSUME TypeOK, [Next]_vars, NEW s \in Server, NEW p, AppendedElsewhere(s, p)
  PROVE  AppendedElsewhere(s, p)'
<1> DEFINE Past(r) == pair[r] = p /\ at[r] \in Server \ {s} /\ pc[r] \in {"sync", "correct", "lost"}
<1>1. PICK r \in Req : Past(r)
  BY DEF AppendedElsewhere
<1>2. ASSUME NEW q \in Req, Submit(q) PROVE Past(r)'
  BY <1>1, <1>2 DEF Submit, Attempt, Verify, Arrive, Goto, TypeOK
<1>3. ASSUME NEW q \in Req, Handle(q) PROVE Past(r)'
  BY <1>1, <1>3 DEF Handle, Fetched, Mark, Write, WriteFails, Sync, SyncFails, Goto, TypeOK
<1>4. ASSUME NEW t \in Server, Boot(t) PROVE Past(r)'
  BY <1>1, <1>4 DEF Boot, Open, Replay, reqVars
<1>5. ASSUME NEW S \in SUBSET Server, Fall(S) PROVE Past(r)'
  BY <1>1, <1>5 DEF Fall, TypeOK
<1>6. ASSUME (\E t \in Server : Kill(t)) \/ PowerLoss PROVE Past(r)'
  BY <1>5, <1>6 DEF Kill, PowerLoss
<1>7. ASSUME UNCHANGED vars PROVE Past(r)'
  BY <1>1, <1>7 DEF vars, reqVars
<1>8. Past(r)'
  BY <1>2, <1>3, <1>4, <1>6, <1>7 DEF Next
<1> QED BY <1>8 DEF AppendedElsewhere

\* What a serving process replayed or appended it holds in memory; what else is
\* in the log is another one's.
LEMMA BoardStep ==
  TypeOK /\ AtWork /\ OneProcess /\ Appending /\ BoardShowsLog /\ [Next]_vars => BoardShowsLog'
<1> SUFFICES ASSUME TypeOK, AtWork, OneProcess, Appending, BoardShowsLog, [Next]_vars
             PROVE  BoardShowsLog'
  OBVIOUS
<1> SUFFICES ASSUME "readfail" \notin faults, NEW s \in Server, status'[s] = "up",
                    NEW p \in Readable(file') \ solves'[s]
             PROVE  "overlap" \in faults /\ AppendedElsewhere(s, p)'
  BY FaultsFixed DEF BoardShowsLog
<1>1. ASSUME NEW t \in Server, Replay(t), t = s PROVE FALSE
  <2>1. file' = file /\ solves' = [solves EXCEPT ![s] = Readable(Cut(file, Len(file)))]
    BY <1>1 DEF Replay
  <2>2. Cut(file, Len(file)) = file
    BY DEF Cut, TypeOK
  <2> QED BY <2>1, <2>2 DEF TypeOK
\* Any other step: the process was serving before and forgets nothing.
<1>2. ASSUME status[s] = "up", solves[s] \subseteq solves'[s], ~PowerLoss
      PROVE  "overlap" \in faults /\ AppendedElsewhere(s, p)'
  <2>0. Extends(file, file') /\ p \notin solves[s]
    BY <1>2, Growth
  <2>1. CASE p \in Readable(file)
    <3>1. "overlap" \in faults /\ AppendedElsewhere(s, p)
      BY <1>2, <2>0, <2>1 DEF BoardShowsLog
    <3> QED BY <3>1, AppendedStays
  <2>2. CASE \A i \in (Len(file)+1)..Len(file') : file'[i] \notin Pair
    <3>1. Readable(file') \subseteq Readable(file) \union {}
      BY <2>0, <2>2, ReadableGrowsBy
    <3> QED BY <2>1, <3>1
  <2>3. ASSUME NEW r \in Req, pc[r] = "append", p \notin Readable(file),
               Write(r) \/ WriteFails(r) \/ \E t \in Server : Kill(t) /\ at[r] = t,
               \A i \in (Len(file)+1)..Len(file') : file'[i] \in Pair => file'[i] = pair[r]
        PROVE  "overlap" \in faults /\ AppendedElsewhere(s, p)'
    <3>1. at[r] \in Server /\ status[at[r]] = "up"
      BY <2>3 DEF AtWork, Busy
    <3>2. Readable(file') \subseteq Readable(file) \union {pair[r]}
      BY <2>0, <2>3, ReadableGrowsBy
    <3>3. p = pair[r]
      BY <2>3, <3>2
    <3>4. at[r] # s
      BY <2>0, <2>3, <3>3 DEF Appending
    <3>5. "overlap" \in faults
      BY <1>2, <3>1, <3>4 DEF OneProcess
    <3>6. pair'[r] = pair[r] /\ at'[r] = at[r] /\ pc'[r] \in {"sync", "correct", "lost"}
      <4>1. CASE Write(r) \/ WriteFails(r)
        BY <4>1 DEF Write, WriteFails, Goto, TypeOK
      <4>2. CASE \E t \in Server : Kill(t) /\ at[r] = t
        BY <2>3, <4>2 DEF Kill, Fall, Busy
      <4> QED BY <2>3, <4>1, <4>2
    <3> QED BY <3>1, <3>3, <3>4, <3>5, <3>6 DEF AppendedElsewhere
  <2> QED BY <1>2, <2>1, <2>2, <2>3, Growth
<1>3. ASSUME NEW t \in Server, Open(t) PROVE status[s] = "up" /\ UNCHANGED solves
  BY <1>3 DEF Open, TypeOK
<1>4. ASSUME NEW t \in Server, Replay(t), t # s PROVE status[s] = "up" /\ solves'[s] = solves[s]
  BY <1>4 DEF Replay, TypeOK
<1>5. ASSUME NEW r \in Req, Submit(r) \/ Handle(r) PROVE status[s] = "up" /\ solves[s] \subseteq solves'[s]
  <2>1. CASE Mark(r)
    BY <2>1 DEF Mark, TypeOK
  <2>2. CASE ~Mark(r)
    BY <1>5, <2>2 DEF Submit, Attempt, Verify, Arrive, Handle, Fetched, Write, WriteFails, Sync, SyncFails
  <2> QED BY <2>1, <2>2
<1>6. ASSUME NEW S \in SUBSET Server, Fall(S) PROVE s \notin S /\ status[s] = "up" /\ solves'[s] = solves[s]
  BY <1>6 DEF Fall, TypeOK
<1>7. ~PowerLoss
  BY <1>6 DEF PowerLoss
<1>8. ASSUME NEW t \in Server, Kill(t) PROVE status[s] = "up" /\ solves'[s] = solves[s]
  BY <1>6, <1>8 DEF Kill
<1>9. CASE UNCHANGED vars
  BY <1>2, <1>7, <1>9 DEF vars
<1> QED BY <1>1, <1>2, <1>3, <1>4, <1>5, <1>7, <1>8, <1>9 DEF Next, Boot

\* A record is appended only when its solve was readable nowhere.
LEMMA FreshStep ==
  TypeOK /\ AtWork /\ OneProcess /\ Appending /\ BoardShowsLog /\ Fresh /\ [Next]_vars => Fresh'
<1> SUFFICES ASSUME TypeOK, AtWork, OneProcess, Appending, BoardShowsLog, Fresh, [Next]_vars
             PROVE  Fresh'
  OBVIOUS
<1> SUFFICES ASSUME FullView
             PROVE  /\ \A r \in Req : pc'[r] = "append" => pair'[r] \notin Readable(file')
                    /\ \A i, j \in 1..Len(file') : i < j /\ WholeLine(file', i) => file'[j] # file'[i]
  BY FaultsFixed DEF Fresh
<1>0. file \in Seq(Token) /\ Len(file) \in Nat /\ stable \in 0..Len(file)
  BY DEF TypeOK
\* All requests are at one process, and a kill or a power loss ends it.
<1>1. \A q, r \in Req : pc[q] \in Busy /\ pc[r] \in Busy => at[q] = at[r]
  BY DEF AtWork, OneProcess, FullView
<1>2. ASSUME NEW r \in Req, pc'[r] = "append"
      PROVE  /\ ~PowerLoss
             /\ ~ \E s \in Server, q \in Req : pc[q] = "append" /\ Kill(s) /\ at[q] = s
             /\ \/ pc[r] = "append" /\ pair'[r] = pair[r] /\ ~Write(r) /\ ~WriteFails(r)
                \/ Mark(r)
  <2>1. ASSUME NEW S \in SUBSET Server, Fall(S)
        PROVE  pc[r] = "append" /\ pair'[r] = pair[r] /\ at[r] \in Server /\ at[r] \notin S
    BY <1>2, <2>1 DEF Fall, TypeOK, AtWork, Busy
  <2>2. ~PowerLoss
    BY <2>1 DEF PowerLoss
  <2>3. ASSUME NEW s \in Server, Kill(s)
        PROVE  pc[r] = "append" /\ pair'[r] = pair[r] /\ at[r] # s
    BY <2>1, <2>3 DEF Kill
  <2>4. ~ \E s \in Server, q \in Req : pc[q] = "append" /\ Kill(s) /\ at[q] = s
    BY <1>1, <2>3 DEF Busy
  <2>5. ~Write(r) /\ ~WriteFails(r)
    BY <1>2 DEF Write, WriteFails, Goto, TypeOK
  <2>6. ASSUME NEW q \in Req, Submit(q) \/ Handle(q), ~Mark(r)
        PROVE  pc[r] = "append" /\ pair'[r] = pair[r]
    BY <1>2, <2>6 DEF Submit, Attempt, Verify, Arrive, Handle, Fetched, Mark, Write, WriteFails,
         Sync, SyncFails, Goto, TypeOK
  <2>7. ASSUME (\E s \in Server : Boot(s)) \/ UNCHANGED vars PROVE pc[r] = "append" /\ pair'[r] = pair[r]
    BY <1>2, <2>7 DEF Boot, Open, Replay, vars, reqVars
  <2> QED BY <2>2, <2>3, <2>4, <2>5, <2>6, <2>7 DEF Next
<1>3. ASSUME NEW r \in Req, pc'[r] = "append" PROVE pair'[r] \notin Readable(file')
  <2>1. ~PowerLoss /\ Extends(file, file')
    BY <1>2, <1>3, Growth
  <2>2. CASE Mark(r)
    <3>1. /\ UNCHANGED <<file, pair>> /\ pair[r] \notin solves[at[r]]
          /\ at[r] \in Server /\ status[at[r]] = "up"
      BY <1>3, <2>2 DEF Mark, Goto, TypeOK, AtWork, Busy
    <3> QED BY <1>0, <3>1 DEF BoardShowsLog, FullView
  <2>3. CASE pc[r] = "append" /\ pair'[r] = pair[r] /\ ~Write(r) /\ ~WriteFails(r)
    <3>1. pair[r] \notin Readable(file)
      BY <2>3 DEF Fresh
    <3>2. CASE \A i \in (Len(file)+1)..Len(file') : file'[i] \notin Pair
      <4>1. Readable(file') \subseteq Readable(file) \union {}
        BY <2>1, <3>2, ReadableGrowsBy
      <4> QED BY <2>3, <3>1, <4>1
    <3>3. ASSUME NEW q \in Req, pc[q] = "append", Write(q) \/ WriteFails(q),
                 \A i \in (Len(file)+1)..Len(file') : file'[i] \in Pair => file'[i] = pair[q]
          PROVE  pair[r] \notin Readable(file')
      <4>1. q # r /\ at[q] = at[r]
        BY <1>1, <2>3, <3>3 DEF Busy
      <4>2. pair[q] # pair[r]
        BY <2>3, <3>3, <4>1 DEF Appending
      <4>3. Readable(file') \subseteq Readable(file) \union {pair[q]}
        BY <2>1, <3>3, ReadableGrowsBy
      <4> QED BY <3>1, <4>2, <4>3
    <3> QED BY <1>2, <1>3, <2>1, <2>3, <3>2, <3>3, Growth
  <2> QED BY <1>2, <1>3, <2>2, <2>3
<1>4. ASSUME NEW i \in 1..Len(file'), NEW j \in 1..Len(file'), i < j, WholeLine(file', i)
      PROVE  file'[j] # file'[i]
  <2>1. CASE ~PowerLoss
    <3>1. Extends(file, file') /\ Len(file') \in Nat
      BY <2>1, Growth DEF Extends
    <3>2. CASE j \in 1..Len(file)
      <4>1. WholeLine(file, i)
        BY <1>0, <1>4, <3>1, <3>2, NothingRevived
      <4> QED BY <1>0, <1>4, <3>1, <3>2, <4>1 DEF Fresh, Extends
    <3>3. CASE j \notin 1..Len(file) /\ file'[j] \in Pair
      <4>1. PICK r \in Req :
              /\ pc[r] = "append"
              /\ Write(r) \/ WriteFails(r) \/ \E s \in Server : Kill(s) /\ at[r] = s
              /\ \A k \in (Len(file)+1)..Len(file') : file'[k] \in Pair => file'[k] = pair[r]
        BY <1>0, <1>4, <2>1, <3>1, <3>3, Growth
      <4>2. file'[j] = pair[r] /\ pair[r] \notin Readable(file)
        BY <1>0, <1>4, <3>1, <3>3, <4>1 DEF Fresh
      <4>3. CASE i \in 1..Len(file)
        <5>1. WholeLine(file, i) /\ file'[i] = file[i]
          BY <1>4, <3>1, <4>3, NothingRevived DEF Extends
        <5> QED BY <4>2, <4>3, <5>1 DEF Readable, WholeLine
      <4>4. CASE i \notin 1..Len(file)
        <5>1. \/ Len(file') <= Len(file) + 1
              \/ file'[Len(file) + 2] = NL /\ Len(file') = Len(file) + 2
          <6>1. CASE UNCHANGED file
            BY <1>0, <6>1
          <6>2. CASE file' = Append(file, NL)
            BY <1>0, <6>2
          <6>3. ASSUME NEW q \in Req, Write(q), file' = file \o <<pair[q], NL>>
                PROVE  file'[Len(file) + 2] = NL /\ Len(file') = Len(file) + 2
            <7>1. pair[q] \in Pair
              BY <6>3 DEF Write, AtWork, Busy
            <7>2. <<pair[q], NL>> \in Seq(Token)
              BY <7>1 DEF Token
            <7> QED BY <1>0, <6>3, <7>2
          <6>4. ASSUME NEW q \in Req, pair[q] \in Pair, NEW t \in Torn(pair[q]), file' = file \o t
                PROVE  Len(file') <= Len(file) + 1
            <7>1. t \in Seq(Token) /\ Len(t) <= 1
              BY <6>4, TornIsText
            <7> QED BY <1>0, <6>4, <7>1
          <6> QED BY <2>1, <6>1, <6>2, <6>3, <6>4, LogStep
        <5> QED BY <1>0, <1>4, <3>1, <3>3, <4>4, <5>1, TokenAssumption
      <4> QED BY <4>3, <4>4
    <3> QED BY <1>4, <3>2, <3>3 DEF WholeLine
  <2>2. CASE PowerLoss
    <3>1. PICK k \in stable..Len(file) :
            file' = Cut(file, k) \/ (k # Len(file) /\ file' = Append(Cut(file, k), Frag))
      BY <1>0, <2>2, SurvivorShape DEF PowerLoss
    <3>2. k \in 0..Len(file)
      BY <1>0, <3>1
    <3>3. /\ Cut(file, k) \in Seq(Token) /\ Len(Cut(file, k)) = k
          /\ \A n \in 1..k : Cut(file, k)[n] = file[n]
      BY <1>0, <3>2, CutExtends DEF Extends
    <3>4. Len(file') \in {k, k + 1} /\ (\A n \in 1..k : file'[n] = file[n])
      BY <3>1, <3>2, <3>3, SMTT(30)
    <3>5. Len(file') = k + 1 => file'[k+1] = Frag
      BY <3>1, <3>2, <3>3
    <3>6. i \in 1..k
      BY <1>4, <3>2, <3>4
    <3>7. j \notin 1..k => file'[j] = Frag
      BY <1>4, <3>2, <3>4, <3>5
    <3>8. ASSUME j \in 1..k PROVE WholeLine(file, i)
      <4>1. i < k /\ i # Len(file') /\ i + 1 \in 1..k /\ i \in Nat /\ k \in Nat
        BY <1>4, <3>2, <3>4, <3>6, <3>8
      <4>2. file'[i] = file[i] /\ file'[i+1] = file[i+1] /\ (i # 1 => file'[i-1] = file[i-1])
        BY <3>4, <3>6, <4>1
      <4> QED BY <1>4, <4>1, <4>2 DEF WholeLine
    <3> QED BY <1>0, <1>4, <3>2, <3>4, <3>6, <3>7, <3>8, TokenAssumption DEF Fresh, WholeLine
  <2> QED BY <2>1, <2>2
<1> QED BY <1>3, <1>4

-----------------------------------------------------------------------------
LEMMA StepIInv == IInv /\ [Next]_vars => IInv'
BY TypeStep, AtWorkStep, OneProcessStep, EarnedStep, FileShapeStep, LoggingStep,
   MemoryStep, AppendingStep, BoardStep, FreshStep DEF IInv

\* The invariant that carries the theorems below holds in every behaviour.
THEOREM Inductive == Spec => []IInv
BY InitIInv, StepIInv, PTL DEF Spec

\* Type correctness.
THEOREM TypeCorrect == Spec => []TypeOK
<1>1. IInv => TypeOK
  BY DEF IInv
<1> QED BY <1>1, Inductive, PTL

\* No scoreboard shows and no log yields a solve nobody earned, whatever fails
\* or crashes, however many processes share the log.
THEOREM NoPhantoms == Spec => []NoPhantomSolve
<1>1. IInv => NoPhantomSolve
  BY DEF IInv, Earned, NoPhantomSolve, Readable, WholeLine
<1> QED BY <1>1, Inductive, PTL

\* A solve whose Append returned is on disk and readable ever after
\* (journal.go:91-106), where no write stops short under a living process.
THEOREM LoggedSolvesAreDurable == Spec => []LoggedIsDurable
<1>1. IInv => LoggedIsDurable
  BY DEF IInv, Logging, LoggedIsDurable, LoggedSurvives
<1> QED BY <1>1, Inductive, PTL

\* What a process shows is in its log or about to be appended, under the same
\* condition; also when the fsync of an append failed.
THEOREM MemoryFollowsLog == Spec => []MemoryIsJournalled
<1>1. IInv => MemoryIsJournalled
  BY DEF IInv
<1> QED BY <1>1, Inductive, PTL

\* No solve is in the log twice (store.go:157-170), where one process at a time
\* has it and read all of it.
THEOREM NoDuplicateRecords == Spec => []JournalIsASet
<1>1. IInv => JournalIsASet
  <2> SUFFICES ASSUME IInv, FullView, NEW i \in 1..Len(file), NEW j \in 1..Len(file),
                      WholeLine(file, i), WholeLine(file, j), file[i] = file[j]
               PROVE  i = j
    BY DEF JournalIsASet
  <2>1. ~(i < j) /\ ~(j < i)
    BY DEF IInv, Fresh
  <2>2. i \in Nat /\ j \in Nat
    BY DEF IInv, TypeOK
  <2> QED BY <2>1, <2>2
<1> QED BY <1>1, Inductive, PTL

\* A serving process whose replay met no read error shows the whole log, but for
\* what another one appended during a rollout (store.go:184-198).
THEOREM BoardIsComplete == Spec => []BoardShowsLog
<1>1. IInv => BoardShowsLog
  BY DEF IInv
<1> QED BY <1>1, Inductive, PTL

\* No step takes back a solve that is on disk, where no write stops short under
\* a living process: not a tear, a heal, an append or a loss of power.
THEOREM DurableForGood == Spec => DurableNeverLost
<1>1. IInv /\ [Next]_vars => (IntactWrites => Durable \subseteq Durable')
  BY DurableKept DEF IInv
<1> QED BY <1>1, Inductive, PTL DEF Spec, DurableNeverLost
=============================================================================
