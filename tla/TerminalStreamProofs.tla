------------------------ MODULE TerminalStreamProofs ------------------------
(***************************************************************************)
(* Proofs about TerminalStream, for frames, reads and a resize queue of    *)
(* any size.  Both lines, of bytes and of sizes, are sequences of pieces   *)
(* that only ever grow at the browser's end, are cut there, or move        *)
(* towards the shell; what a move does to a line is said by four lemmas    *)
(* about joining two of them.                                              *)
(***************************************************************************)
EXTENDS TerminalStream, SequenceTheorems, TLAPS

-----------------------------------------------------------------------------
(* Joining pieces, and joining lines.                                        *)

LEMMA JoinElements ==
  ASSUME NEW s \in Seq(Nat), NEW t \in Seq(Nat)
  PROVE  Elements(s \o t) = Elements(s) \union Elements(t)
<1>1. /\ Len(s \o t) = Len(s) + Len(t)
      /\ \A i \in 1..(Len(s) + Len(t)) :
           (s \o t)[i] = IF i <= Len(s) THEN s[i] ELSE t[i - Len(s)]
  BY ConcatProperties
<1>2. Len(s) \in Nat /\ Len(t) \in Nat
  OBVIOUS
<1>3. ASSUME NEW x \in Elements(s \o t) PROVE x \in Elements(s) \union Elements(t)
  <2>1. PICK i \in 1..(Len(s) + Len(t)) : x = (s \o t)[i]
    BY <1>1 DEF Elements
  <2>2. CASE i <= Len(s)
    BY <1>1, <1>2, <2>1, <2>2 DEF Elements
  <2>3. CASE ~(i <= Len(s))
    <3>1. i - Len(s) \in 1..Len(t) /\ x = t[i - Len(s)]
      BY <1>1, <1>2, <2>1, <2>3
    <3> QED BY <3>1 DEF Elements
  <2> QED BY <2>2, <2>3
<1>4. ASSUME NEW i \in 1..Len(s) PROVE s[i] \in Elements(s \o t)
  <2>1. i \in 1..Len(s \o t) /\ (s \o t)[i] = s[i]
    BY <1>1, <1>2
  <2> QED BY <2>1 DEF Elements
<1>5. ASSUME NEW i \in 1..Len(t) PROVE t[i] \in Elements(s \o t)
  <2>1. i + Len(s) \in 1..Len(s \o t) /\ (s \o t)[i + Len(s)] = t[i]
    BY <1>1, <1>2
  <2> QED BY <2>1 DEF Elements
<1> QED BY <1>3, <1>4, <1>5 DEF Elements

LEMMA JoinIncreasing ==
  ASSUME NEW s \in Seq(Nat), NEW t \in Seq(Nat)
  PROVE  Increasing(s \o t) <=>
           Increasing(s) /\ Increasing(t) /\ Below(Elements(s), Elements(t))
<1>1. /\ Len(s \o t) = Len(s) + Len(t)
      /\ \A i \in 1..(Len(s) + Len(t)) :
           (s \o t)[i] = IF i <= Len(s) THEN s[i] ELSE t[i - Len(s)]
  BY ConcatProperties
<1>2. Len(s) \in Nat /\ Len(t) \in Nat
  OBVIOUS
<1>3. \A i \in 1..Len(s) : i \in 1..Len(s \o t) /\ (s \o t)[i] = s[i]
  BY <1>1, <1>2
<1>4. \A i \in 1..Len(t) : i + Len(s) \in 1..Len(s \o t) /\ (s \o t)[i + Len(s)] = t[i]
  BY <1>1, <1>2
<1>5. ASSUME Increasing(s \o t)
      PROVE  Increasing(s) /\ Increasing(t) /\ Below(Elements(s), Elements(t))
  <2>1. Increasing(s)
    BY <1>3, <1>5 DEF Increasing
  <2>2. ASSUME NEW i \in 1..Len(t), NEW j \in 1..Len(t), i < j PROVE t[i] < t[j]
    <3>1. i + Len(s) < j + Len(s)
      BY <1>2, <2>2
    <3> QED BY <1>4, <1>5, <3>1 DEF Increasing
  <2>3. ASSUME NEW i \in 1..Len(s), NEW j \in 1..Len(t) PROVE s[i] < t[j]
    <3>1. i < j + Len(s)
      BY <1>2
    <3> QED BY <1>3, <1>4, <1>5, <3>1 DEF Increasing
  <2> QED BY <2>1, <2>2, <2>3 DEF Increasing, Below, Elements
<1>6. ASSUME Increasing(s), Increasing(t), Below(Elements(s), Elements(t)),
             NEW i \in 1..Len(s \o t), NEW j \in 1..Len(s \o t), i < j
      PROVE  (s \o t)[i] < (s \o t)[j]
  <2>1. CASE j <= Len(s)
    BY <1>1, <1>2, <1>6, <2>1 DEF Increasing
  <2>2. CASE i > Len(s)
    <3>1. i - Len(s) \in 1..Len(t) /\ j - Len(s) \in 1..Len(t) /\ i - Len(s) < j - Len(s)
      BY <1>1, <1>2, <1>6, <2>2
    <3>2. t[i - Len(s)] < t[j - Len(s)]
      BY <1>6, <3>1 DEF Increasing
    <3> QED BY <1>1, <1>2, <1>6, <2>2, <3>2
  <2>3. CASE i <= Len(s) /\ j > Len(s)
    <3>1. i \in 1..Len(s) /\ j - Len(s) \in 1..Len(t)
      BY <1>1, <1>2, <2>3
    <3>2. s[i] < t[j - Len(s)]
      BY <1>6, <3>1 DEF Below, Elements
    <3> QED BY <1>1, <1>2, <2>3, <3>2
  <2> QED BY <1>1, <1>2, <2>1, <2>2, <2>3
<1> QED BY <1>5, <1>6 DEF Increasing

Lines == Seq(Seq(Nat))

LEMMA JoinHeld ==
  ASSUME NEW a \in Lines, NEW b \in Lines
  PROVE  Held(a \o b) = Held(a) \union Held(b)
<1>1. /\ Len(a \o b) = Len(a) + Len(b)
      /\ \A i \in 1..(Len(a) + Len(b)) :
           (a \o b)[i] = IF i <= Len(a) THEN a[i] ELSE b[i - Len(a)]
  BY ConcatProperties DEF Lines
<1>2. Len(a) \in Nat /\ Len(b) \in Nat
  BY DEF Lines
<1>3. ASSUME NEW x \in Held(a \o b) PROVE x \in Held(a) \union Held(b)
  <2>1. PICK i \in 1..(Len(a) + Len(b)) : x \in Elements((a \o b)[i])
    BY <1>1 DEF Held
  <2>2. CASE i <= Len(a)
    <3>1. i \in 1..Len(a) /\ x \in Elements(a[i])
      BY <1>1, <1>2, <2>1, <2>2
    <3> QED BY <3>1 DEF Held
  <2>3. CASE ~(i <= Len(a))
    <3>1. i - Len(a) \in 1..Len(b) /\ x \in Elements(b[i - Len(a)])
      BY <1>1, <1>2, <2>1, <2>3
    <3> QED BY <3>1 DEF Held
  <2> QED BY <2>2, <2>3
<1>4. ASSUME NEW x \in Held(a) PROVE x \in Held(a \o b)
  <2>1. PICK i \in 1..Len(a) : x \in Elements(a[i])
    BY DEF Held
  <2>2. i \in 1..Len(a \o b) /\ (a \o b)[i] = a[i]
    BY <1>1, <1>2
  <2> QED BY <2>1, <2>2 DEF Held
<1>5. ASSUME NEW x \in Held(b) PROVE x \in Held(a \o b)
  <2>1. PICK i \in 1..Len(b) : x \in Elements(b[i])
    BY DEF Held
  <2>2. i + Len(a) \in 1..Len(a \o b) /\ (a \o b)[i + Len(a)] = b[i]
    BY <1>1, <1>2
  <2> QED BY <2>1, <2>2 DEF Held
<1> QED BY <1>3, <1>4, <1>5

LEMMA JoinInOrder ==
  ASSUME NEW a \in Lines, NEW b \in Lines
  PROVE  InOrder(a \o b) <=> InOrder(a) /\ InOrder(b) /\ Below(Held(a), Held(b))
<1>1. /\ Len(a \o b) = Len(a) + Len(b)
      /\ \A i \in 1..(Len(a) + Len(b)) :
           (a \o b)[i] = IF i <= Len(a) THEN a[i] ELSE b[i - Len(a)]
  BY ConcatProperties DEF Lines
<1>2. Len(a) \in Nat /\ Len(b) \in Nat
  BY DEF Lines
<1>3. \A i \in 1..Len(a) : i \in 1..Len(a \o b) /\ (a \o b)[i] = a[i]
  BY <1>1, <1>2
<1>4. \A i \in 1..Len(b) : i + Len(a) \in 1..Len(a \o b) /\ (a \o b)[i + Len(a)] = b[i]
  BY <1>1, <1>2
<1>5. ASSUME InOrder(a \o b)
      PROVE  InOrder(a) /\ InOrder(b) /\ Below(Held(a), Held(b))
  <2>1. InOrder(a)
    BY <1>3, <1>5 DEF InOrder
  <2>2. ASSUME NEW i \in 1..Len(b), NEW j \in 1..Len(b), i < j
        PROVE  Below(Elements(b[i]), Elements(b[j]))
    <3>1. i + Len(a) < j + Len(a)
      BY <1>2, <2>2
    <3> QED BY <1>4, <1>5, <3>1 DEF InOrder
  <2>3. \A i \in 1..Len(b) : Increasing(b[i])
    BY <1>4, <1>5 DEF InOrder
  <2>4. ASSUME NEW x \in Held(a), NEW y \in Held(b) PROVE x < y
    <3>1. PICK i \in 1..Len(a) : x \in Elements(a[i])
      BY DEF Held
    <3>2. PICK j \in 1..Len(b) : y \in Elements(b[j])
      BY DEF Held
    <3>3. i < j + Len(a)
      BY <1>2
    <3>4. Below(Elements(a[i]), Elements(b[j]))
      BY <1>3, <1>4, <1>5, <3>3 DEF InOrder
    <3> QED BY <3>1, <3>2, <3>4 DEF Below
  <2> QED BY <2>1, <2>2, <2>3, <2>4 DEF InOrder, Below
<1>6. ASSUME InOrder(a), InOrder(b), Below(Held(a), Held(b))
      PROVE  InOrder(a \o b)
  <2>1. ASSUME NEW i \in 1..Len(a \o b) PROVE Increasing((a \o b)[i])
    <3>1. CASE i <= Len(a)
      BY <1>1, <1>2, <1>6, <3>1 DEF InOrder
    <3>2. CASE i > Len(a)
      <4>1. i - Len(a) \in 1..Len(b) /\ (a \o b)[i] = b[i - Len(a)]
        BY <1>1, <1>2, <3>2
      <4> QED BY <1>6, <4>1 DEF InOrder
    <3> QED BY <1>1, <1>2, <3>1, <3>2
  <2>2. ASSUME NEW i \in 1..Len(a \o b), NEW j \in 1..Len(a \o b), i < j
        PROVE  Below(Elements((a \o b)[i]), Elements((a \o b)[j]))
    <3>1. CASE j <= Len(a)
      BY <1>1, <1>2, <2>2, <1>6, <3>1 DEF InOrder
    <3>2. CASE i > Len(a)
      <4>1. /\ i - Len(a) \in 1..Len(b) /\ (a \o b)[i] = b[i - Len(a)]
            /\ j - Len(a) \in 1..Len(b) /\ (a \o b)[j] = b[j - Len(a)]
            /\ i - Len(a) < j - Len(a)
        BY <1>1, <1>2, <2>2, <3>2
      <4> QED BY <1>6, <4>1 DEF InOrder
    <3>3. CASE i <= Len(a) /\ j > Len(a)
      <4>1. /\ i \in 1..Len(a) /\ (a \o b)[i] = a[i]
            /\ j - Len(a) \in 1..Len(b) /\ (a \o b)[j] = b[j - Len(a)]
        BY <1>1, <1>2, <3>3
      <4>2. Elements(a[i]) \subseteq Held(a) /\ Elements(b[j - Len(a)]) \subseteq Held(b)
        BY <4>1 DEF Held
      <4> QED BY <1>6, <4>1, <4>2 DEF Below
    <3> QED BY <1>1, <1>2, <3>1, <3>2, <3>3
  <2> QED BY <2>1, <2>2 DEF InOrder
<1> QED BY <1>5, <1>6

-----------------------------------------------------------------------------
(* Pieces by themselves, and the frames of the socket as a line.             *)

LEMMA OnePiece ==
  ASSUME NEW s \in Seq(Nat)
  PROVE  /\ <<s>> \in Lines
         /\ Held(<<s>>) = Elements(s)
         /\ InOrder(<<s>>) <=> Increasing(s)
BY DEF Lines, Held, InOrder

LEMMA NoPiece == /\ Elements(<<>>) = {} /\ Increasing(<<>>)
                 /\ <<>> \in Lines /\ Held(<<>>) = {} /\ InOrder(<<>>)
BY DEF Elements, Increasing, Lines, Held, InOrder

LEMMA OneElement ==
  ASSUME NEW n \in Nat
  PROVE  <<n>> \in Seq(Nat) /\ Elements(<<n>>) = {n} /\ Increasing(<<n>>)
BY DEF Elements, Increasing

LEMMA LineTypes ==
  ASSUME NEW q \in Seq(Frame)
  PROVE  /\ KeyLine(q) \in Lines /\ Len(KeyLine(q)) = Len(q)
         /\ SizeLine(q) \in Lines /\ Len(SizeLine(q)) = Len(q)
<1>1. \A i \in 1..Len(q) : KeysOf(q[i]) \in Seq(Nat) /\ SizesOf(q[i]) \in Seq(Nat)
  BY DEF KeysOf, SizesOf, Frame, Other
<1> QED BY <1>1, IsASeq DEF KeyLine, SizeLine, Lines

LEMMA JoinsTo ==
  ASSUME NEW a \in Lines, NEW b \in Lines, NEW c \in Lines,
         Len(c) = Len(a) + Len(b),
         \A i \in 1..Len(a) : c[i] = a[i],
         \A i \in 1..Len(b) : c[i + Len(a)] = b[i]
  PROVE  c = a \o b
<1>1. /\ a \o b \in Lines /\ Len(a \o b) = Len(a) + Len(b)
      /\ \A i \in 1..(Len(a) + Len(b)) :
           (a \o b)[i] = IF i <= Len(a) THEN a[i] ELSE b[i - Len(a)]
  BY ConcatProperties DEF Lines
<1>2. Len(a) \in Nat /\ Len(b) \in Nat
  BY DEF Lines
<1>3. ASSUME NEW i \in 1..(Len(a) + Len(b)) PROVE c[i] = (a \o b)[i]
  <2>1. CASE i <= Len(a)
    BY <1>1, <1>2, <2>1
  <2>2. CASE ~(i <= Len(a))
    <3>1. i - Len(a) \in 1..Len(b) /\ i = (i - Len(a)) + Len(a)
      BY <1>2, <2>2
    <3> QED BY <1>1, <2>2, <3>1
  <2> QED BY <2>1, <2>2
<1> QED BY <1>1, <1>3, SeqEqual DEF Lines

LEMMA JoinFrames ==
  ASSUME NEW q \in Seq(Frame), NEW r \in Seq(Frame)
  PROVE  /\ KeyLine(q \o r) = KeyLine(q) \o KeyLine(r)
         /\ SizeLine(q \o r) = SizeLine(q) \o SizeLine(r)
<1>1. /\ q \o r \in Seq(Frame)
      /\ Len(q \o r) = Len(q) + Len(r)
      /\ \A i \in 1..(Len(q) + Len(r)) :
           (q \o r)[i] = IF i <= Len(q) THEN q[i] ELSE r[i - Len(q)]
  BY ConcatProperties
<1>2. /\ KeyLine(q) \in Lines /\ KeyLine(r) \in Lines /\ KeyLine(q \o r) \in Lines
      /\ SizeLine(q) \in Lines /\ SizeLine(r) \in Lines /\ SizeLine(q \o r) \in Lines
      /\ Len(KeyLine(q)) = Len(q) /\ Len(KeyLine(r)) = Len(r)
      /\ Len(SizeLine(q)) = Len(q) /\ Len(SizeLine(r)) = Len(r)
      /\ Len(KeyLine(q \o r)) = Len(q) + Len(r)
      /\ Len(SizeLine(q \o r)) = Len(q) + Len(r)
  BY <1>1, LineTypes
<1>3. Len(q) \in Nat /\ Len(r) \in Nat
  OBVIOUS
<1>5. /\ \A i \in 1..Len(q) : i \in 1..(Len(q) + Len(r)) /\ (q \o r)[i] = q[i]
      /\ \A i \in 1..Len(r) :
           i + Len(q) \in 1..(Len(q) + Len(r)) /\ (q \o r)[i + Len(q)] = r[i]
  BY <1>1, <1>3
<1>6. KeyLine(q \o r) = KeyLine(q) \o KeyLine(r)
  <2>1. \A i \in 1..Len(q) : KeyLine(q \o r)[i] = KeyLine(q)[i]
    BY <1>1, <1>5 DEF KeyLine
  <2>2. \A i \in 1..Len(r) : KeyLine(q \o r)[i + Len(q)] = KeyLine(r)[i]
    BY <1>1, <1>5 DEF KeyLine
  <2>3. Len(KeyLine(q \o r)) = Len(KeyLine(q)) + Len(KeyLine(r))
    BY <1>2
  <2>4. /\ \A i \in 1..Len(KeyLine(q)) : KeyLine(q \o r)[i] = KeyLine(q)[i]
        /\ \A i \in 1..Len(KeyLine(r)) :
             KeyLine(q \o r)[i + Len(KeyLine(q))] = KeyLine(r)[i]
    BY <1>2, <2>1, <2>2
  <2> QED BY <1>2, <2>3, <2>4, JoinsTo
<1>7. SizeLine(q \o r) = SizeLine(q) \o SizeLine(r)
  <2>1. \A i \in 1..Len(q) : SizeLine(q \o r)[i] = SizeLine(q)[i]
    BY <1>1, <1>5 DEF SizeLine
  <2>2. \A i \in 1..Len(r) : SizeLine(q \o r)[i + Len(q)] = SizeLine(r)[i]
    BY <1>1, <1>5 DEF SizeLine
  <2>3. Len(SizeLine(q \o r)) = Len(SizeLine(q)) + Len(SizeLine(r))
    BY <1>2
  <2>4. /\ \A i \in 1..Len(SizeLine(q)) : SizeLine(q \o r)[i] = SizeLine(q)[i]
        /\ \A i \in 1..Len(SizeLine(r)) :
             SizeLine(q \o r)[i + Len(SizeLine(q))] = SizeLine(r)[i]
    BY <1>2, <2>1, <2>2
  <2> QED BY <1>2, <2>3, <2>4, JoinsTo
<1> QED BY <1>6, <1>7

LEMMA OneFrame ==
  ASSUME NEW f \in Frame
  PROVE  /\ <<f>> \in Seq(Frame)
         /\ KeysOf(f) \in Seq(Nat) /\ KeyLine(<<f>>) = <<KeysOf(f)>>
         /\ SizesOf(f) \in Seq(Nat) /\ SizeLine(<<f>>) = <<SizesOf(f)>>
<1>1. KeysOf(f) \in Seq(Nat) /\ SizesOf(f) \in Seq(Nat)
  BY DEF KeysOf, SizesOf, Frame, Other
<1>2. KeyLine(<<f>>) = <<KeysOf(f)>> /\ SizeLine(<<f>>) = <<SizesOf(f)>>
  BY DEF KeyLine, SizeLine
<1> QED BY <1>1, <1>2

\* What two joined queues of frames hold, and when it is in order.
LEMMA JoinQueues ==
  ASSUME NEW q \in Seq(Frame), NEW r \in Seq(Frame)
  PROVE  /\ Held(KeyLine(q \o r)) = Held(KeyLine(q)) \union Held(KeyLine(r))
         /\ InOrder(KeyLine(q \o r)) <=>
              InOrder(KeyLine(q)) /\ InOrder(KeyLine(r)) /\ Below(Held(KeyLine(q)), Held(KeyLine(r)))
         /\ Held(SizeLine(q \o r)) = Held(SizeLine(q)) \union Held(SizeLine(r))
         /\ InOrder(SizeLine(q \o r)) <=>
              InOrder(SizeLine(q)) /\ InOrder(SizeLine(r)) /\ Below(Held(SizeLine(q)), Held(SizeLine(r)))
<1>1. /\ KeyLine(q) \in Lines /\ KeyLine(r) \in Lines
      /\ SizeLine(q) \in Lines /\ SizeLine(r) \in Lines
  BY LineTypes
<1>2. /\ KeyLine(q \o r) = KeyLine(q) \o KeyLine(r)
      /\ SizeLine(q \o r) = SizeLine(q) \o SizeLine(r)
  BY JoinFrames
<1> QED BY <1>1, <1>2, JoinHeld, JoinInOrder

LEMMA FrameLine ==
  ASSUME NEW f \in Frame
  PROVE  /\ Held(KeyLine(<<f>>)) = Elements(KeysOf(f))
         /\ InOrder(KeyLine(<<f>>)) <=> Increasing(KeysOf(f))
         /\ Held(SizeLine(<<f>>)) = Elements(SizesOf(f))
         /\ InOrder(SizeLine(<<f>>)) <=> Increasing(SizesOf(f))
BY OneFrame, OnePiece

\* The line of bytes, and the line of sizes, by their parts.
LEMMA KeysByParts ==
  ASSUME NEW s \in Seq(Nat), NEW t \in Seq(Nat), NEW u \in Seq(Nat), NEW q \in Seq(Frame)
  PROVE  /\ Held(<<s, t, u>> \o KeyLine(q)) =
              Elements(s) \union Elements(t) \union Elements(u) \union Held(KeyLine(q))
         /\ InOrder(<<s, t, u>> \o KeyLine(q)) <=>
              /\ Increasing(s) /\ Increasing(t) /\ Increasing(u) /\ InOrder(KeyLine(q))
              /\ Below(Elements(s), Elements(t)) /\ Below(Elements(s), Elements(u))
              /\ Below(Elements(t), Elements(u))
              /\ Below(Elements(s), Held(KeyLine(q)))
              /\ Below(Elements(t), Held(KeyLine(q)))
              /\ Below(Elements(u), Held(KeyLine(q)))
<1>1. /\ <<s, t, u>> \in Lines
      /\ Held(<<s, t, u>>) = Elements(s) \union Elements(t) \union Elements(u)
  BY DEF Lines, Held
<1>2. InOrder(<<s, t, u>>) <=>
        /\ Increasing(s) /\ Increasing(t) /\ Increasing(u)
        /\ Below(Elements(s), Elements(t)) /\ Below(Elements(s), Elements(u))
        /\ Below(Elements(t), Elements(u))
  BY DEF InOrder
<1>3. KeyLine(q) \in Lines
  BY LineTypes
<1> QED BY <1>1, <1>2, <1>3, JoinHeld, JoinInOrder DEF Below

LEMMA SizesByParts ==
  ASSUME NEW n \in Nat, NEW s \in Seq(Nat), NEW q \in Seq(Frame)
  PROVE  /\ Held(<< <<n>>, s >> \o SizeLine(q)) =
              {n} \union Elements(s) \union Held(SizeLine(q))
         /\ InOrder(<< <<n>>, s >> \o SizeLine(q)) <=>
              /\ Increasing(s) /\ InOrder(SizeLine(q))
              /\ Below({n}, Elements(s)) /\ Below({n}, Held(SizeLine(q)))
              /\ Below(Elements(s), Held(SizeLine(q)))
<1>1. <<n>> \in Seq(Nat) /\ Elements(<<n>>) = {n} /\ Increasing(<<n>>)
  BY OneElement
<1>2. /\ << <<n>>, s >> \in Lines
      /\ Held(<< <<n>>, s >>) = Elements(<<n>>) \union Elements(s)
  BY <1>1 DEF Lines, Held
<1>3. InOrder(<< <<n>>, s >>) <=>
        Increasing(<<n>>) /\ Increasing(s) /\ Below(Elements(<<n>>), Elements(s))
  BY DEF InOrder
<1>4. SizeLine(q) \in Lines
  BY LineTypes
<1>5. /\ Held(<< <<n>>, s >> \o SizeLine(q)) =
           Held(<< <<n>>, s >>) \union Held(SizeLine(q))
      /\ InOrder(<< <<n>>, s >> \o SizeLine(q)) <=>
           /\ InOrder(<< <<n>>, s >>) /\ InOrder(SizeLine(q))
           /\ Below(Held(<< <<n>>, s >>), Held(SizeLine(q)))
  BY <1>2, <1>4, JoinHeld, JoinInOrder
<1>6. Below({n} \union Elements(s), Held(SizeLine(q))) <=>
        Below({n}, Held(SizeLine(q))) /\ Below(Elements(s), Held(SizeLine(q)))
  BY DEF Below
<1> QED BY <1>1, <1>2, <1>3, <1>5, <1>6

LEMMA SizesHeld ==
  ASSUME NEW n \in Nat, NEW s \in Seq(Nat), NEW q \in Seq(Frame)
  PROVE  Held(<< <<n>>, s >> \o SizeLine(q)) = {n} \union Elements(s) \union Held(SizeLine(q))
BY SizesByParts

-----------------------------------------------------------------------------
(* What moves.                                                               *)

\* The first of a queue, and the rest.
LEMMA FirstAndRest ==
  ASSUME NEW S, NEW q \in Seq(S), q # <<>>
  PROVE  /\ Head(q) \in S /\ Tail(q) \in Seq(S) /\ <<Head(q)>> \in Seq(S)
         /\ q = <<Head(q)>> \o Tail(q)
<1>1. Head(q) \in S /\ Tail(q) \in Seq(S) /\ <<Head(q)>> \in Seq(S)
  BY HeadTailProperties
<1>2. /\ Len(q) \in Nat \ {0} /\ Len(Tail(q)) = Len(q) - 1
      /\ \A i \in 1..Len(Tail(q)) : Tail(q)[i] = q[i + 1]
  BY HeadTailProperties
<1>3. /\ <<Head(q)>> \o Tail(q) \in Seq(S)
      /\ Len(<<Head(q)>> \o Tail(q)) = 1 + Len(Tail(q))
      /\ \A i \in 1..(1 + Len(Tail(q))) :
           (<<Head(q)>> \o Tail(q))[i] =
             IF i <= 1 THEN <<Head(q)>>[i] ELSE Tail(q)[i - 1]
  BY <1>1, ConcatProperties
<1>4. ASSUME NEW i \in 1..Len(q) PROVE q[i] = (<<Head(q)>> \o Tail(q))[i]
  <2>1. CASE i = 1
    BY <1>2, <1>3, <2>1
  <2>2. CASE i # 1
    <3>1. i - 1 \in 1..Len(Tail(q)) /\ (i - 1) + 1 = i
      BY <1>2, <2>2
    <3> QED BY <1>2, <1>3, <2>2, <3>1
  <2> QED BY <2>1, <2>2
<1>5. Len(q) = Len(<<Head(q)>> \o Tail(q))
  BY <1>2, <1>3
<1> QED BY <1>1, <1>3, <1>4, <1>5, SeqEqual

\* Next takes the first of the queued sizes.
LEMMA TakeSize ==
  ASSUME NEW s \in Seq(Nat), s # <<>>
  PROVE  /\ Head(s) \in Nat /\ Tail(s) \in Seq(Nat)
         /\ Elements(s) = {Head(s)} \union Elements(Tail(s))
         /\ Increasing(s) <=>
              Increasing(Tail(s)) /\ Below({Head(s)}, Elements(Tail(s)))
<1>1. /\ Head(s) \in Nat /\ Tail(s) \in Seq(Nat) /\ <<Head(s)>> \in Seq(Nat)
      /\ s = <<Head(s)>> \o Tail(s)
  BY FirstAndRest
<1>2. /\ Elements(<<Head(s)>> \o Tail(s)) = Elements(<<Head(s)>>) \union Elements(Tail(s))
      /\ Increasing(<<Head(s)>> \o Tail(s)) <=>
           /\ Increasing(<<Head(s)>>) /\ Increasing(Tail(s))
           /\ Below(Elements(<<Head(s)>>), Elements(Tail(s)))
  BY <1>1, JoinElements, JoinIncreasing
<1> QED BY <1>1, <1>2, OneElement

\* Read queues another.
LEMMA QueueSize ==
  ASSUME NEW s \in Seq(Nat), NEW k \in Nat
  PROVE  /\ Elements(Append(s, k)) = Elements(s) \union {k}
         /\ Increasing(Append(s, k)) <=> Increasing(s) /\ Below(Elements(s), {k})
<1>1. <<k>> \in Seq(Nat) /\ Elements(<<k>>) = {k} /\ Increasing(<<k>>)
  BY OneElement
<1>2. Append(s, k) = s \o <<k>>
  BY AppendIsConcat
<1>3. /\ Elements(s \o <<k>>) = Elements(s) \union Elements(<<k>>)
      /\ Increasing(s \o <<k>>) <=>
           Increasing(s) /\ Increasing(<<k>>) /\ Below(Elements(s), Elements(<<k>>))
  BY <1>1, JoinElements, JoinIncreasing
<1> QED BY <1>1, <1>2, <1>3

\* The first frame is taken from the socket.
LEMMA TakeFrame ==
  ASSUME NEW q \in Seq(Frame), q # <<>>
  PROVE  /\ Head(q) \in Frame /\ Tail(q) \in Seq(Frame)
         /\ Held(KeyLine(q)) = Elements(KeysOf(Head(q))) \union Held(KeyLine(Tail(q)))
         /\ InOrder(KeyLine(q)) <=>
              /\ Increasing(KeysOf(Head(q))) /\ InOrder(KeyLine(Tail(q)))
              /\ Below(Elements(KeysOf(Head(q))), Held(KeyLine(Tail(q))))
         /\ Held(SizeLine(q)) = Elements(SizesOf(Head(q))) \union Held(SizeLine(Tail(q)))
         /\ InOrder(SizeLine(q)) <=>
              /\ Increasing(SizesOf(Head(q))) /\ InOrder(SizeLine(Tail(q)))
              /\ Below(Elements(SizesOf(Head(q))), Held(SizeLine(Tail(q))))
<1>1. Head(q) \in Frame /\ Tail(q) \in Seq(Frame) /\ <<Head(q)>> \in Seq(Frame)
  BY FirstAndRest
<1>2. q = <<Head(q)>> \o Tail(q)
  BY FirstAndRest
<1>3. /\ Held(KeyLine(<<Head(q)>> \o Tail(q))) =
           Held(KeyLine(<<Head(q)>>)) \union Held(KeyLine(Tail(q)))
      /\ InOrder(KeyLine(<<Head(q)>> \o Tail(q))) <=>
           /\ InOrder(KeyLine(<<Head(q)>>)) /\ InOrder(KeyLine(Tail(q)))
           /\ Below(Held(KeyLine(<<Head(q)>>)), Held(KeyLine(Tail(q))))
      /\ Held(SizeLine(<<Head(q)>> \o Tail(q))) =
           Held(SizeLine(<<Head(q)>>)) \union Held(SizeLine(Tail(q)))
      /\ InOrder(SizeLine(<<Head(q)>> \o Tail(q))) <=>
           /\ InOrder(SizeLine(<<Head(q)>>)) /\ InOrder(SizeLine(Tail(q)))
           /\ Below(Held(SizeLine(<<Head(q)>>)), Held(SizeLine(Tail(q))))
  BY <1>1, JoinQueues
<1> QED BY <1>1, <1>2, <1>3, FrameLine

\* The browser sends another frame.
LEMMA SendFrame ==
  ASSUME NEW q \in Seq(Frame), NEW f \in Frame
  PROVE  /\ Append(q, f) \in Seq(Frame)
         /\ Held(KeyLine(Append(q, f))) = Held(KeyLine(q)) \union Elements(KeysOf(f))
         /\ InOrder(KeyLine(Append(q, f))) <=>
              /\ InOrder(KeyLine(q)) /\ Increasing(KeysOf(f))
              /\ Below(Held(KeyLine(q)), Elements(KeysOf(f)))
         /\ Held(SizeLine(Append(q, f))) = Held(SizeLine(q)) \union Elements(SizesOf(f))
         /\ InOrder(SizeLine(Append(q, f))) <=>
              /\ InOrder(SizeLine(q)) /\ Increasing(SizesOf(f))
              /\ Below(Held(SizeLine(q)), Elements(SizesOf(f)))
<1>1. <<f>> \in Seq(Frame) /\ Append(q, f) = q \o <<f>> /\ Append(q, f) \in Seq(Frame)
  BY AppendIsConcat, AppendProperties
<1>2. /\ Held(KeyLine(q \o <<f>>)) = Held(KeyLine(q)) \union Held(KeyLine(<<f>>))
      /\ InOrder(KeyLine(q \o <<f>>)) <=>
           /\ InOrder(KeyLine(q)) /\ InOrder(KeyLine(<<f>>))
           /\ Below(Held(KeyLine(q)), Held(KeyLine(<<f>>)))
      /\ Held(SizeLine(q \o <<f>>)) = Held(SizeLine(q)) \union Held(SizeLine(<<f>>))
      /\ InOrder(SizeLine(q \o <<f>>)) <=>
           /\ InOrder(SizeLine(q)) /\ InOrder(SizeLine(<<f>>))
           /\ Below(Held(SizeLine(q)), Held(SizeLine(<<f>>)))
  BY <1>1, JoinQueues
<1> QED BY <1>1, <1>2, FrameLine

\* Only the first n frames arrive.
LEMMA CutQueue ==
  ASSUME NEW q \in Seq(Frame), NEW n \in 0..Len(q)
  PROVE  \E r \in Seq(Frame) :
           /\ SubSeq(q, 1, n) \in Seq(Frame)
           /\ q = SubSeq(q, 1, n) \o r
<1>1. Len(q) \in Nat
  OBVIOUS
<1>2. \A i \in 1..Len(q) : q[i] \in Frame
  OBVIOUS
<1>3. SubSeq(q, 1, n) \in Seq(Frame)
  BY <1>1, <1>2, SubSeqProperties
<1>4. SubSeq(q, n + 1, Len(q)) \in Seq(Frame)
  BY <1>1, <1>2, SubSeqProperties
<1>5. SubSeq(q, 1, n) \o SubSeq(q, n + 1, Len(q)) = SubSeq(q, 1, Len(q))
  <2>1. 1 \in 1..(Len(q) + 1) /\ n \in (1 - 1)..Len(q) /\ Len(q) \in n..Len(q)
    BY <1>1
  <2> QED BY <2>1, ConcatAdjacentSubSeq
<1>6. SubSeq(q, 1, Len(q)) = q
  BY SubSeqFull
<1> QED BY <1>3, <1>4, <1>5, <1>6

\* Read's buffer takes a part of what there is and keeps the rest.
LEMMA ReadSplits ==
  ASSUME NEW d \in Seq(Nat)
  PROVE  /\ First(d) \in Seq(Nat) /\ Rest(d) \in Seq(Nat)
         /\ Elements(d) = Elements(First(d)) \union Elements(Rest(d))
         /\ Increasing(d) <=>
              /\ Increasing(First(d)) /\ Increasing(Rest(d))
              /\ Below(Elements(First(d)), Elements(Rest(d)))
<1>1. Len(d) \in Nat /\ Least(Chunk, Len(d)) \in 0..Len(d)
  BY ChunkAssumption DEF Least
<1>2. \A i \in 1..Len(d) : d[i] \in Nat
  OBVIOUS
<1>3. First(d) \in Seq(Nat) /\ Rest(d) \in Seq(Nat)
  BY <1>1, <1>2, SubSeqProperties DEF First, Rest
<1>4. d = First(d) \o Rest(d)
  <2>1. /\ 1 \in 1..(Len(d) + 1)
        /\ Least(Chunk, Len(d)) \in (1 - 1)..Len(d)
        /\ Len(d) \in Least(Chunk, Len(d))..Len(d)
    BY <1>1
  <2>2. SubSeq(d, 1, Least(Chunk, Len(d))) \o SubSeq(d, Least(Chunk, Len(d)) + 1, Len(d))
          = SubSeq(d, 1, Len(d))
    BY <2>1, ConcatAdjacentSubSeq
  <2> QED BY <2>2, SubSeqFull DEF First, Rest
<1>5. Elements(First(d) \o Rest(d)) = Elements(First(d)) \union Elements(Rest(d))
  BY <1>3, JoinElements
<1>6. Increasing(First(d) \o Rest(d)) <=>
        /\ Increasing(First(d)) /\ Increasing(Rest(d))
        /\ Below(Elements(First(d)), Elements(Rest(d)))
  BY <1>3, JoinIncreasing
<1> QED BY <1>3, <1>4, <1>5, <1>6

-----------------------------------------------------------------------------
(* The inductive invariant.                                                  *)

\* Nothing read is still to be written when the stdin loop reads, and a loop
\* that has ended on a read had nothing left.
Clean == reader \in {"read", "ended"} => chunk = <<>>

\* No byte is of the future.
AllTyped == Held(Keys) \subseteq 1..typed

\* No size is of the future, and one that was dropped is older than those in
\* the socket: the queue is full for the newest of what was read.
AskedFor ==
  /\ Held(Sizes) \subseteq 0..asked
  /\ dropped <= asked
  /\ Below({dropped}, Held(SizeLine(net)))

\* Each piece is a run of consecutive bytes, and what the shell has is the first
\* of all.
Run(d) == \E a \in Nat : d = Numbers(a, Len(d))
Runs ==
  /\ stdin = Line!Text(Len(stdin)) /\ Run(chunk) /\ Run(buf)
  /\ \A i \in 1..Len(net) : Run(KeysOf(net[i]))

\* The channel is closed by the loop that ended on a read, and by no other.
Told == closed <=> reader = "ended"

IInv ==
  /\ TypeOK /\ Clean /\ Told
  /\ TypedInOrder /\ AllTyped /\ Runs
  /\ TtyFollows /\ AskedFor


\* Both lines by what each of their parts holds.
KeySet ==
  Elements(stdin) \union Elements(chunk) \union Elements(buf) \union Held(KeyLine(net))

KeyOrder ==
  /\ Increasing(stdin) /\ Increasing(chunk) /\ Increasing(buf) /\ InOrder(KeyLine(net))
  /\ Below(Elements(stdin), Elements(chunk)) /\ Below(Elements(stdin), Elements(buf))
  /\ Below(Elements(chunk), Elements(buf))
  /\ Below(Elements(stdin), Held(KeyLine(net)))
  /\ Below(Elements(chunk), Held(KeyLine(net)))
  /\ Below(Elements(buf), Held(KeyLine(net)))

SizeSet == {tty} \union Elements(sizes) \union Held(SizeLine(net))

SizeOrder ==
  /\ Increasing(sizes) /\ InOrder(SizeLine(net))
  /\ Below({tty}, Elements(sizes)) /\ Below({tty}, Held(SizeLine(net)))
  /\ Below(Elements(sizes), Held(SizeLine(net)))

LEMMA Parts ==
  TypeOK => /\ Held(Keys) = KeySet /\ (InOrder(Keys) <=> KeyOrder)
            /\ Held(Sizes) = SizeSet /\ (InOrder(Sizes) <=> SizeOrder)
<1> SUFFICES ASSUME TypeOK
             PROVE  /\ Held(Keys) = KeySet /\ (InOrder(Keys) <=> KeyOrder)
                    /\ Held(Sizes) = SizeSet /\ (InOrder(Sizes) <=> SizeOrder)
  OBVIOUS
<1>1. /\ stdin \in Seq(Nat) /\ chunk \in Seq(Nat) /\ buf \in Seq(Nat)
      /\ net \in Seq(Frame) /\ sizes \in Seq(Nat) /\ tty \in Nat
  BY DEF TypeOK
<1>2. Held(Keys) = KeySet
  BY <1>1, KeysByParts DEF Keys, KeySet
<1>3. InOrder(Keys) <=> KeyOrder
  BY <1>1, KeysByParts DEF Keys, KeyOrder
<1>4. Held(Sizes) = SizeSet
  <2>1. Held(<< <<tty>>, sizes >> \o SizeLine(net)) =
          {tty} \union Elements(sizes) \union Held(SizeLine(net))
    BY <1>1, SizesHeld
  <2> QED BY <2>1 DEF Sizes, SizeSet
<1>5. InOrder(Sizes) <=> SizeOrder
  BY <1>1, SizesByParts DEF Sizes, SizeOrder
<1> QED BY <1>2, <1>3, <1>4, <1>5

LEMMA PartsNext ==
  TypeOK' => /\ Held(Keys)' = KeySet' /\ (InOrder(Keys)' <=> KeyOrder')
             /\ Held(Sizes)' = SizeSet' /\ (InOrder(Sizes)' <=> SizeOrder')
<1> SUFFICES ASSUME TypeOK'
             PROVE  /\ Held(Keys)' = KeySet' /\ (InOrder(Keys)' <=> KeyOrder')
                    /\ Held(Sizes)' = SizeSet' /\ (InOrder(Sizes)' <=> SizeOrder')
  OBVIOUS
<1>1. /\ stdin' \in Seq(Nat) /\ chunk' \in Seq(Nat) /\ buf' \in Seq(Nat)
      /\ net' \in Seq(Frame) /\ sizes' \in Seq(Nat) /\ tty' \in Nat
  BY DEF TypeOK
<1>2. Held(Keys)' = KeySet'
  BY <1>1, KeysByParts DEF Keys, KeySet
<1>3. InOrder(Keys)' <=> KeyOrder'
  BY <1>1, KeysByParts DEF Keys, KeyOrder
<1>4. Held(Sizes)' = SizeSet'
  <2>1. Held(<< <<tty'>>, sizes' >> \o SizeLine(net')) =
          {tty'} \union Elements(sizes') \union Held(SizeLine(net'))
    BY <1>1, SizesHeld
  <2> QED BY <2>1 DEF Sizes, SizeSet
<1>5. InOrder(Sizes)' <=> SizeOrder'
  BY <1>1, SizesByParts DEF Sizes, SizeOrder
<1> QED BY <1>2, <1>3, <1>4, <1>5

LEMMA InitInv == Init => IInv
<1> SUFFICES ASSUME Init PROVE IInv
  OBVIOUS
<1>1. TypeOK
  <2>1. net \in Seq(Frame) /\ sizes \in Seq(Nat)
    BY DEF Init
  <2>2. buf \in Seq(Nat) /\ chunk \in Seq(Nat) /\ stdin \in Seq(Nat)
    BY DEF Init
  <2>3. {tty, typed, asked, dropped} \subseteq Nat
    BY DEF Init
  <2>4. /\ gone \in BOOLEAN /\ served \in BOOLEAN /\ closed \in BOOLEAN /\ shell \in BOOLEAN
        /\ reader \in {"read", "write", "ended", "failed"} /\ resizer \in {"next", "ended"}
    BY DEF Init
  <2> QED BY <2>1, <2>2, <2>3, <2>4 DEF TypeOK
<1>2. Clean /\ Told
  BY DEF Init, Clean, Told
<1>3. KeyLine(net) = <<>> /\ SizeLine(net) = <<>>
  BY DEF Init, KeyLine, SizeLine
<1>4. /\ Held(KeyLine(net)) = {} /\ InOrder(KeyLine(net))
      /\ Held(SizeLine(net)) = {} /\ InOrder(SizeLine(net))
  BY <1>3, NoPiece
<1>5. /\ Elements(stdin) = {} /\ Elements(chunk) = {} /\ Elements(buf) = {}
      /\ Increasing(stdin) /\ Increasing(chunk) /\ Increasing(buf)
      /\ Elements(sizes) = {} /\ Increasing(sizes)
  BY NoPiece DEF Init
<1>6. KeySet = {} /\ KeyOrder /\ SizeSet = {tty} /\ SizeOrder
  BY <1>4, <1>5 DEF KeySet, KeyOrder, SizeSet, SizeOrder, Below
<1>7. TypedInOrder
  BY <1>1, <1>6, Parts DEF Init, TypedInOrder
<1>8. TtyFollows
  BY <1>1, <1>6, Parts DEF Init, TtyFollows
<1>9. AskedFor
  BY <1>1, <1>4, <1>6, Parts DEF Init, AskedFor, Below
<1>10. AllTyped
  BY <1>1, <1>6, Parts DEF AllTyped
<1>11. Runs
  <2>1. stdin = Line!Text(Len(stdin))
    BY DEF Init, Line!Text
  <2>2. Run(<<>>)
    <3>1. <<>> = Numbers(0, Len(<<>>)) /\ 0 \in Nat
      BY DEF Numbers
    <3> QED BY <3>1 DEF Run
  <2>3. chunk = <<>> /\ buf = <<>> /\ Len(net) = 0
    BY DEF Init
  <2> QED BY <2>1, <2>2, <2>3 DEF Runs
<1> QED BY <1>1, <1>2, <1>7, <1>8, <1>9, <1>10, <1>11 DEF IInv

-----------------------------------------------------------------------------
(* Every step keeps the types.                                               *)

LEMMA NumbersAre ==
  ASSUME NEW a \in Nat, NEW n \in Nat
  PROVE  /\ Numbers(a, n) \in Seq(Nat)
         /\ Elements(Numbers(a, n)) = (a + 1)..(a + n)
         /\ Increasing(Numbers(a, n))
<1>1. \A i \in 1..n : a + i \in Nat
  OBVIOUS
<1>2. Numbers(a, n) \in Seq(Nat) /\ Len(Numbers(a, n)) = n
  BY <1>1, IsASeq DEF Numbers
<1>3. \A i \in 1..n : Numbers(a, n)[i] = a + i
  BY DEF Numbers
<1>4. ASSUME NEW x \in (a + 1)..(a + n) PROVE x \in Elements(Numbers(a, n))
  <2>1. x - a \in 1..n /\ a + (x - a) = x
    OBVIOUS
  <2> QED BY <1>2, <1>3, <2>1 DEF Elements
<1>5. ASSUME NEW x \in Elements(Numbers(a, n)) PROVE x \in (a + 1)..(a + n)
  BY <1>2, <1>3 DEF Elements
<1>6. Increasing(Numbers(a, n))
  BY <1>2, <1>3 DEF Increasing
<1> QED BY <1>2, <1>4, <1>5, <1>6

\* What a frame carries, by its kind.
LEMMA Kinds ==
  ASSUME NEW f \in Frame
  PROVE  /\ f.kind = "bytes" =>
              f.data \in Seq(Nat) /\ KeysOf(f) = f.data /\ SizesOf(f) = <<>>
         /\ f.kind = "resize" =>
              f.size \in Nat /\ KeysOf(f) = <<>> /\ SizesOf(f) = <<f.size>>
         /\ f.kind = "other" => KeysOf(f) = <<>> /\ SizesOf(f) = <<>>
BY DEF Frame, Other, KeysOf, SizesOf

LEMMA Sent ==
  /\ \A d \in Seq(Nat) : Bytes(d) \in Frame /\ Bytes(d).kind = "bytes" /\ Bytes(d).data = d
  /\ \A k \in Nat : Resize(k) \in Frame /\ Resize(k).kind = "resize" /\ Resize(k).size = k
  /\ Other \in Frame /\ Other.kind = "other"
BY DEF Bytes, Resize, Other, Frame

LEMMA Numbered == TypeOK => tty \in Nat /\ typed \in Nat /\ asked \in Nat /\ dropped \in Nat
BY DEF TypeOK

\* A queue of frames holds numbers.
LEMMA Wholes ==
  ASSUME NEW s \in Seq(Nat), NEW q \in Seq(Frame)
  PROVE  /\ Elements(s) \subseteq Nat
         /\ Held(KeyLine(q)) \subseteq Nat /\ Held(SizeLine(q)) \subseteq Nat
<1>1. \A a \in Lines : Held(a) \subseteq Nat
  BY DEF Lines, Held, Elements
<1>2. Elements(s) \subseteq Nat
  BY DEF Elements
<1> QED BY <1>1, <1>2, LineTypes

LEMMA TypeStep == TypeOK /\ [Next]_vars => TypeOK'
<1> SUFFICES ASSUME TypeOK, [Next]_vars PROVE TypeOK'
  OBVIOUS
<1> USE DEF input, resizing, browser
<1>0. tty \in Nat /\ typed \in Nat /\ asked \in Nat /\ dropped \in Nat
  BY Numbered
<1>1. ASSUME NEW n \in 1..MaxFrame, Type(n) PROVE TypeOK'
  <2>1. n \in Nat
    BY BoundAssumption
  <2>2. Numbers(typed, n) \in Seq(Nat)
    BY <1>0, <2>1, NumbersAre
  <2>3. Bytes(Numbers(typed, n)) \in Frame
    BY <2>2, Sent
  <2>4. net' \in Seq(Frame) /\ typed' \in Nat
    BY <1>0, <1>1, <2>1, <2>3 DEF Type, TypeOK
  <2> QED BY <1>0, <1>1, <2>4 DEF Type, TypeOK
<1>2. CASE Fit
  <2>1. Resize(asked + 1) \in Frame
    BY <1>0, Sent
  <2>2. net' \in Seq(Frame) /\ asked' \in Nat
    BY <1>0, <1>2, <2>1 DEF Fit, TypeOK
  <2> QED BY <1>0, <1>2, <2>2 DEF Fit, TypeOK
<1>3. CASE Control
  <2>1. net' \in Seq(Frame)
    BY <1>3, Sent DEF Control
  <2> QED BY <1>3, <2>1 DEF Control, TypeOK
<1>4. CASE Disconnect
  <2>1. net' \in Seq(Frame)
    BY <1>4, CutQueue DEF Disconnect, TypeOK
  <2> QED BY <1>4, <2>1 DEF Disconnect, TypeOK
<1>5. CASE ReadLeftover
  <2>1. chunk' \in Seq(Nat) /\ buf' \in Seq(Nat)
    BY <1>5, ReadSplits DEF ReadLeftover, Return, TypeOK
  <2> QED BY <1>5, <2>1 DEF ReadLeftover, Return, TypeOK
<1>6. CASE ReadBytes
  <2>1. Head(net) \in Frame /\ net' \in Seq(Frame)
    BY <1>6, TakeFrame DEF ReadBytes, HasFrame, TypeOK
  <2>2. Head(net).data \in Seq(Nat)
    BY <1>6, <2>1, Kinds DEF ReadBytes
  <2>3. chunk' \in Seq(Nat) /\ buf' \in Seq(Nat)
    BY <1>6, <2>2, ReadSplits DEF ReadBytes, Return
  <2> QED BY <1>6, <2>1, <2>3 DEF ReadBytes, Return, TypeOK
<1>7. CASE ReadResize
  <2>1. Head(net) \in Frame /\ net' \in Seq(Frame)
    BY <1>7, TakeFrame DEF ReadResize, HasFrame, TypeOK
  <2>2. Head(net).size \in Nat
    BY <1>7, <2>1, Kinds DEF ReadResize
  <2>3. CASE Len(sizes) < Cap
    <3>1. sizes' = Append(sizes, Head(net).size) /\ dropped' = dropped
      BY <1>7, <2>3 DEF ReadResize
    <3>2. sizes \in Seq(Nat)
      BY DEF TypeOK
    <3>3. sizes' \in Seq(Nat)
      BY <2>2, <3>1, <3>2, AppendProperties
    <3> QED BY <1>0, <1>7, <2>1, <3>1, <3>3 DEF ReadResize, TypeOK
  <2>4. CASE ~(Len(sizes) < Cap)
    BY <1>0, <1>7, <2>1, <2>2, <2>4 DEF ReadResize, TypeOK
  <2> QED BY <2>3, <2>4
<1>8. CASE ReadOther
  <2>1. net' \in Seq(Frame)
    BY <1>8, TakeFrame DEF ReadOther, HasFrame, TypeOK
  <2> QED BY <1>8, <2>1 DEF ReadOther, TypeOK
<1>9. CASE ReadFails
  BY <1>9 DEF ReadFails, TypeOK
<1>10. CASE Write
  <2>1. stdin' \in Seq(Nat) /\ chunk' \in Seq(Nat)
    BY <1>10 DEF Write, TypeOK
  <2> QED BY <1>10, <2>1 DEF Write, TypeOK
<1>11. CASE WriteFails
  BY <1>11 DEF WriteFails, TypeOK
<1>12. CASE NextSize
  <2>1. sizes' \in Seq(Nat) /\ tty' \in Nat
    BY <1>12, HeadTailProperties DEF NextSize, TypeOK
  <2> QED BY <1>0, <1>12, <2>1 DEF NextSize, TypeOK
<1>13. CASE NextNil
  BY <1>13 DEF NextNil, TypeOK
<1>14. CASE Exit
  BY <1>14 DEF Exit, TypeOK
<1>15. CASE AttachReturns
  BY <1>15 DEF AttachReturns, TypeOK
<1>16. CASE UNCHANGED vars
  BY <1>16 DEF vars, TypeOK
<1> QED
  BY <1>1, <1>2, <1>3, <1>4, <1>5, <1>6, <1>7, <1>8, <1>9, <1>10, <1>11, <1>12, <1>13,
     <1>14, <1>15, <1>16 DEF Next, StdinLoop, ResizeLoop

\* The type invariant, for every Chunk, Cap and bound.
THEOREM TypeCorrect == Spec => []TypeOK
<1>1. Init => TypeOK
  BY InitInv DEF IInv
<1> QED BY <1>1, TypeStep, PTL DEF Spec

-----------------------------------------------------------------------------
(* What is typed.                                                            *)

LEMMA CleanStep == Clean /\ Told /\ [Next]_vars => Clean' /\ Told'
<1> SUFFICES ASSUME Clean, Told, [Next]_vars PROVE Clean' /\ Told'
  OBVIOUS
<1> USE DEF Clean, Told, input, resizing, browser
<1>1. CASE StdinLoop
  BY <1>1 DEF StdinLoop, ReadLeftover, ReadBytes, ReadResize, ReadOther, ReadFails,
              Write, WriteFails, HasFrame, Return
<1>2. CASE ResizeLoop
  BY <1>2 DEF ResizeLoop, NextSize, NextNil
<1>3. CASE \E n \in 1..MaxFrame : Type(n)
  BY <1>3 DEF Type
<1>4. CASE Fit \/ Control \/ Disconnect \/ Exit \/ AttachReturns
  BY <1>4 DEF Fit, Control, Disconnect, Exit, AttachReturns
<1>5. CASE UNCHANGED vars
  BY <1>5 DEF vars
<1> QED BY <1>1, <1>2, <1>3, <1>4, <1>5 DEF Next

LEMMA KeysStep ==
  TypeOK /\ TypeOK' /\ Clean /\ TypedInOrder /\ AllTyped /\ [Next]_vars
    => TypedInOrder' /\ AllTyped'
<1> SUFFICES ASSUME TypeOK, TypeOK', Clean, TypedInOrder, AllTyped, [Next]_vars
             PROVE  TypedInOrder' /\ AllTyped'
  OBVIOUS
<1> USE DEF input, resizing, browser
<1>0. /\ typed \in Nat /\ net \in Seq(Frame)
      /\ stdin \in Seq(Nat) /\ chunk \in Seq(Nat) /\ buf \in Seq(Nat)
  BY DEF TypeOK
<1>1. /\ KeyOrder
      /\ \A b \in KeySet : 1..b \subseteq KeySet
      /\ ~gone => KeySet = 1..typed
      /\ KeySet \subseteq 1..typed
  BY Parts DEF TypedInOrder, AllTyped
<1> DEFINE Kept == /\ KeyOrder
                   /\ \A b \in KeySet : 1..b \subseteq KeySet
                   /\ ~gone => KeySet = 1..typed
                   /\ KeySet \subseteq 1..typed
<1> SUFFICES Kept'
  BY PartsNext DEF TypedInOrder, AllTyped
\* A step that moves bytes along the line, and one that leaves them alone.
<1>m. ASSUME KeyOrder', KeySet' = KeySet, typed' = typed, gone' = gone
      PROVE  Kept'
  BY <1>1, <1>m
<1>s. ASSUME UNCHANGED <<stdin, chunk, buf, net, typed, gone>>
      PROVE  KeyOrder' /\ KeySet' = KeySet /\ typed' = typed /\ gone' = gone
  BY <1>1, <1>s DEF KeyOrder, KeySet
<1>t. ASSUME NEW n \in 1..MaxFrame, Type(n)
      PROVE  Kept'
  <2> DEFINE d == Numbers(typed, n)
  <2>1. n \in Nat
    BY BoundAssumption
  <2>2. d \in Seq(Nat) /\ Elements(d) = (typed + 1)..(typed + n) /\ Increasing(d)
    BY <1>0, <2>1, NumbersAre
  <2>3. Bytes(d) \in Frame /\ KeysOf(Bytes(d)) = d
    BY <2>2, Sent, Kinds
  <2>4. UNCHANGED <<stdin, chunk, buf>> /\ net' = Append(net, Bytes(d)) /\ typed' = typed + n
        /\ KeySet = 1..typed
    BY <1>1, <1>t DEF Type
  <2> HIDE DEF d
  <2>5. /\ Held(KeyLine(net')) = Held(KeyLine(net)) \union Elements(d)
        /\ InOrder(KeyLine(net')) <=>
             /\ InOrder(KeyLine(net)) /\ Increasing(d)
             /\ Below(Held(KeyLine(net)), Elements(d))
    BY <1>0, <2>3, <2>4, SendFrame
  <2>6. Below(KeySet, Elements(d))
    BY <1>0, <2>1, <2>2, <2>4 DEF Below
  <2>7. KeyOrder'
    BY <1>1, <2>2, <2>4, <2>5, <2>6 DEF KeyOrder, KeySet, Below
  <2>8. KeySet' = 1..typed'
    <3>1. KeySet' = KeySet \union Elements(d)
      BY <2>4, <2>5 DEF KeySet
    <3> QED BY <1>0, <2>1, <2>2, <2>4, <3>1
  <2>9. typed' \in Nat
    BY <1>0, <2>1, <2>4
  <2> QED BY <2>7, <2>8, <2>9
<1>f. ASSUME NEW f \in Frame, KeysOf(f) = <<>>, net' = Append(net, f),
             UNCHANGED <<stdin, chunk, buf, typed, gone>>
      PROVE  KeyOrder' /\ KeySet' = KeySet
  <2>1. /\ Held(KeyLine(net')) = Held(KeyLine(net)) \union Elements(<<>>)
        /\ InOrder(KeyLine(net')) <=>
             /\ InOrder(KeyLine(net)) /\ Increasing(<<>>)
             /\ Below(Held(KeyLine(net)), Elements(<<>>))
    BY <1>0, <1>f, SendFrame
  <2>2. Held(KeyLine(net')) = Held(KeyLine(net)) /\ InOrder(KeyLine(net'))
    BY <1>1, <2>1, NoPiece DEF KeyOrder, Below
  <2> QED BY <1>1, <1>f, <2>2 DEF KeyOrder, KeySet
<1>2. CASE Fit
  <2>1. asked + 1 \in Nat
    BY Numbered
  <2>2. Resize(asked + 1) \in Frame /\ KeysOf(Resize(asked + 1)) = <<>>
    BY <2>1, Sent, Kinds
  <2> QED BY <1>2, <1>f, <1>m, <2>2 DEF Fit
<1>3. CASE Control
  <2>1. Other \in Frame /\ KeysOf(Other) = <<>>
    BY Sent, Kinds
  <2>2. net' = Append(net, Other)
    BY <1>3 DEF Control
  <2> QED BY <1>3, <1>f, <1>m, <2>1, <2>2 DEF Control
<1>4. CASE Disconnect
  <2>1. PICK r \in Seq(Frame) : net' \in Seq(Frame) /\ net = net' \o r
    BY <1>0, <1>4, CutQueue DEF Disconnect
  <2>2. /\ Held(KeyLine(net)) = Held(KeyLine(net')) \union Held(KeyLine(r))
        /\ InOrder(KeyLine(net'))
        /\ Below(Held(KeyLine(net')), Held(KeyLine(r)))
    BY <1>1, <2>1, JoinQueues DEF KeyOrder
  <2>3. UNCHANGED <<stdin, chunk, buf>> /\ gone'
    BY <1>4 DEF Disconnect
  <2>4. KeyOrder'
    BY <1>1, <2>2, <2>3 DEF KeyOrder, Below
  <2>5. KeySet = KeySet' \union Held(KeyLine(r)) /\ Below(KeySet', Held(KeyLine(r)))
    BY <1>1, <2>2, <2>3 DEF KeyOrder, KeySet, Below
  <2>6. KeySet' \subseteq Nat
    <3>1. KeySet \subseteq Nat
      BY <1>0, Wholes DEF KeySet
    <3> QED BY <2>5, <3>1
  <2>7. ASSUME NEW b \in KeySet', NEW x \in 1..b PROVE x \in KeySet'
    <3>1. b \in Nat /\ x <= b
      BY <2>6
    <3>2. x \in KeySet
      BY <1>1, <2>5
    <3>3. x \notin Held(KeyLine(r))
      BY <2>5, <3>1 DEF Below
    <3> QED BY <2>5, <3>2, <3>3
  <2>8. KeySet' \subseteq 1..typed'
    <3>1. typed' = typed
      BY <1>4 DEF Disconnect
    <3> QED BY <1>1, <2>5, <3>1
  <2> QED BY <2>3, <2>4, <2>7, <2>8
<1>5. CASE ReadLeftover
  <2>1. chunk = <<>> /\ chunk' = First(buf) /\ buf' = Rest(buf)
        /\ UNCHANGED <<stdin, net, typed, gone>>
    BY <1>5 DEF ReadLeftover, Return, Clean
  <2>2. /\ Elements(buf) = Elements(chunk') \union Elements(buf')
        /\ Increasing(chunk') /\ Increasing(buf')
        /\ Below(Elements(chunk'), Elements(buf'))
    BY <1>0, <1>1, <2>1, ReadSplits DEF KeyOrder
  <2>3. Elements(chunk) = {}
    BY <2>1, NoPiece
  <2>4. KeySet' = KeySet
    BY <2>1, <2>2, <2>3 DEF KeySet
  <2>5. KeyOrder'
    BY <1>1, <2>1, <2>2 DEF KeyOrder, Below
  <2> QED BY <1>m, <2>1, <2>4, <2>5
<1>6. CASE ReadBytes
  <2> DEFINE d == Head(net).data
  <2>1. chunk = <<>> /\ buf = <<>> /\ chunk' = First(d) /\ buf' = Rest(d)
        /\ net # <<>> /\ net' = Tail(net) /\ UNCHANGED <<stdin, typed, gone>>
    BY <1>6 DEF ReadBytes, HasFrame, Return, Clean
  <2>2. Head(net) \in Frame
    BY <1>0, <2>1, TakeFrame
  <2>3. d \in Seq(Nat) /\ KeysOf(Head(net)) = d
    BY <1>6, <2>2, Kinds DEF ReadBytes
  <2> HIDE DEF d
  <2>4. /\ Held(KeyLine(net)) = Elements(d) \union Held(KeyLine(net'))
        /\ Increasing(d) /\ InOrder(KeyLine(net'))
        /\ Below(Elements(d), Held(KeyLine(net')))
    BY <1>0, <1>1, <2>1, <2>3, TakeFrame DEF KeyOrder
  <2>5. /\ Elements(d) = Elements(chunk') \union Elements(buf')
        /\ Increasing(chunk') /\ Increasing(buf')
        /\ Below(Elements(chunk'), Elements(buf'))
    BY <2>1, <2>3, <2>4, ReadSplits
  <2>6. Elements(chunk) = {} /\ Elements(buf) = {}
    BY <2>1, NoPiece
  <2>7. KeySet' = KeySet
    BY <2>1, <2>4, <2>5, <2>6 DEF KeySet
  <2>8. KeyOrder'
    BY <1>1, <2>1, <2>4, <2>5 DEF KeyOrder, Below
  <2> QED BY <1>m, <2>1, <2>7, <2>8
<1>h. ASSUME net # <<>>, Head(net).kind # "bytes", net' = Tail(net),
             UNCHANGED <<stdin, chunk, buf, typed, gone>>
      PROVE  KeyOrder' /\ KeySet' = KeySet
  <2>1. Head(net) \in Frame
    BY <1>0, <1>h, TakeFrame
  <2>2. KeysOf(Head(net)) = <<>>
    BY <1>h DEF KeysOf
  <2>3. /\ Held(KeyLine(net)) = {} \union Held(KeyLine(net'))
        /\ InOrder(KeyLine(net'))
    BY <1>0, <1>1, <1>h, <2>2, TakeFrame, NoPiece DEF KeyOrder
  <2> QED BY <1>1, <1>h, <2>3 DEF KeyOrder, KeySet
<1>7. CASE ReadResize
  BY <1>7, <1>h, <1>m DEF ReadResize, HasFrame
<1>8. CASE ReadOther
  BY <1>8, <1>h, <1>m DEF ReadOther, HasFrame
<1>9. CASE Write
  <2>1. stdin' = stdin \o chunk /\ chunk' = <<>> /\ UNCHANGED <<buf, net, typed, gone>>
    BY <1>9 DEF Write
  <2>2. /\ Elements(stdin') = Elements(stdin) \union Elements(chunk)
        /\ Increasing(stdin')
    BY <1>0, <1>1, <2>1, JoinElements, JoinIncreasing DEF KeyOrder
  <2>3. Elements(chunk') = {} /\ Increasing(chunk')
    BY <2>1, NoPiece
  <2>4. KeySet' = KeySet
    BY <2>1, <2>2, <2>3 DEF KeySet
  <2>5. KeyOrder'
    BY <1>1, <2>1, <2>2, <2>3 DEF KeyOrder, Below
  <2> QED BY <1>m, <2>1, <2>4, <2>5
<1>10. CASE ReadFails \/ WriteFails \/ ResizeLoop \/ Exit \/ AttachReturns \/ UNCHANGED vars
  <2>1. UNCHANGED <<stdin, chunk, buf, net, typed, gone>>
    BY <1>10 DEF ReadFails, WriteFails, ResizeLoop, NextSize, NextNil, Exit,
                 AttachReturns, vars
  <2> QED BY <1>m, <1>s, <2>1
<1> QED BY <1>t, <1>2, <1>3, <1>4, <1>5, <1>6, <1>7, <1>8, <1>9, <1>10 DEF Next, StdinLoop

-----------------------------------------------------------------------------
(* What size it has.                                                         *)

LEMMA SizesStep ==
  TypeOK /\ TypeOK' /\ TtyFollows /\ AskedFor /\ [Next]_vars => TtyFollows' /\ AskedFor'
<1> SUFFICES ASSUME TypeOK, TypeOK', TtyFollows, AskedFor, [Next]_vars
             PROVE  TtyFollows' /\ AskedFor'
  OBVIOUS
<1> USE DEF input, resizing, browser
<1>0. /\ asked \in Nat /\ typed \in Nat /\ dropped \in Nat /\ tty \in Nat
      /\ net \in Seq(Frame) /\ sizes \in Seq(Nat)
  BY Numbered DEF TypeOK
<1>1. /\ SizeOrder /\ SizeSet \subseteq 0..asked /\ dropped <= asked
      /\ Below({dropped}, Held(SizeLine(net)))
      /\ ~gone => asked \in SizeSet \union {dropped}
  BY Parts DEF TtyFollows, AskedFor
<1> DEFINE Kept == /\ SizeOrder /\ SizeSet \subseteq 0..asked /\ dropped <= asked
                   /\ Below({dropped}, Held(SizeLine(net)))
                   /\ ~gone => asked \in SizeSet \union {dropped}
<1> SUFFICES Kept'
  BY PartsNext DEF TtyFollows, AskedFor
<1>s. ASSUME UNCHANGED <<tty, sizes, asked, dropped, gone>>,
             Held(SizeLine(net')) = Held(SizeLine(net)),
             InOrder(SizeLine(net'))
      PROVE  Kept'
  BY <1>1, <1>s DEF SizeOrder, SizeSet
<1>u. ASSUME UNCHANGED <<tty, sizes, asked, dropped, gone, net>>
      PROVE  Kept'
  BY <1>1, <1>s, <1>u DEF SizeOrder
<1>f. ASSUME NEW f \in Frame, SizesOf(f) = <<>>, net' = Append(net, f),
             UNCHANGED <<tty, sizes, asked, dropped, gone>>
      PROVE  Kept'
  <2>1. /\ Held(SizeLine(net')) = Held(SizeLine(net)) \union Elements(<<>>)
        /\ InOrder(SizeLine(net')) <=>
             /\ InOrder(SizeLine(net)) /\ Increasing(<<>>)
             /\ Below(Held(SizeLine(net)), Elements(<<>>))
    BY <1>0, <1>f, SendFrame
  <2>2. Held(SizeLine(net')) = Held(SizeLine(net)) /\ InOrder(SizeLine(net'))
    BY <1>1, <2>1, NoPiece DEF SizeOrder, Below
  <2> QED BY <1>f, <1>s, <2>2
<1>h. ASSUME net # <<>>, Head(net).kind # "resize", net' = Tail(net),
             UNCHANGED <<tty, sizes, asked, dropped, gone>>
      PROVE  Kept'
  <2>1. SizesOf(Head(net)) = <<>>
    BY <1>h DEF SizesOf
  <2>2. /\ Held(SizeLine(net)) = {} \union Held(SizeLine(net'))
        /\ InOrder(SizeLine(net'))
    BY <1>0, <1>1, <1>h, <2>1, TakeFrame, NoPiece DEF SizeOrder
  <2> QED BY <1>h, <1>s, <2>2
<1>2. ASSUME NEW n \in 1..MaxFrame, Type(n) PROVE Kept'
  <2>1. n \in Nat
    BY BoundAssumption
  <2>2. Bytes(Numbers(typed, n)) \in Frame /\ SizesOf(Bytes(Numbers(typed, n))) = <<>>
    BY <1>0, <2>1, NumbersAre, Sent, Kinds
  <2> QED BY <1>2, <1>f, <2>2 DEF Type
<1>3. CASE Fit
  <2>1. asked + 1 \in Nat
    BY <1>0
  <2>2. Resize(asked + 1) \in Frame /\ SizesOf(Resize(asked + 1)) = <<asked + 1>>
    BY <2>1, Sent, Kinds
  <2>3. /\ net' = Append(net, Resize(asked + 1)) /\ asked' = asked + 1
        /\ UNCHANGED <<tty, sizes, dropped, gone>>
    BY <1>3 DEF Fit
  <2>4. /\ Held(SizeLine(net')) = Held(SizeLine(net)) \union {asked + 1}
        /\ InOrder(SizeLine(net')) <=>
             InOrder(SizeLine(net)) /\ Below(Held(SizeLine(net)), {asked + 1})
    <3> DEFINE f == Resize(asked + 1)
    <3>1. f \in Frame /\ net' = Append(net, f) /\ SizesOf(f) = <<asked + 1>>
      BY <2>2, <2>3
    <3>2. Elements(SizesOf(f)) = {asked + 1} /\ Increasing(SizesOf(f))
      BY <2>1, <3>1, OneElement
    <3> HIDE DEF f
    <3>3. /\ Held(SizeLine(net')) = Held(SizeLine(net)) \union Elements(SizesOf(f))
          /\ InOrder(SizeLine(net')) <=>
               /\ InOrder(SizeLine(net)) /\ Increasing(SizesOf(f))
               /\ Below(Held(SizeLine(net)), Elements(SizesOf(f)))
      BY <1>0, <3>1, SendFrame
    <3> QED BY <3>2, <3>3
  <2>5. Below(SizeSet \union {dropped}, {asked + 1})
    BY <1>0, <1>1 DEF Below
  <2>6. SizeOrder'
    BY <1>1, <2>3, <2>4, <2>5 DEF SizeOrder, SizeSet, Below
  <2>7. SizeSet' = SizeSet \union {asked + 1}
    BY <2>3, <2>4 DEF SizeSet
  <2>8. SizeSet' \subseteq 0..asked' /\ dropped' <= asked' /\ asked' \in SizeSet'
    BY <1>0, <1>1, <2>3, <2>7
  <2>9. Below({dropped'}, Held(SizeLine(net')))
    BY <1>1, <2>3, <2>4, <2>5 DEF Below
  <2> QED BY <2>6, <2>8, <2>9
<1>4. CASE Control
  <2>1. Other \in Frame /\ SizesOf(Other) = <<>>
    BY Sent, Kinds
  <2>2. net' = Append(net, Other)
    BY <1>4 DEF Control
  <2> QED BY <1>4, <1>f, <2>1, <2>2 DEF Control
<1>5. CASE Disconnect
  <2>1. PICK r \in Seq(Frame) : net' \in Seq(Frame) /\ net = net' \o r
    BY <1>0, <1>5, CutQueue DEF Disconnect
  <2>2. /\ Held(SizeLine(net)) = Held(SizeLine(net')) \union Held(SizeLine(r))
        /\ InOrder(SizeLine(net'))
    BY <1>1, <2>1, JoinQueues DEF SizeOrder
  <2>3. UNCHANGED <<tty, sizes, asked, dropped>> /\ gone'
    BY <1>5 DEF Disconnect
  <2>4. SizeOrder' /\ SizeSet' \subseteq SizeSet
    BY <1>1, <2>2, <2>3 DEF SizeOrder, SizeSet, Below
  <2>5. Below({dropped'}, Held(SizeLine(net')))
    BY <1>1, <2>2, <2>3 DEF Below
  <2> QED BY <1>1, <2>3, <2>4, <2>5
<1>6. CASE ReadBytes
  BY <1>6, <1>h DEF ReadBytes, HasFrame, Return
<1>7. CASE ReadOther
  BY <1>7, <1>h DEF ReadOther, HasFrame
<1>8. CASE ReadResize
  <2> DEFINE k == Head(net).size
  <2>1. /\ net # <<>> /\ net' = Tail(net) /\ UNCHANGED <<tty, asked, gone>>
        /\ \/ sizes' = Append(sizes, k) /\ dropped' = dropped
           \/ dropped' = k /\ sizes' = sizes
    BY <1>8 DEF ReadResize, HasFrame
  <2>2. k \in Nat /\ SizesOf(Head(net)) = <<k>>
    BY <1>0, <1>8, <2>1, TakeFrame, Kinds DEF ReadResize
  <2> HIDE DEF k
  <2>3. /\ Held(SizeLine(net)) = {k} \union Held(SizeLine(net'))
        /\ InOrder(SizeLine(net')) /\ Below({k}, Held(SizeLine(net')))
    <3>1. Elements(SizesOf(Head(net))) = {k}
      BY <2>2, OneElement
    <3>2. /\ Held(SizeLine(net)) =
               Elements(SizesOf(Head(net))) \union Held(SizeLine(net'))
          /\ InOrder(SizeLine(net'))
          /\ Below(Elements(SizesOf(Head(net))), Held(SizeLine(net')))
      BY <1>0, <1>1, <2>1, TakeFrame DEF SizeOrder
    <3> QED BY <3>1, <3>2
  <2>4. dropped < k /\ k <= asked
    <3>1. k \in Held(SizeLine(net))
      BY <2>3
    <3>2. dropped < k
      BY <1>1, <3>1 DEF Below
    <3>3. k \in 0..asked
      BY <1>1, <3>1 DEF SizeSet
    <3> QED BY <1>0, <3>2, <3>3
  <2>5. CASE sizes' = Append(sizes, k) /\ dropped' = dropped
    <3>1. /\ Elements(sizes') = Elements(sizes) \union {k}
          /\ Increasing(sizes') <=> Increasing(sizes) /\ Below(Elements(sizes), {k})
      BY <1>0, <2>2, <2>5, QueueSize
    <3>2. SizeOrder'
      BY <1>1, <2>1, <2>3, <3>1 DEF SizeOrder, Below
    <3>3. SizeSet' = SizeSet
      BY <2>1, <2>3, <3>1 DEF SizeSet
    <3>4. Below({dropped'}, Held(SizeLine(net')))
      BY <1>1, <2>3, <2>5 DEF Below
    <3> QED BY <1>1, <2>1, <2>5, <3>2, <3>3, <3>4
  <2>6. CASE dropped' = k /\ sizes' = sizes
    <3>1. SizeOrder' /\ SizeSet = SizeSet' \union {k}
      BY <1>1, <2>1, <2>3, <2>6 DEF SizeOrder, SizeSet, Below
    <3>2. ~gone => asked # dropped
      BY <1>0, <2>2, <2>4
    <3> QED BY <1>1, <2>1, <2>3, <2>4, <2>6, <3>1, <3>2
  <2> QED BY <2>1, <2>5, <2>6
<1>9. CASE NextSize
  <2> DEFINE h == Head(sizes)
  <2>1. /\ sizes # <<>> /\ sizes' = Tail(sizes) /\ tty' = h
        /\ UNCHANGED <<net, asked, dropped, gone>>
    BY <1>9 DEF NextSize
  <2>2. /\ h \in Nat
        /\ Elements(sizes) = {h} \union Elements(sizes')
        /\ Increasing(sizes') /\ Below({h}, Elements(sizes'))
    BY <1>0, <1>1, <2>1, TakeSize DEF SizeOrder
  <2> HIDE DEF h
  <2>3. SizeOrder'
    BY <1>1, <2>1, <2>2 DEF SizeOrder, Below
  <2>4. SizeSet = SizeSet' \union {tty}
    BY <2>1, <2>2 DEF SizeSet
  <2>5. asked # tty
    <3>1. h \in Elements(sizes) /\ h \in SizeSet
      BY <2>2 DEF SizeSet
    <3>2. tty < h
      BY <1>1, <3>1 DEF SizeOrder, Below
    <3>3. h <= asked
      BY <1>0, <1>1, <3>1
    <3> QED BY <1>0, <2>2, <3>2, <3>3
  <2> QED BY <1>1, <2>1, <2>3, <2>4, <2>5
<1>10. CASE \/ ReadLeftover \/ ReadFails \/ Write \/ WriteFails \/ NextNil
            \/ Exit \/ AttachReturns \/ UNCHANGED vars
  <2>1. UNCHANGED <<tty, sizes, asked, dropped, gone, net>>
    BY <1>10 DEF ReadLeftover, Return, ReadFails, Write, WriteFails, NextNil, Exit,
                 AttachReturns, vars
  <2> QED BY <1>u, <2>1
<1> QED
  BY <1>2, <1>3, <1>4, <1>5, <1>6, <1>7, <1>8, <1>9, <1>10 DEF Next, StdinLoop, ResizeLoop

-----------------------------------------------------------------------------
(* What the shell is given is what was typed, from the first byte on.         *)

LEMMA PartsOfRuns ==
  ASSUME NEW a \in Nat, NEW n \in Nat
  PROVE  Run(Numbers(a, n)) /\ Run(First(Numbers(a, n))) /\ Run(Rest(Numbers(a, n)))
<1> DEFINE d == Numbers(a, n)
           m == Least(Chunk, n)
<1>1. d \in Seq(Nat) /\ Len(d) = n
  BY NumbersAre DEF Numbers
<1>2. m \in 0..n
  BY ChunkAssumption DEF Least
<1>3. \A i \in 1..n : d[i] = a + i /\ d[i] \in Nat
  BY DEF Numbers
<1>4. First(d) = Numbers(a, m)
  <2>1. /\ First(d) \in Seq(Nat) /\ Len(First(d)) = m
        /\ \A i \in 1..m : First(d)[i] = d[1 + i - 1]
    BY <1>1, <1>2, <1>3, SubSeqProperties DEF First
  <2>2. \A i \in 1..m : First(d)[i] = a + i
    <3> SUFFICES ASSUME NEW i \in 1..m PROVE First(d)[i] = a + i
      OBVIOUS
    <3>1. i \in 1..n /\ 1 + i - 1 = i
      BY <1>2
    <3> QED BY <1>3, <2>1, <3>1
  <2>3. Numbers(a, m) \in Seq(Nat) /\ Len(Numbers(a, m)) = m
        /\ \A i \in 1..m : Numbers(a, m)[i] = a + i
    <3>1. m \in Nat
      BY <1>2
    <3> QED BY <3>1, NumbersAre DEF Numbers
  <2> QED BY <2>1, <2>2, <2>3, SeqEqual
<1>5. Rest(d) = Numbers(a + m, n - m)
  <2>1. /\ Rest(d) \in Seq(Nat) /\ Len(Rest(d)) = n - m
        /\ \A i \in 1..(n - m) : Rest(d)[i] = d[m + 1 + i - 1]
    <3>1. Rest(d) = SubSeq(d, m + 1, n) /\ Len(d) = n
      BY <1>1 DEF Rest
    <3> HIDE DEF m
    <3>2. m + 1 \in Int /\ n \in Int /\ \A i \in (m + 1)..n : d[i] \in Nat
      BY <1>2, <1>3
    <3>3. n - (m + 1) + 1 = n - m
      BY <1>2
    <3>4. /\ SubSeq(d, m + 1, n) \in Seq(Nat)
          /\ Len(SubSeq(d, m + 1, n)) = IF m + 1 <= n THEN n - (m + 1) + 1 ELSE 0
          /\ \A i \in 1..(n - (m + 1) + 1) : SubSeq(d, m + 1, n)[i] = d[m + 1 + i - 1]
      BY <3>2, SubSeqProperties
    <3> QED BY <1>2, <3>1, <3>3, <3>4
  <2>2. \A i \in 1..(n - m) : Rest(d)[i] = (a + m) + i
    <3> SUFFICES ASSUME NEW i \in 1..(n - m) PROVE Rest(d)[i] = (a + m) + i
      OBVIOUS
    <3>1. m + i \in 1..n /\ m + 1 + i - 1 = m + i
      BY <1>2
    <3>2. d[m + i] = a + (m + i)
      BY <1>3, <3>1
    <3>3. Rest(d)[i] = d[m + i]
      BY <2>1, <3>1
    <3>4. a + (m + i) = (a + m) + i
      BY <1>2
    <3> QED BY <3>2, <3>3, <3>4
  <2>3. /\ Numbers(a + m, n - m) \in Seq(Nat) /\ Len(Numbers(a + m, n - m)) = n - m
        /\ \A i \in 1..(n - m) : Numbers(a + m, n - m)[i] = (a + m) + i
    <3>1. a + m \in Nat /\ n - m \in Nat
      BY <1>2
    <3> QED BY <3>1, NumbersAre DEF Numbers
  <2> HIDE DEF d, m
  <2>4. Len(Rest(d)) = Len(Numbers(a + m, n - m))
    BY <2>1, <2>3
  <2>5. \A i \in 1..Len(Rest(d)) : Rest(d)[i] = Numbers(a + m, n - m)[i]
    BY <2>1, <2>2, <2>3
  <2> QED BY <2>1, <2>3, <2>4, <2>5, SeqEqual
<1>6. Len(Numbers(a, m)) = m /\ Len(Numbers(a + m, n - m)) = n - m /\ a + m \in Nat
  BY <1>2 DEF Numbers
<1> QED BY <1>1, <1>4, <1>5, <1>6 DEF Run

\* What is read next begins where the shell's input ends.
LEMMA RunsMeet ==
  ASSUME TypeOK, TypedInOrder, Runs
  PROVE  stdin \o chunk = Line!Text(Len(stdin) + Len(chunk))
<1> DEFINE k == Len(stdin)
           m == Len(chunk)
<1>1. /\ stdin \in Seq(Nat) /\ chunk \in Seq(Nat) /\ buf \in Seq(Nat)
      /\ net \in Seq(Frame) /\ k \in Nat /\ m \in Nat
  BY DEF TypeOK
<1>2. KeyOrder /\ \A b \in KeySet : 1..b \subseteq KeySet
  BY Parts DEF TypedInOrder
<1>3. PICK a \in Nat : chunk = Numbers(a, m)
  BY DEF Runs, Run
<1>4. Elements(chunk) = (a + 1)..(a + m)
  BY <1>1, <1>3, NumbersAre
<1>5. stdin = Numbers(0, k)
  BY DEF Runs, Line!Text, Numbers
<1>6. Elements(stdin) = 1..k
  BY <1>1, <1>5, NumbersAre
<1> HIDE DEF k, m
<1>7. m # 0 => a = k
  <2> SUFFICES ASSUME m # 0 PROVE a = k
    OBVIOUS
  <2>1. a + 1 \in Elements(chunk)
    BY <1>1, <1>4
  <2>2. k < a + 1
    <3>1. k = 0 \/ k \in Elements(stdin)
      BY <1>1, <1>6
    <3> QED BY <1>1, <1>2, <2>1, <3>1 DEF KeyOrder, Below
  <2>3. k + 1 \in KeySet
    <3>1. k + 1 \in 1..(a + 1)
      BY <1>1, <2>2
    <3>2. a + 1 \in KeySet
      BY <2>1 DEF KeySet
    <3> QED BY <1>2, <3>1, <3>2
  <2>4. k + 1 \notin Elements(stdin)
    BY <1>1, <1>6
  <2>5. CASE k + 1 \in Elements(chunk)
    BY <1>1, <1>4, <2>2, <2>5
  <2>6. CASE k + 1 \in Elements(buf) \union Held(KeyLine(net))
    <3>1. a + 1 < k + 1
      BY <1>2, <2>1, <2>6 DEF KeyOrder, Below
    <3> QED BY <1>1, <2>2, <3>1
  <2> QED BY <2>3, <2>4, <2>5, <2>6 DEF KeySet
<1>8. /\ stdin \o chunk \in Seq(Nat) /\ Len(stdin \o chunk) = k + m
      /\ \A i \in 1..(k + m) :
           (stdin \o chunk)[i] = IF i <= k THEN stdin[i] ELSE chunk[i - k]
  BY <1>1, ConcatProperties DEF k, m
<1>9. \A i \in 1..(k + m) : (stdin \o chunk)[i] = i
  <2> SUFFICES ASSUME NEW i \in 1..(k + m) PROVE (stdin \o chunk)[i] = i
    OBVIOUS
  <2>1. CASE i <= k
    <3>1. stdin[i] = i
      BY <1>1, <1>5, <2>1 DEF Numbers
    <3> QED BY <1>8, <2>1, <3>1
  <2>2. CASE ~(i <= k)
    <3>1. i - k \in 1..m /\ m # 0
      BY <1>1, <2>2
    <3>2. chunk[i - k] = a + (i - k)
      BY <1>3, <3>1 DEF Numbers
    <3>3. a + (i - k) = i
      BY <1>1, <1>7, <3>1
    <3> QED BY <1>8, <2>2, <3>2, <3>3
  <2> QED BY <2>1, <2>2
<1>10. /\ Line!Text(k + m) \in Seq(Nat) /\ Len(Line!Text(k + m)) = k + m
       /\ \A i \in 1..(k + m) : Line!Text(k + m)[i] = i
  <2>1. Line!Text(k + m) = Numbers(0, k + m) /\ k + m \in Nat
    BY <1>1 DEF Line!Text, Numbers
  <2> QED BY <2>1, NumbersAre DEF Numbers
<1>11. stdin \o chunk = Line!Text(k + m)
  BY <1>8, <1>9, <1>10, SeqEqual
<1> QED BY <1>11 DEF k, m

LEMMA RunsStep ==
  TypeOK /\ TypeOK' /\ TypedInOrder /\ Runs /\ [Next]_vars => Runs'
<1> SUFFICES ASSUME TypeOK, TypeOK', TypedInOrder, Runs, [Next]_vars PROVE Runs'
  OBVIOUS
<1> USE DEF input, resizing, browser
<1>0. /\ typed \in Nat /\ asked \in Nat /\ net \in Seq(Frame)
      /\ stdin \in Seq(Nat) /\ chunk \in Seq(Nat) /\ buf \in Seq(Nat)
  BY Numbered DEF TypeOK
<1>1. Run(<<>>)
  <2>1. <<>> = Numbers(0, Len(<<>>)) /\ 0 \in Nat
    BY DEF Numbers
  <2> QED BY <2>1 DEF Run
<1>2. ASSUME NEW d \in Seq(Nat), Run(d) PROVE Run(First(d)) /\ Run(Rest(d))
  <2>1. PICK a \in Nat : d = Numbers(a, Len(d))
    BY <1>2 DEF Run
  <2>2. Len(d) \in Nat
    OBVIOUS
  <2>3. Run(First(Numbers(a, Len(d)))) /\ Run(Rest(Numbers(a, Len(d))))
    BY <2>2, PartsOfRuns
  <2> QED BY <2>1, <2>3
<1>s. ASSUME NEW f \in Frame, Run(KeysOf(f)), net' = Append(net, f),
             UNCHANGED <<stdin, chunk, buf>>
      PROVE  Runs'
  <2>1. /\ Len(net') = Len(net) + 1 /\ net'[Len(net) + 1] = f
        /\ \A i \in 1..Len(net) : net'[i] = net[i]
    BY <1>0, <1>s, AppendProperties
  <2>2. \A i \in 1..Len(net') : Run(KeysOf(net'[i]))
    <3>1. \A i \in 1..Len(net') : i \in 1..Len(net) \/ i = Len(net) + 1
      BY <1>0, <2>1
    <3> QED BY <1>s, <2>1, <3>1 DEF Runs
  <2> QED BY <1>s, <2>2 DEF Runs
<1>t. ASSUME net # <<>>, net' = Tail(net)
      PROVE  /\ Run(KeysOf(Head(net)))
             /\ \A i \in 1..Len(net') : Run(KeysOf(net'[i]))
  <2>1. /\ Len(net) \in Nat \ {0} /\ Len(net') = Len(net) - 1
        /\ \A i \in 1..Len(net') : net'[i] = net[i + 1]
    BY <1>0, <1>t, HeadTailProperties
  <2>2. \A i \in 1..Len(net') : i + 1 \in 1..Len(net)
    BY <2>1
  <2>3. Head(net) = net[1] /\ 1 \in 1..Len(net)
    BY <1>0, <1>t, <2>1
  <2> QED BY <2>1, <2>2, <2>3 DEF Runs
<1>3. ASSUME NEW n \in 1..MaxFrame, Type(n) PROVE Runs'
  <2>1. n \in Nat
    BY BoundAssumption
  <2>2. Numbers(typed, n) \in Seq(Nat) /\ Run(Numbers(typed, n))
    BY <1>0, <2>1, NumbersAre, PartsOfRuns
  <2>3. Bytes(Numbers(typed, n)) \in Frame
        /\ KeysOf(Bytes(Numbers(typed, n))) = Numbers(typed, n)
    BY <2>2, Sent, Kinds
  <2> QED BY <1>3, <1>s, <2>2, <2>3 DEF Type
<1>4. CASE Fit
  <2>1. asked + 1 \in Nat
    BY <1>0
  <2>2. Resize(asked + 1) \in Frame /\ KeysOf(Resize(asked + 1)) = <<>>
    BY <2>1, Sent, Kinds
  <2> QED BY <1>1, <1>4, <1>s, <2>2 DEF Fit
<1>5. CASE Control
  <2>1. Other \in Frame /\ KeysOf(Other) = <<>> /\ net' = Append(net, Other)
    BY <1>5, Sent, Kinds DEF Control
  <2> QED BY <1>1, <1>5, <1>s, <2>1 DEF Control
<1>6. CASE Disconnect
  <2>1. PICK n \in 0..Len(net) : net' = SubSeq(net, 1, n)
    BY <1>6 DEF Disconnect
  <2>2. Len(net) \in Nat /\ \A i \in 1..Len(net) : net[i] \in Frame
    BY <1>0
  <2>3. Len(net') = n /\ \A i \in 1..n : net'[i] = net[1 + i - 1]
    BY <2>1, <2>2, SubSeqProperties
  <2>4. \A i \in 1..n : 1 + i - 1 = i /\ i \in 1..Len(net)
    BY <2>2
  <2>5. \A i \in 1..Len(net') : Run(KeysOf(net'[i]))
    BY <2>3, <2>4 DEF Runs
  <2> QED BY <1>6, <2>5 DEF Disconnect, Runs
<1>7. CASE ReadLeftover
  <2>1. Run(chunk') /\ Run(buf')
    BY <1>0, <1>2, <1>7 DEF ReadLeftover, Return, Runs
  <2> QED BY <1>7, <2>1 DEF ReadLeftover, Runs
<1>8. CASE ReadBytes
  <2>1. net # <<>> /\ net' = Tail(net)
    BY <1>8 DEF ReadBytes, HasFrame
  <2>2. Head(net) \in Frame
    BY <1>0, <2>1, TakeFrame
  <2>3. Head(net).data \in Seq(Nat) /\ KeysOf(Head(net)) = Head(net).data
    BY <1>8, <2>2, Kinds DEF ReadBytes
  <2>4. Run(chunk') /\ Run(buf')
    BY <1>2, <1>8, <1>t, <2>1, <2>3 DEF ReadBytes, Return
  <2>5. \A i \in 1..Len(net') : Run(KeysOf(net'[i]))
    BY <1>t, <2>1
  <2> QED BY <1>8, <2>4, <2>5 DEF ReadBytes, Runs
<1>9. CASE ReadResize \/ ReadOther
  <2>1. net # <<>> /\ net' = Tail(net) /\ UNCHANGED <<stdin, chunk, buf>>
    BY <1>9 DEF ReadResize, ReadOther, HasFrame
  <2>2. \A i \in 1..Len(net') : Run(KeysOf(net'[i]))
    BY <1>t, <2>1
  <2> QED BY <2>1, <2>2 DEF Runs
<1>10. CASE Write
  <2>1. stdin' = stdin \o chunk /\ chunk' = <<>> /\ UNCHANGED <<buf, net>>
    BY <1>10 DEF Write
  <2>2. stdin' = Line!Text(Len(stdin) + Len(chunk))
    BY <2>1, RunsMeet
  <2>3. Len(stdin') = Len(stdin) + Len(chunk)
    BY <1>0, <2>1, ConcatProperties
  <2> QED BY <1>1, <2>1, <2>2, <2>3 DEF Runs
<1>11. CASE ReadFails \/ WriteFails \/ ResizeLoop \/ Exit \/ AttachReturns \/ UNCHANGED vars
  <2>1. UNCHANGED <<stdin, chunk, buf, net>>
    BY <1>11 DEF ReadFails, WriteFails, ResizeLoop, NextSize, NextNil, Exit,
                 AttachReturns, vars
  <2> QED BY <2>1 DEF Runs
<1> QED
  BY <1>3, <1>4, <1>5, <1>6, <1>7, <1>8, <1>9, <1>10, <1>11 DEF Next, StdinLoop

-----------------------------------------------------------------------------
(* Each step is one of TerminalLine, or none.                                *)

LEMMA LineInit == Init => Line!Init
BY DEF Init, Line!Init

LEMMA LineStep == IInv /\ [Next]_vars => [Line!Next]_(Line!vars)
<1> SUFFICES ASSUME IInv, [Next]_vars PROVE [Line!Next]_(Line!vars)
  OBVIOUS
<1> USE DEF IInv, input, resizing, browser, Line!vars, Line!Next
<1>0. /\ typed \in Nat /\ asked \in Nat /\ tty \in Nat
      /\ stdin \in Seq(Nat) /\ chunk \in Seq(Nat) /\ sizes \in Seq(Nat)
  BY Numbered DEF TypeOK
<1>1. ASSUME NEW n \in 1..MaxFrame, Type(n) PROVE Line!Type
  <2>1. n \in Nat \ {0}
    BY BoundAssumption
  <2> QED BY <1>0, <1>1, <2>1 DEF Type, Line!Type
<1>2. CASE Fit
  BY <1>2 DEF Fit, Line!Fit
<1>3. CASE Disconnect
  BY <1>3 DEF Disconnect, Line!Leave
<1>4. CASE Write
  <2> DEFINE n == Len(stdin) + Len(chunk)
  <2>1. stdin' = Line!Text(n)
    BY <1>4, RunsMeet DEF Write
  <2>2. n \in Len(stdin)..typed
    <3>1. Elements(stdin \o chunk) \subseteq 1..typed
      <4>1. KeySet \subseteq 1..typed
        BY Parts DEF AllTyped
      <4> QED BY <1>0, <4>1, JoinElements DEF KeySet
    <3>2. Len(stdin \o chunk) = n /\ Len(stdin) \in Nat /\ Len(chunk) \in Nat
      BY <1>0, ConcatProperties
    <3>3. n = 0 \/ n \in Elements(stdin \o chunk)
      <4>1. n # 0 => n \in 1..n /\ (stdin \o chunk)[n] = n
        BY <1>4, <2>1, <3>2 DEF Write, Line!Text
      <4> QED BY <3>2, <4>1 DEF Elements
    <3> QED BY <1>0, <3>1, <3>2, <3>3
  <2> QED BY <1>4, <2>1, <2>2 DEF Write, Line!Take
<1>5. CASE NextSize
  <2>1. SizeOrder /\ SizeSet \subseteq 0..asked
    BY Parts DEF TtyFollows, AskedFor
  <2>2. Head(sizes) \in Nat /\ Head(sizes) \in Elements(sizes)
    BY <1>0, <1>5, TakeSize DEF NextSize
  <2>3. tty < Head(sizes) /\ Head(sizes) <= asked
    BY <1>0, <2>1, <2>2 DEF SizeOrder, SizeSet, Below
  <2>4. Head(sizes) \in (tty + 1)..asked
    BY <1>0, <2>2, <2>3
  <2> QED BY <1>5, <2>4 DEF NextSize, Line!Show
<1>6. CASE \/ Control \/ ReadLeftover \/ ReadBytes \/ ReadResize \/ ReadOther \/ ReadFails
           \/ WriteFails \/ NextNil \/ Exit \/ AttachReturns \/ UNCHANGED vars
  <2>1. UNCHANGED <<typed, asked, gone, stdin, tty>>
    BY <1>6 DEF Control, ReadLeftover, ReadBytes, ReadResize, ReadOther, ReadFails,
                Return, WriteFails, NextNil, Exit, AttachReturns, vars
  <2> QED BY <2>1
<1> QED BY <1>1, <1>2, <1>3, <1>4, <1>5, <1>6 DEF Next, StdinLoop, ResizeLoop

-----------------------------------------------------------------------------
(* The theorems.                                                             *)

LEMMA InvStep == IInv /\ [Next]_vars => IInv'
BY TypeStep, CleanStep, KeysStep, RunsStep, SizesStep DEF IInv

\* The invariant that carries the theorems below holds in every behaviour.
THEOREM Inductive == Spec => []IInv
BY InitInv, InvStep, PTL DEF Spec

\* For frames and reads of any size: what the learner types reaches the shell as
\* typed, once and whole, with nothing lost but at a lost connection
\* (wsstream.go:40-76).
THEOREM Typed == Spec => []TypedInOrder
<1>1. IInv => TypedInOrder
  BY DEF IInv
<1> QED BY <1>1, Inductive, PTL

\* For a queue of any capacity: a size that was replaced never comes back, and
\* the last one is applied, on its way, or was dropped (wsstream.go:58-61).
THEOREM Follows == Spec => []TtyFollows
<1>1. IInv => TtyFollows
  BY DEF IInv
<1> QED BY <1>1, Inductive, PTL

\* The bridge implements TerminalLine: the shell is only ever given more of what
\* was typed, from the first byte on, and only ever newer sizes.
THEOREM BridgeImplementsLine == Spec => LineSpec
<1>1. Spec => Line!Init /\ [][Line!Next]_(Line!vars)
  BY LineInit, LineStep, Inductive, PTL DEF Spec
<1> QED BY <1>1 DEF LineSpec, Line!Spec

\* The channel that tells Next is closed by a Read that fails, and then by no
\* other: a second close would panic (wsstream.go:42-49).
THEOREM ClosedOnce == Spec => [](reader = "read" => ~closed)
<1>1. IInv => (reader = "read" => ~closed)
  BY DEF IInv, Told
<1> QED BY <1>1, Inductive, PTL
=============================================================================
