--------------------------- MODULE TerminalStream ---------------------------
(***************************************************************************)
(* One terminal of a lesson: the browser's WebSocket, the adapter of       *)
(* internal/terminal/wsstream.go and the two loops of the exec stream that *)
(* use it (client-go's remotecommand): one copies Read into the shell's    *)
(* stdin, the other takes sizes from Next and resizes the shell's TTY.     *)
(*                                                                         *)
(* Typed bytes and sizes are numbered in the order the browser sends them. *)
(***************************************************************************)
EXTENDS Naturals, Sequences

CONSTANTS
  Chunk,      \* bytes one Read has room for
  Cap,        \* capacity of wsStream.sizes (4)
  MaxFrame,   \* bound: bytes of a frame
  MaxTyped,   \* bound: bytes typed
  MaxAsked    \* bound: sizes the browser sends

ASSUME ChunkAssumption == Chunk \in Nat \ {0}
ASSUME BoundAssumption == {Cap, MaxFrame, MaxTyped, MaxAsked} \subseteq Nat

VARIABLES
  net, gone,         \* frames in the socket; the browser's end is closed
  served,            \* Attach has returned and closed the server's end
  reader,            \* the stdin loop: "read", "write", "ended" or "failed"
  buf, chunk,        \* wsStream.buf; what Read returned, not yet written
  sizes, closed,     \* the two channels of wsStream
  resizer,           \* the resize loop: "next" or "ended"
  shell,             \* the exec runs
  stdin, tty,        \* what the exec stream took, and the size of the TTY
  typed, asked,      \* history: bytes and sizes the browser has sent
  dropped            \* history: the last size Read dropped

input == <<reader, buf, chunk, stdin>>
resizing == <<sizes, closed, resizer, tty, dropped>>
browser == <<typed, asked>>
vars == <<net, gone, served, shell, input, resizing, browser>>

Numbers(a, n) == [i \in 1..n |-> a + i]

Bytes(d) == [kind |-> "bytes", data |-> d]
Resize(k) == [kind |-> "resize", size |-> k]
Other == [kind |-> "other"]   \* no JSON, no resize, or a size of zero

Init ==
  /\ net = <<>> /\ gone = FALSE /\ served = FALSE
  /\ reader = "read" /\ buf = <<>> /\ chunk = <<>>
  /\ sizes = <<>> /\ closed = FALSE /\ resizer = "next"
  /\ shell = TRUE /\ stdin = <<>> /\ tty = 0
  /\ typed = 0 /\ asked = 0 /\ dropped = 0

-----------------------------------------------------------------------------
(* The browser.                                                              *)

Type(n) ==
  /\ ~gone /\ typed + n <= MaxTyped
  /\ net' = Append(net, Bytes(Numbers(typed, n)))
  /\ typed' = typed + n
  /\ UNCHANGED <<gone, served, shell, input, resizing, asked>>

Fit ==
  /\ ~gone /\ asked < MaxAsked
  /\ net' = Append(net, Resize(asked + 1))
  /\ asked' = asked + 1
  /\ UNCHANGED <<gone, served, shell, input, resizing, typed>>

Control ==
  /\ ~gone /\ net = <<>>
  /\ net' = <<Other>>
  /\ UNCHANGED <<gone, served, shell, input, resizing, browser>>

\* The tab or its connection goes; what has not arrived by then never will.
Disconnect ==
  /\ ~gone
  /\ gone' = TRUE
  /\ \E n \in 0..Len(net) : net' = SubSeq(net, 1, n)
  /\ UNCHANGED <<served, shell, input, resizing, browser>>

-----------------------------------------------------------------------------
(* The stdin loop: wsStream.Read, then a write to the exec stream.           *)

Least(a, b) == IF a < b THEN a ELSE b

\* As much of d as Read has room for, and the rest.
First(d) == SubSeq(d, 1, Least(Chunk, Len(d)))
Rest(d) == SubSeq(d, Least(Chunk, Len(d)) + 1, Len(d))

Return(d) == chunk' = First(d) /\ buf' = Rest(d) /\ reader' = "write"

ReadLeftover ==
  /\ reader = "read" /\ buf # <<>>
  /\ Return(buf)
  /\ UNCHANGED <<net, gone, served, shell, stdin, resizing, browser>>

\* ReadMessage has a frame.
HasFrame == reader = "read" /\ ~served /\ net # <<>>

\* Mutant: the next message is read over what is left of the last one.
ReadBytesOver ==
  /\ reader = "read" /\ ~served /\ net # <<>> /\ Head(net).kind = "bytes"
  /\ Return(Head(net).data)
  /\ net' = Tail(net)
  /\ UNCHANGED <<gone, served, shell, stdin, resizing, browser>>

ReadBytes ==
  /\ HasFrame /\ buf = <<>> /\ Head(net).kind = "bytes"
  /\ Return(Head(net).data)
  /\ net' = Tail(net)
  /\ UNCHANGED <<gone, served, shell, stdin, resizing, browser>>

\* A resize goes to the queue, or nowhere when the queue is full.
ReadResize ==
  /\ HasFrame /\ buf = <<>> /\ Head(net).kind = "resize"
  /\ net' = Tail(net)
  /\ IF Len(sizes) < Cap
     THEN sizes' = Append(sizes, Head(net).size) /\ UNCHANGED dropped
     ELSE dropped' = Head(net).size /\ UNCHANGED sizes
  /\ UNCHANGED <<gone, served, shell, input, closed, resizer, tty, browser>>

\* Mutant: a control frame is taken for the end of the input.
ReadOtherEnds ==
  /\ HasFrame /\ buf = <<>> /\ Head(net).kind = "other"
  /\ net' = Tail(net)
  /\ reader' = "ended"
  /\ UNCHANGED <<gone, served, shell, buf, chunk, stdin, resizing, browser>>

ReadOther ==
  /\ HasFrame /\ buf = <<>> /\ Head(net).kind = "other"
  /\ net' = Tail(net)
  /\ UNCHANGED <<gone, served, shell, input, resizing, browser>>

\* Mutant: the error is returned, and nobody else is told.
ReadFailsQuietly ==
  /\ reader = "read" /\ buf = <<>>
  /\ served \/ (gone /\ net = <<>>)
  /\ reader' = "ended"
  /\ UNCHANGED <<net, gone, served, shell, buf, chunk, stdin, resizing, browser>>

\* ReadMessage fails: the loop ends, and tells Next.
ReadFails ==
  /\ reader = "read" /\ buf = <<>>
  /\ served \/ (gone /\ net = <<>>)
  /\ closed' = TRUE
  /\ reader' = "ended"
  /\ UNCHANGED <<net, gone, served, shell, buf, chunk, stdin, sizes, resizer, tty,
                 dropped, browser>>

\* Also a write to a shell that is gone may be taken by the stream.
Write ==
  /\ reader = "write"
  /\ stdin' = stdin \o chunk
  /\ chunk' = <<>>
  /\ reader' = "read"
  /\ UNCHANGED <<net, gone, served, shell, buf, resizing, browser>>

\* The write fails: the loop ends without another Read, and nobody tells Next.
WriteFails ==
  /\ reader = "write" /\ ~shell
  /\ reader' = "failed"
  /\ UNCHANGED <<net, gone, served, shell, buf, chunk, stdin, resizing, browser>>

-----------------------------------------------------------------------------
(* The resize loop: wsStream.Next, then a resize of the TTY.                 *)

\* Mutant: the newest of the queued sizes first.
NextNewest ==
  /\ resizer = "next" /\ sizes # <<>>
  /\ sizes' = SubSeq(sizes, 1, Len(sizes) - 1)
  /\ tty' = sizes[Len(sizes)]
  /\ UNCHANGED <<net, gone, served, shell, input, closed, resizer, dropped, browser>>

NextSize ==
  /\ resizer = "next" /\ sizes # <<>>
  /\ sizes' = Tail(sizes)
  /\ tty' = Head(sizes)
  /\ UNCHANGED <<net, gone, served, shell, input, closed, resizer, dropped, browser>>

\* With a size queued as well the select takes either.
NextNil ==
  /\ resizer = "next" /\ closed
  /\ resizer' = "ended"
  /\ UNCHANGED <<net, gone, served, shell, input, sizes, closed, tty, dropped, browser>>

-----------------------------------------------------------------------------
(* The exec.                                                                 *)

\* The shell exits, or the stream to it breaks.
Exit ==
  /\ shell
  /\ shell' = FALSE
  /\ UNCHANGED <<net, gone, served, input, resizing, browser>>

\* The exec ends with the shell, or with output nobody takes; Attach closes
\* the socket when it returns.
AttachReturns ==
  /\ ~served
  /\ ~shell \/ gone
  /\ served' = TRUE
  /\ shell' = FALSE
  /\ UNCHANGED <<net, gone, input, resizing, browser>>

StdinLoop ==
  \/ ReadLeftover \/ ReadBytes \/ ReadResize \/ ReadOther \/ ReadFails
  \/ Write \/ WriteFails

ResizeLoop == NextSize \/ NextNil

Next ==
  \/ \E n \in 1..MaxFrame : Type(n)
  \/ Fit \/ Control \/ Disconnect
  \/ StdinLoop \/ ResizeLoop
  \/ Exit \/ AttachReturns

\* The two loops run on; the shell reads its input or exits.
Spec == Init /\ [][Next]_vars /\ WF_vars(StdinLoop) /\ WF_vars(ResizeLoop)

Line == INSTANCE TerminalLine

-----------------------------------------------------------------------------
(* Properties.                                                               *)

Frame == [kind : {"bytes"}, data : Seq(Nat)] \union [kind : {"resize"}, size : Nat]
         \union {Other}

\* Every variable keeps its type.
TypeOK ==
  /\ net \in Seq(Frame) /\ gone \in BOOLEAN /\ served \in BOOLEAN
  /\ reader \in {"read", "write", "ended", "failed"}
  /\ buf \in Seq(Nat) /\ chunk \in Seq(Nat) /\ stdin \in Seq(Nat)
  /\ sizes \in Seq(Nat) /\ closed \in BOOLEAN /\ resizer \in {"next", "ended"}
  /\ shell \in BOOLEAN
  /\ {tty, typed, asked, dropped} \subseteq Nat

\* A line of pieces, each a sequence of numbers: all that is in it, and that it
\* is in order, within every piece and from one to the next.
Elements(s) == {s[i] : i \in 1..Len(s)}
Increasing(s) == \A i, j \in 1..Len(s) : i < j => s[i] < s[j]
Below(X, Y) == \A x \in X, y \in Y : x < y

Held(line) == UNION {Elements(line[i]) : i \in 1..Len(line)}
InOrder(line) ==
  /\ \A i \in 1..Len(line) : Increasing(line[i])
  /\ \A i, j \in 1..Len(line) : i < j => Below(Elements(line[i]), Elements(line[j]))

\* Typed bytes, from the shell's end to the browser's.
KeysOf(f) == IF f.kind = "bytes" THEN f.data ELSE <<>>
KeyLine(q) == [i \in 1..Len(q) |-> KeysOf(q[i])]
Keys == <<stdin, chunk, buf>> \o KeyLine(net)

\* Sizes, from the TTY's to the browser's.
SizesOf(f) == IF f.kind = "resize" THEN <<f.size>> ELSE <<>>
SizeLine(q) == [i \in 1..Len(q) |-> SizesOf(q[i])]
Sizes == << <<tty>>, sizes >> \o SizeLine(net)

\* What the learner types arrives as typed, once and whole, however frames,
\* Read's buffer and control frames fall (wsstream.go:40-76): it is in order,
\* nothing is missing before a byte that arrives, and nothing at all unless the
\* connection is lost.
TypedInOrder ==
  /\ InOrder(Keys)
  /\ \A b \in Held(Keys) : 1..b \subseteq Held(Keys)
  /\ ~gone => Held(Keys) = 1..typed

\* Every byte typed reaches the shell, unless the tab, the shell or the exec
\* ends first: no frame before it and no half-read buffer holds it up.
Delivered ==
  \A b \in 1..MaxTyped :
    typed >= b ~> (Len(stdin) >= b \/ gone \/ served \/ ~shell)

\* A size the browser replaced never comes back, and the last one it sent is
\* applied, on its way, or was dropped at a full queue (wsstream.go:58-61).
TtyFollows ==
  /\ InOrder(Sizes)
  /\ ~gone => asked \in Held(Sizes) \union {dropped}

\* The bridge is what TerminalLine promises: each step gives the shell more of
\* what was typed, from the first byte on, or a newer size, or nothing.
LineSpec == Line!Spec

\* Next "returns nil once the socket is gone (which stops the executor's resize
\* loop)" (wsstream.go:84-86): unless the stdin loop ended on a write first,
\* which reads no more and so never closes the channel.
ResizeLoopEnds == (gone \/ served) ~> (resizer = "ended" \/ reader = "failed")
=============================================================================
