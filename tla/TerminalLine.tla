---------------------------- MODULE TerminalLine ----------------------------
(***************************************************************************)
(* What a terminal promises its learner, however its socket, its adapter   *)
(* and its two loops are built: the shell is given what was typed, from    *)
(* the first byte on, and its TTY takes ever newer sizes.                  *)
(***************************************************************************)
EXTENDS Naturals, Sequences

VARIABLES
  typed, asked,   \* bytes typed and sizes asked for so far, both numbered
  gone,           \* the learner has left
  stdin, tty      \* what the shell was given, and its size

vars == <<typed, asked, gone, stdin, tty>>

\* The first n bytes typed.
Text(n) == [i \in 1..n |-> i]

Init == typed = 0 /\ asked = 0 /\ gone = FALSE /\ stdin = <<>> /\ tty = 0

Type ==
  /\ ~gone
  /\ typed' \in Nat /\ typed' > typed
  /\ UNCHANGED <<asked, gone, stdin, tty>>

Fit ==
  /\ ~gone
  /\ asked' = asked + 1
  /\ UNCHANGED <<typed, gone, stdin, tty>>

Leave ==
  /\ ~gone
  /\ gone' = TRUE
  /\ UNCHANGED <<typed, asked, stdin, tty>>

\* The shell is given more of what was typed.
Take ==
  /\ \E n \in Len(stdin)..typed : stdin' = Text(n)
  /\ UNCHANGED <<typed, asked, gone, tty>>

\* Its size becomes a newer one.
Show ==
  /\ \E k \in (tty + 1)..asked : tty' = k
  /\ UNCHANGED <<typed, asked, gone, stdin>>

Next == Type \/ Fit \/ Leave \/ Take \/ Show

Spec == Init /\ [][Next]_vars
=============================================================================
