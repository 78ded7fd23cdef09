-------------------------- MODULE MCExerciseVerify --------------------------
(* A small instance of ExerciseVerify for TLC. *)
EXTENDS ExerciseVerify, TLC

CONSTANTS t1, t2, p1, j1, j2, alice

Tabs == {t1, t2}
Senders == {t1, t2, p1, j1, j2}

A(who, site, accounts, broken, code, ships) ==
  [cast |-> who, sameSite |-> site, social |-> accounts, faulty |-> broken,
   setup |-> [p \in {p1} |-> [hash |-> code, button |-> ships]]]

\* A result page beside a tab of the platform, pages on a site of their own
\* or with a broken library, and two tabs that both log in.
Scenarios ==
  {A({t1, p1, j1, j2}, TRUE, FALSE, FALSE, "known", TRUE),
   A({t1, p1, j1}, TRUE, TRUE, FALSE, "known", FALSE),
   A({p1, j1, j2}, FALSE, FALSE, FALSE, "known", TRUE),
   A({p1, j1, j2}, FALSE, FALSE, FALSE, "known", FALSE),
   A({p1, j1, j2}, TRUE, FALSE, TRUE, "unknown", TRUE),
   A({p1, j1}, TRUE, FALSE, FALSE, "unknown", FALSE),
   A({p1}, TRUE, FALSE, FALSE, "none", FALSE),
   A({t1, t2}, TRUE, TRUE, FALSE, "none", FALSE)}
=============================================================================
