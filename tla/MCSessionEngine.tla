--------------------------- MODULE MCSessionEngine ---------------------------
(* Small instances of SessionEngine for TLC. *)
EXTENDS SessionEngine, TLC

\* An idle window shorter than the hard cap, and idle GC disabled.
MCIdleTTLs == {1, -2}
OneIdleTTL == {1}
=============================================================================
