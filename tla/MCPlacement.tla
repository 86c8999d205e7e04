----------------------------- MODULE MCPlacement -----------------------------
(* A small instance of Placement for TLC: see Placement_core.cfg. *)
EXTENDS Placement

\* Two nodes, with CPUs numbered as Linux often does: alternating.
TwoNodes == <<<<0, 2>>, <<1, 3, 5>>>>
\* One CPU of the first node may be used and two of the second.
OneTwo == <<1, 2>>
=============================================================================
