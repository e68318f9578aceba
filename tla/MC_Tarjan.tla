------------------------------ MODULE MC_Tarjan ------------------------------
(* Instances of Tarjan for TLC.                                            *)
EXTENDS Tarjan

\* x_i - x_j <= -1 and x_i - x_j < 1: together a cycle of length zero that is
\* negative because one bound is strict.
StrictBounds == {-1, 2}
=============================================================================
