--------------------------- MODULE MCFusionEngine ---------------------------
(* FusionEngine on small instances.                                          *)
EXTENDS FusionEngine, TLC

\* The callers are interchangeable: no action or property names one.
CallerSymmetry == Permutations(Callers)
=============================================================================
