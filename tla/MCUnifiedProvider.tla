-------------------------- MODULE MCUnifiedProvider --------------------------
(* UnifiedProvider on small instances.                                        *)
EXTENDS UnifiedProvider, TLC

\* The callers are interchangeable: no action or safety property names one.
CallerSymmetry == Permutations(Callers)
=============================================================================
