---------------------------- MODULE MCLocalStore ----------------------------
(* LocalStore on small instances.                                            *)
EXTENDS LocalStore, TLC

\* Callers and memories are interchangeable: no action or property names one.
Symmetry == Permutations(Callers) \union Permutations(Memories)
=============================================================================
