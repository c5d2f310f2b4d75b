--------------------------- MODULE MCConsolidator ---------------------------
(* Consolidator on small instances.                                          *)
EXTENDS Consolidator, TLC

\* Entries, contents, IDs and callers are interchangeable: no action or property
\* names one.
Symmetry == Permutations(Entries) \union Permutations(Contents)
               \union Permutations(IDs) \union Permutations(Callers)
=============================================================================
