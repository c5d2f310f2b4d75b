--------------------------- MODULE MCProviderReads ---------------------------
(* ProviderReads on a small instance.                                         *)
EXTENDS ProviderReads
=============================================================================
