--------------------------- MODULE MCBreakerCalls ---------------------------
(* BreakerCalls on a small instance.                                         *)
EXTENDS BreakerCalls
=============================================================================
