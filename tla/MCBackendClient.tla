-------------------------- MODULE MCBackendClient ---------------------------
(* BackendClient on small instances: two callers of each client.             *)
EXTENDS BackendClient
=============================================================================
