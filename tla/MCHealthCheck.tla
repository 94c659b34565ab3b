---------------------------- MODULE MCHealthCheck ----------------------------
(* Two health checks, sharing the test key, while services go down. *)
EXTENDS HealthCheck

CONSTANTS k1, k2
=============================================================================
