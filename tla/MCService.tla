------------------------------- MODULE MCService -------------------------------
(* The service with its readiness probe on a small instance.                 *)
EXTENDS Service
=============================================================================
