------------------------- MODULE MCServiceLifecycle -------------------------
(* Small instances of ServiceLifecycle for TLC: one storage between the     *)
(* HTTP server and the job engine.                                          *)
EXTENDS ServiceLifecycle, TLC

CONSTANTS http, pg, redis, jobs

OneStore == <<http, pg, jobs>>
=============================================================================
