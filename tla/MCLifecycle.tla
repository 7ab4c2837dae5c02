----------------------------- MODULE MCLifecycle -----------------------------
(* Small instances of ServiceLifecycle for TLC. *)
EXTENDS LifecycleProperties

CONSTANTS s1, s2, r1, r2
=============================================================================
