---------------------------- MODULE MCLifecycle ----------------------------
(***************************************************************************)
(* Lifecycle with the timeouts of .env.example.                            *)
(***************************************************************************)
EXTENDS Lifecycle

CONSTANTS r1, r2, slotWorker

TwoRequests == {r1, r2}
=============================================================================
