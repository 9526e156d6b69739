---------------------------- MODULE MCVirtioQueue ----------------------------
(* A queue of a few buffers whose indices wrap during the run.             *)
EXTENDS VirtioQueueProperties
=============================================================================
