----------------------------- MODULE MCBatchJobs -----------------------------
(* More articles than places in the semaphore.                             *)
EXTENDS BatchJobs, TLC

CONSTANTS j1, j2, j3, j4
=============================================================================
