---------------------------- MODULE MCTaskQueue ----------------------------
(* TaskQueue on small instances: one client with a job for each worker, as  *)
(* RCBProc has, and one with more or fewer.                                 *)
EXTENDS TaskQueue, TLC

CONSTANTS a, b

MCClients == {a, b}
MCJobs == (a :> 2) @@ (b :> 3)
=============================================================================
