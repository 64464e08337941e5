----------------------- MODULE MCWorkerThreadExecutor -----------------------
(* Two client threads and the worker; enough tasks for two swaps of the     *)
(* queues, a local task and a stale permit of the semaphore.                *)
EXTENDS WorkerThreadExecutor
=============================================================================
