--------------------------- MODULE MCSharedResult ---------------------------
(* Three consumers: enough for two awaiters to race on the stack while a    *)
(* third one blocks, times out or drops its copy.                           *)
EXTENDS SharedResult
=============================================================================
