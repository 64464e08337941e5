---------------------------- MODULE MCAsyncLock ----------------------------
(* Four tasks, one of them with an inline executor: the holder, two waiters *)
(* and one that barges in between.                                          *)
EXTENDS AsyncLock
=============================================================================
