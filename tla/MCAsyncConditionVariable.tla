---------------------- MODULE MCAsyncConditionVariable ----------------------
(* Two or three tasks that lock, await and notify without end.              *)
EXTENDS AsyncConditionVariable
=============================================================================
