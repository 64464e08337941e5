----------------------------- MODULE MCWhenAny -----------------------------
(* Three results and three calls: a producer that lost the first call can   *)
(* still be inside try_resume during the third.                             *)
EXTENDS WhenAny
=============================================================================
