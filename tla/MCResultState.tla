--------------------------- MODULE MCResultState ---------------------------
(* The sets of operations under which a result is checked. *)
EXTENDS ResultState

\* Everything the API offers.
MCOps == AllOps

\* A timed wait, and the destructor after it.
RewindOps == {"wait_for", "drop"}
=============================================================================
