--------------------------- MODULE MCLoginThrottle ---------------------------
(***************************************************************************)
(* As by default, the counter outlives the throttle.                       *)
(***************************************************************************)
EXTENDS LoginThrottle, TLC
=============================================================================
