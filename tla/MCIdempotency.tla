---------------------------- MODULE MCIdempotency ----------------------------
(***************************************************************************)
(* Every attempt under the one key: in the code keys never meet.           *)
(***************************************************************************)
EXTENDS Idempotency

CONSTANT k1

MCKeyOf == [a \in Attempts |-> k1]
=============================================================================
