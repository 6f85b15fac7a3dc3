----------------------------- MODULE MCSessions -----------------------------
(***************************************************************************)
(* Calls of one kind are interchangeable.                                  *)
(***************************************************************************)
EXTENDS Sessions, TLC

Symmetry ==
    UNION {Permutations(K) : K \in {Logins, Refreshes, Devices}}
=============================================================================
