--------------------------- MODULE MCRegistration ---------------------------
(***************************************************************************)
(* Calls of one kind are interchangeable.                                  *)
(***************************************************************************)
EXTENDS Registration, TLC

Symmetry ==
    UNION {Permutations(K) : K \in {Verifications, Personals, Businesses, Approvals}}
=============================================================================
