--------------------------- MODULE PhoneRegistry ---------------------------
(***************************************************************************)
(* What registration promises for one phone: it gets at most one account,  *)
(* once, and a business account only in the same step that uses up an      *)
(* approval, with the role that was approved.                              *)
(***************************************************************************)
CONSTANTS Registrations, Grants, BusinessRoles, None

VARIABLES
    account, \* None, or the account of the phone
    approval \* None, or the business approval of the phone

vars == <<account, approval>>

Init == account = None /\ approval = None

Create(c, role) ==
    /\ account = None
    /\ account' = [by |-> c, role |-> role]

RegisterPersonal(c) == Create(c, "CUSTOMER") /\ UNCHANGED approval

RegisterBusiness(c) ==
    /\ approval # None
    /\ ~approval.activated
    /\ Create(c, approval.role)
    /\ approval' = [approval EXCEPT !.activated = TRUE]

\* An approval is given once, and again when it has expired unused.
Approve(a, role) ==
    /\ approval # None => ~approval.activated /\ ~approval.valid
    /\ approval' = [by |-> a, role |-> role, valid |-> TRUE, activated |-> FALSE]
    /\ UNCHANGED account

Expire ==
    /\ approval # None
    /\ approval' = [approval EXCEPT !.valid = FALSE]
    /\ UNCHANGED account

Next ==
    \/ \E c \in Registrations : RegisterPersonal(c) \/ RegisterBusiness(c)
    \/ \E a \in Grants, role \in BusinessRoles : Approve(a, role)
    \/ Expire

Spec == Init /\ [][Next]_vars
=============================================================================
