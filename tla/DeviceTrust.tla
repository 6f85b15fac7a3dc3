----------------------------- MODULE DeviceTrust -----------------------------
(***************************************************************************)
(* What verifying a device promises: a device becomes trusted only in      *)
(* exchange for two factors, a one-time password sent to the phone and an  *)
(* authorization that a login with the right PIN received.  Both were      *)
(* asked for on this very device, and neither is worth anything again.     *)
(***************************************************************************)
CONSTANTS Devices, Codes, Authorizations, None

Factors == Codes \cup Authorizations

VARIABLES
    trusted, \* devices that may log in
    boundTo, \* the device each factor was asked for on
    spent    \* factors given for a device's trust

vars == <<trusted, boundTo, spent>>

Init ==
    /\ trusted \subseteq Devices
    /\ boundTo = [f \in Factors |-> None]
    /\ spent = {}

Bind(f, d) ==
    /\ boundTo[f] = None
    /\ boundTo' = [boundTo EXCEPT ![f] = d]
    /\ UNCHANGED <<trusted, spent>>

Trust(d, code, authorization) ==
    /\ boundTo[code] = d /\ boundTo[authorization] = d
    /\ {code, authorization} \cap spent = {}
    /\ trusted' = trusted \cup {d}
    /\ spent' = spent \cup {code, authorization}
    /\ UNCHANGED boundTo

Revoke(d) ==
    /\ trusted' = trusted \ {d}
    /\ UNCHANGED <<boundTo, spent>>

Next ==
    \E d \in Devices :
        \/ \E f \in Factors : Bind(f, d)
        \/ \E code \in Codes, authorization \in Authorizations : Trust(d, code, authorization)
        \/ Revoke(d)

Spec == Init /\ [][Next]_vars
=============================================================================
