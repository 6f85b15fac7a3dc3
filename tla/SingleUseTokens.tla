--------------------------- MODULE SingleUseTokens ---------------------------
(***************************************************************************)
(* What a refresh token is worth: each device has at most one live token,  *)
(* a token is exchanged for the next one at most once, and one that was    *)
(* exchanged or ended is never live again.                                 *)
(***************************************************************************)
CONSTANTS Devices, Tokens, None

VARIABLES
    live,   \* the token a device may exchange, or None
    minted, \* tokens that were ever live
    spent   \* tokens that were exchanged

vars == <<live, minted, spent>>

Init ==
    /\ live = [d \in Devices |-> None]
    /\ minted = {}
    /\ spent = {}

MakeLive(d, t) ==
    /\ t \notin minted
    /\ live' = [live EXCEPT ![d] = t]
    /\ minted' = minted \cup {t}

\* A login.
Establish(d, t) == MakeLive(d, t) /\ UNCHANGED spent

\* A refresh.
Exchange(d, t) ==
    /\ live[d] # None
    /\ live[d] \notin spent
    /\ MakeLive(d, t)
    /\ spent' = spent \cup {live[d]}

\* A logout, a replay, a revocation, an enrolment, a suspension.
End(S) ==
    /\ live' = [d \in Devices |-> IF d \in S THEN None ELSE live[d]]
    /\ UNCHANGED <<minted, spent>>

Next ==
    \/ \E d \in Devices, t \in Tokens : Establish(d, t) \/ Exchange(d, t)
    \/ \E S \in SUBSET Devices : End(S)

Spec == Init /\ [][Next]_vars
=============================================================================
