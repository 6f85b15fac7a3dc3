\* One device; two logins, two refreshes, one call of each other kind.
SPECIFICATION Spec
CONSTANTS
    Devices = {d1}
    Logins = {l1, l2}
    Refreshes = {r1, r2}
    Logouts = {o1}
    Revocations = {v1}
    Enrolments = {e1}
    Suspensions = {s1}
    Reactivations = {a1}
    None = None
INVARIANTS TokenSpentOnce ReplayEndsSession RevokedHoldsNoSession LogoutIsFinal
PROPERTIES EndedStaysEnded NoExchangeWhileRestricted ImplementsSingleUse
SYMMETRY Symmetry
CHECK_DEADLOCK FALSE
