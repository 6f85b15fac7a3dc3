\* Two proofs; a personal and two business registrations; three approvals.
SPECIFICATION Spec
CONSTANTS
    Verifications = {v1, v2}
    Personals = {p1}
    Businesses = {b1, b2}
    Approvals = {a1, a2, a3}
    None = None
INVARIANTS ProofSpentOnce BusinessIsApproved AnswersMatchAccount
PROPERTY ImplementsRegistry
SYMMETRY Symmetry
CHECK_DEADLOCK FALSE
