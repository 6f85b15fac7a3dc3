\* Attempts under one key: the first, a retry, and a retry that overlaps it.
SPECIFICATION Spec
CONSTANTS
    k1 = k1
    Attempts = {a1, a2, a3}
    Keys = {k1}
    KeyOf <- MCKeyOf
INVARIANTS MarkerExcludes CacheIsTrue SuccessIsRemembered BlockedOnlyByLoss
PROPERTIES ResponseIsKept ImplementsOnce
\* Attempts are finite: when all are answered and Redis is empty, it ends.
CHECK_DEADLOCK FALSE
