\* A key is processed again after a success was reported under it.
SPECIFICATION Spec
CONSTANTS
    k1 = k1
    Attempts = {a1, a2, a3}
    Keys = {k1}
    KeyOf <- MCKeyOf
INVARIANT NotReprocessed
CHECK_DEADLOCK FALSE
