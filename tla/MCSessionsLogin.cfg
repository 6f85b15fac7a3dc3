\* A login whose account is suspended while it waits for its device's row.
SPECIFICATION Spec
CONSTANTS
    Devices = {d1}
    Logins = {l1}
    Refreshes = {}
    Logouts = {}
    Revocations = {}
    Enrolments = {}
    Suspensions = {s1}
    Reactivations = {a1}
    None = None
PROPERTY NoSessionWhileRestricted
CHECK_DEADLOCK FALSE
