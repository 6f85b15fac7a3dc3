\* At most three sends, three verifications and two logins on two devices.
SPECIFICATION CastSpec
CONSTANTS
    Sends = {s1, s2, s3}
    Verifies = {v1, v2, v3}
    Logins = {l1, l2}
    Devices = {d1, d2}
    MaxFailures = 2
    None = None
INVARIANTS CooldownHolds SentIsVerifiable GuessesPerCode
PROPERTY ImplementsTrust
SYMMETRY Symmetry
CHECK_DEADLOCK FALSE
