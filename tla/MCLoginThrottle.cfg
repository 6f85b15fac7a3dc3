\* Three clients, two wrong PINs allowed.
SPECIFICATION FairSpec
CONSTANTS
    Clients = {c1, c2, c3}
    MaxFailures = 2
    FailureWindow = 3
    ThrottleTime = 2
INVARIANT GuessesAreBounded
PROPERTY ThrottleIsLifted
