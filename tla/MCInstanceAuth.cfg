\* The real service and STS fail for ever, or until their second set of credentials is
\* due to be renewed.
SPECIFICATION FairSpec
CONSTANTS
    MaxTries = 3
    Margin = 1
    Lifetime = 3
    MaxTime = 7
    OutageEnds = {5, 8}
INVARIANTS TypeOK SignsWell
PROPERTY CallsRecover
CHECK_DEADLOCK FALSE
