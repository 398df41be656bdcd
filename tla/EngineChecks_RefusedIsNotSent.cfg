SPECIFICATION ChecksSpec
CONSTANTS
    Fields <- TwoFields
    Rules <- TwoRules
    Unsupplied <- FirstMissing
    Hosts = {h1, h2}
    MaxWrites = 2
PROPERTY RefusedIsNotSent
CHECK_DEADLOCK FALSE
