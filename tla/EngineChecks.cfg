SPECIFICATION ChecksFairSpec
CONSTANTS
    Fields <- TwoFields
    Rules <- TwoRules
    Unsupplied <- FirstMissing
    Hosts = {h1, h2}
    MaxWrites = 3
INVARIANTS ErrorsAreVerdicts SettledIsAnswered
PROPERTY EverySettleResolves
CHECK_DEADLOCK FALSE
