SPECIFICATION FairSpec
CONSTANTS
    p = p
    q = q
    limit = limit
    none = none
    None = none
    Types <- MCTypes
    Signers <- MCSigners
    Refused <- MCRefused
    Policies = {limit}
    NewRules <- MCNewRules
    MaxSigners = 3
    MaxPolicies = 1
    InitialRules <- MCInitialRules
    MaxId = 2
    MaxRuleId = 2
    MaxMisses = 2
    Entries <- MCEntries
    Credentials = {p, q}
    Selections <- MCSelections
    Foreign <- MCForeign
    MaxLedger = 1
    MaxChanges = 1
INVARIANTS
    TypeOK
    SteadyRulesAreListed
    ChosenRulesWereUsable
    OnlySpecificRuleWins
    SignsAsResolved
PROPERTIES
    ResolutionEnds
