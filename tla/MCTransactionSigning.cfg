SPECIFICATION MCSpec
CONSTANTS
    a = a
    b = b
    p1 = p1
    p2 = p2
    k = k
    g = g
    temp = temp
    r1 = r1
    r2 = r2
    none = none
    None = none
    Temp = temp
    Wallets <- MCWallets
    Passkeys = {p1, p2}
    Keys = {k}
    Accounts = {g}
    RuleLists = {r1, r2}
    Expirations = {1, 2}
    Codes = {"v7", "v8", "v9"}
    Accepted = {"v8", "v9"}
    SchemeOf <- MCSchemeOf
    Simulated <- MCSimulated
    Prepared <- MCPrepared
    Selections <- MCSelections
    Options <- MCOptions
    Configs <- MCConfigs
    Sessions <- MCSessions
    Holdings <- MCHoldings
    Upgrading = {a}
    PollAttempts = 2
    LookupAttempts = 2
INVARIANTS
    TypeOK
    SignaturesCoverTheirEntry
    OneSchemePerOperation
    DelegatedSignersAreBacked
    OnlyAdminSignsMutations
    SharedDeployerNeverPays
    ResultsCanBeActedOn
PROPERTIES
    UpgradesStaySignable
    OperationEnds
