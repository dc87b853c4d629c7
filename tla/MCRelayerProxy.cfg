SPECIFICATION FairSpec
CONSTANTS
    i1 = i1
    i2 = i2
    k1 = k1
    Ips = {i1, i2}
    UnknownIp = UnknownIp
    Global = Global
    Names <- MCNames
    Limit <- MCLimit
    Window = 2
    Second = 1
    MaxTime = 2
    Requests = {r1, r2}
    Submissions <- MCSubmissions
    Outlooks <- MCOutlooks
    ApiKeys = {k1, k2}
    NoKey = NoKey
    Channels = {a1}
    OldEntries <- MCOldEntries
    LostAnswers = 1
    Testnet = TRUE
    RetryDuration = 1
    MaxResourceFee = 3
    MaxTotalFee = 4
    FeeSlack = 0
    AllowedDeployers = {"shared", "account"}
INVARIANTS TypeOK WindowsKeepTheLimit NoBurstBeyondTwoWindows RetryAfterSuffices OnlySponsorableUsesAKey KeysStayWithTheirIp OneAttemptAfterDeadline PaysAgainOnlyUnanswered
PROPERTY EveryRequestIsAnswered
CHECK_DEADLOCK FALSE
