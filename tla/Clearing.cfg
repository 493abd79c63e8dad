SPECIFICATION SpecClearing
CONSTANTS
    Parts = {"payouts", "settlement", "netting", "reconciliation", "approvals"}
    Amount <- MCAmount
    Participants <- MCParticipants
    Transfers <- MCTransfers
    InitialCap <- MCInitialCap
    Items = {1, 2, 3}
    Beftn = {1, 2}
    Dispatchers = {d1, d2}
    MaxListings = 2
    NoOne = NoOne
    Instructions = {1, 2}
    Cycles = {1, 2}
    MAX_RETRIES = 1
    DispatchTwoEyes = 1
    RetryTwoEyes = 1
    MaxCrashes = 1
    Caps = {2}
    MaxUnwindRounds = 1
    MaxAttempts = 3
    Lines = {1, 2}
    Malformed = {2}
    LargeDelta = {1}
    MaxDeaths = 1
    Requests = {r1, r2}
    Operators = {o1, o2}
    Workers = {w1}
    Nobody = Nobody
INVARIANT PayoutsAddUp
INVARIANT SettlementHolds
INVARIANT NettingHolds
INVARIANT ResolutionIsBacked
 
CHECK_DEADLOCK FALSE
