SPECIFICATION SpecServices
CONSTANT
    Parts = {"subscriptions", "offers", "offerdays", "keys", "cards", "links", "qr", "npsb",
             "tokens", "wallets", "limits", "routing", "sandbox", "kyb",
             "ekyc", "members", "lists", "screening", "monitoring", "filings", "dossiers",
             "replay", "untagged"}
    Cash = {1, 2}
    Threshold = 1
    MaxTries = 2
    MaxRows = 2
    MaxFaults = 2
    Papers = {1, 2, 3}
    Class <- ClassOfPaper
    License = 1
    Persons = {"p", "q"}
    Versions = {1}
    Runs = {1, 2}
    RetryLimit = 1
    Petitions = {1}
    MaxTears = 1
    Records = {1, 2}
    MaxAttempts = 1
    QueueCap = 1
    Wanted = {"SIMPLIFIED"}
    MaxTroubles = 1
    NoPredecessor = 0
    Owners = {"o1", "o2"}
    Officers = {"p", "q"}
    Requests = {1, 2}
    MaxCrashes = 1
    NoRequest = 0
    Exports = {1}
    Facts = {"f1"}
    Operators = {"p", "q"}
    Workers = {"w1", "w2"}
    MaxDeadClerks = 1
INVARIANT CyclesAreAccounted
 
 
INVARIANT CodesChargeOnce
INVARIANT SwitchIsHeard
INVARIANT WalletsTellTheTruth
 
 
INVARIANT ActiveIsEarned
INVARIANT ActiveIsVerified
INVARIANT StagesAreEarned
INVARIANT HitsAreHandled
 
INVARIANT FilingsAreKept
 
 
CHECK_DEADLOCK FALSE
