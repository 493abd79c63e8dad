SPECIFICATION SpecPlatform
CONSTANTS
    Events = {e1, e2}
    Workers = {w1, w2}
    Consumers = {c1}
    app = app
    WorkerId <- MCWorkerId
    NoWorker = NoWorker
    NoEvent = NoEvent
    MAX_ATTEMPTS = 2
    BatchSize = 2
    MaxCrashes = 1
    Calls = {"c1", "c2", "c3"}
    Bodies = {"b1", "b2"}
    RateLimit = 2
    FailOpen = TRUE
    MaxExpiries = 1
    MaxWindows = 1
    NoReservation = NoReservation
    NoRequest = NoRequest
    AllowSimulator = TRUE
    MaxBoots = 1
    Contents = {"x", "y"}
    Deliveries = {"d1", "d2", "d3"}
    DrainLimit = 1
    MaxHookDeaths = 1
    Hooks = {"h1", "h2"}
    OutEvents = {"o1"}
    MaxActive = 1
    MaxPosts = 2
    MaxSends = 2
    MaxSecretRotations = 2
    MaxMishaps = 1
    ApiKeys = {"k1", "k2", "k3"}
    GatewayWorkers = {"g1", "g2"}
    Codes = {"b1", "b2"}
    Sessions = {"s1", "s2", "s3"}
    MaxFailures = 2
    MaxSecrets = 3
    Instances = {"i1", "i2"}
    MaxKeyRotations = 2
    MaxInstanceDeaths = 2
    Principals <- MCPrincipals
    Merchants = {"A", "B"}
    Customers = {"u", "v"}
    NoOne = "-"
    NoContent = NoContent
    NoKey = NoKey
    Tasks = {"t1", "t2"}
    Informational = FALSE
    Threshold = 2
    Quota = 2
    Retries = 1
    PollAttempts = 2
    MaxCalls = 3
    MaxRestarts = 1
    Parts = {"outbox", "edge", "runner", "modes", "callbacks", "webhooks", "keys",
             "operators", "custody", "boot", "routes"}
INVARIANT DeliveryIsHonest
INVARIANT OneAnswerPerKey
INVARIANT LiveIsBacked
INVARIANT CallbackCountsOnce
INVARIANT ReceiverIsServed
 
INVARIANT ProcessIsWhole
PROPERTY SettledIsFinal
PROPERTY DispatchIsCareful
PROPERTY TenantsStayApart
CHECK_DEADLOCK FALSE
