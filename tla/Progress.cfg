SPECIFICATION ProgressSpec
CONSTANTS
    Intents = {i1}
    Reversers = {r1}
    MAX_ATTEMPTS_PER_INTENT = 2
    MAX_STATUS_POLLS = 2
    MaxSubmissions = 2
    MaxAbandons = 1
    PollResults = {}
    NoIntent = NoIntent
    Events = {e1}
    Workers = {w1, w2}
    Consumers = {c1, c2}
    app = app
    WorkerId <- MCWorkerId
    NoWorker = NoWorker
    NoEvent = NoEvent
    MAX_ATTEMPTS = 2
    BatchSize = 2
    MaxCrashes = 1
    Instructions = {1, 2}
    Cycles = {1}
    MAX_RETRIES = 1
    DispatchTwoEyes = 1
    RetryTwoEyes = 1
PROPERTY EventuallySettled
PROPERTY NothingStaysInFlight
CHECK_DEADLOCK FALSE
