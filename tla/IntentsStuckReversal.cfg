SPECIFICATION FairSpec
CONSTANTS
    Intents = {i1}
    Reversers = {r1}
    MAX_ATTEMPTS_PER_INTENT = 2
    MAX_STATUS_POLLS = 2
    MaxSubmissions = 2
    MaxAbandons = 0
    PollResults = {}
    NoIntent = NoIntent
PROPERTY EveryReversalIsDriven
CHECK_DEADLOCK FALSE
