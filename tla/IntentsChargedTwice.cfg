SPECIFICATION Spec
CONSTANTS
    Intents = {i1}
    Reversers = {r1}
    MAX_ATTEMPTS_PER_INTENT = 2
    MAX_STATUS_POLLS = 2
    MaxSubmissions = 3
    MaxAbandons = 0
    PollResults = {}
    NoIntent = NoIntent
INVARIANT ChargedOnce
CHECK_DEADLOCK FALSE
