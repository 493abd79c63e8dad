SPECIFICATION SpecBoth
CONSTANTS
    Intents = {i1}
    Reversers = {r1, r2}
    MAX_ATTEMPTS_PER_INTENT = 2
    MAX_STATUS_POLLS = 2
    MaxSubmissions = 3
    MaxAbandons = 1
    PollResults = {"TIMED_OUT", "FAILED"}
    NoIntent = NoIntent
SYMMETRY Symmetry
INVARIANT BooksAgree
INVARIANT AttemptsAreAttended
INVARIANT MoneyIsTraced
PROPERTY TerminalIsFinal
CHECK_DEADLOCK FALSE
