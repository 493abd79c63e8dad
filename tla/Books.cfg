SPECIFICATION SpecBooks
CONSTANTS
    CHECKPOINT_INTERVAL = 2
    Genesis = Genesis
    Writers = {w1, w2}
    Keys = {k1, k2}
    Holds = {h1}
    Amounts = {1, 2}
    None = None
    RefundIds = {f1, f2}
    Agents = {a1, a2}
    RefundKeys = {q1}
    NoKey = NoKey
    Captured = 2
    MAX_REFUND_RETRIES = 2
    NoRefund = NoRefund
    Contents = {c1, c2}
    MaxEntries = 4
    MaxDamage = 4
SYMMETRY Symmetry
INVARIANT LedgerIsSound
INVARIANT RefundsAddUp
PROPERTY NothingIsReopened
CHECK_DEADLOCK FALSE
