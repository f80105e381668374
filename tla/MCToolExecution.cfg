SPECIFICATION Spec
CONSTANTS
    w1 = w1
    w2 = w2
    Waiters = {w1, w2}
    MaxAttempts = 3
    MaxNews = 1
    MaxCrashes = 2
CHECK_DEADLOCK FALSE
INVARIANTS
    ReceiptMatchesLog
    CallersAgree
PROPERTIES
    NoEffectAfterAbandon
    ImplementsContract
    AbandonedIsSettled
    CallersAreReleased
