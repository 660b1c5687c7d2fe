CONSTANTS
    Conversion = {c1}
SPECIFICATION Spec
INVARIANTS
    AnswerMatchesOutput
    NothingLeftBehind
    CancelIsHonest
    RetryIsJustified
PROPERTIES
    NeverReplaced
    ConversionReturns
CHECK_DEADLOCK FALSE
