SPECIFICATION Spec
CONSTANTS
    Vocabulary <- MCVocabulary
    MaxTokens <- MCMaxTokens
CHECK_DEADLOCK FALSE
INVARIANTS
    TypeOK
    LookaheadSettled
    OperandsKept
    RejectedIsReported
    AcceptedIsClean
    CommandsCompose
