SPECIFICATION Spec

CONSTANTS
    MaxCallIdLen <- MCMaxCallIdLen
    MaxProtocolTokenBytes <- MCMaxProtocolTokenBytes
    MaxProtocolAggregateBytes <- MCMaxProtocolAggregateBytes
    MaxInitialItems <- MCMaxInitialItems
    MaxEstimatedTokensPerItem <- MCMaxEstimatedTokens
    MaxEstimatedTokensTotal <- MCMaxEstimatedTokens

INVARIANTS
    HeadersCross
    OffersStand
    OneAddress
    LogTellsTheTruth
    BodiesAreCapped
    SessionsAsBuilt
    AnswersAgree

CHECK_DEADLOCK FALSE
