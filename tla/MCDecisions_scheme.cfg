SPECIFICATION SpellingSpec

CONSTANTS
    MaxCallIdLen <- MCMaxCallIdLen
    MaxProtocolTokenBytes <- MCMaxProtocolTokenBytes
    MaxProtocolAggregateBytes <- MCMaxProtocolAggregateBytes
    MaxInitialItems <- MCMaxInitialItems
    MaxEstimatedTokensPerItem <- MCMaxEstimatedTokens
    MaxEstimatedTokensTotal <- MCMaxEstimatedTokens

INVARIANT SocketsAreJoined

CHECK_DEADLOCK FALSE
