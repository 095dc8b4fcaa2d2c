\* Two callers on one channel: two calls of either kind, streaming calls of up
\* to two requests.
SPECIFICATION FairSpec
CONSTANTS
    c1 = c1
    c2 = c2
    ch1 = ch1
    unary = unary
    stream = stream
    Callers <- MCCallers
    Channels <- MCChannels
    UnaryMethods <- MCUnaryMethods
    StreamMethods <- MCStreamMethods
    ResponseChCap = 8
    MaxCalls = 2
    MaxSends = 2
INVARIANTS TypeOK AnswerIsOwn RegistryExact NoPanic
PROPERTIES NoAnswerLost CallServiceSpec EveryCallReturns
