CONSTANTS
    Requests = {r1, r2}
    Futures = {r2}
    Apps = {a1}
    Readers = {l1, l2}
    IdCount = 2
    StrayIds = {stray}
    Packets <- MCPackets
    MaxInbox = 2
    None = None
SPECIFICATION FairSpec
INVARIANTS
    TypeOK
    NoRequestForgotten
    AnswerFindsRequest
    CompletedByOwnAnswer
    CallbackMaySend
PROPERTIES
    CompletedOnce
    AnswerCompletes
