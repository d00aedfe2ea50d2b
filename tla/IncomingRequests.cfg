CONSTANTS
    i1 = i1
    i2 = i2
    i3 = i3
    i4 = i4
    i5 = i5
    i6 = i6
    Loops = {l1, l2}
    MaxThreads = 1
    Registered <- RegisteredHandlers
    Removable = {"typed", "notifyAsync"}
    Packets = {"async", "batch", "generic", "note"}
    Messages = {"async", "b1", "b2", "b3", "generic", "note"}
    IsBatch <- Batches
    Content <- Contents
    IdOf <- IdOfMessage
    MethodOf <- MethodOfMessage
    Throwing = {"async", "b2"}
    Ids = {i1, i2, i3, i4, i5, i6}
    Null = Null
    Absent = Absent
    NoHandler = NoHandler
SPECIFICATION FairSpec
CHECK_DEADLOCK FALSE
INVARIANTS
    TypeOK
    AtMostOneResponse
    BatchAnsweredWhole
    CurrentIdIsOwn
    DestructorAnswersAll
PROPERTIES
    EveryRequestAnswered
