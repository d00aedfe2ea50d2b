CONSTANTS
    m1 = m1
    m2 = m2
    m3 = m3
    m4 = m4
    m5 = m5
    long = long
    Writers = {w1, w2}
    Readers = {r1, r2}
    Messages = {m3, m5}
    Kind <- KindOf
    Size <- SizeOf
    StreamKinds = {"socket", "stdio"}
    PipeSize = 1
    MaxFailures = 1
    None = None
SPECIFICATION FairSpec
CHECK_DEADLOCK FALSE
INVARIANTS
    RepliesAreDue
PROPERTIES
    EveryMessageTaken
    EndReported
