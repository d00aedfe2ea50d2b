CONSTANTS
    m1 = m1
    m2 = m2
    m3 = m3
    m4 = m4
    m5 = m5
    long = long
    Writers = {w1}
    Readers = {r1}
    Messages = {m1}
    Kind <- KindOf
    Size <- SizeOf
    StreamKinds = {"socket", "stdio"}
    PipeSize = 1
    MaxFailures = 1
    None = None
SPECIFICATION FairSpec
CHECK_DEADLOCK FALSE
PROPERTY LostConnectionReturns
