CONSTANTS
    m1 = m1
    m2 = m2
    m3 = m3
    m4 = m4
    m5 = m5
    long = long
    Writers = {w1, w2}
    Readers = {r1, r2}
    Messages = {long, m2, m4, m5}
    Kind <- KindOf
    Size <- SizeOf
    StreamKinds = {"socket", "stdio"}
    PipeSize = 1
    MaxFailures = 1
    None = None
SPECIFICATION Spec
CHECK_DEADLOCK FALSE
SYMMETRY Symmetry
INVARIANTS
    TypeOK
    TakenIsAccountedFor
PROPERTIES
    ImplementsChannel
