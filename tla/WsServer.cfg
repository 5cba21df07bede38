SPECIFICATION FairSpec
CONSTANTS
    Clients = {c1, c2}
    Workers = {w1, w2}
    SIGNAL = SIGNAL  DESTRUCTOR = DESTRUCTOR  MAIN = MAIN  FREE = FREE
    NoClient = NoClient
    RecordLimit = 1
    MaxSignals = 1
CHECK_DEADLOCK FALSE
INVARIANTS TypeOK SessionsExact
   
