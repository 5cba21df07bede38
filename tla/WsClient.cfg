CONSTANTS
    Sockets = {s1, s2, s3}
    Requests = {r1, r2}
    MaxAttempts = 3
    NULL = NULL
SPECIFICATION Spec
INVARIANT TypeOK
INVARIANT TableExact
INVARIANT PendingOnOpenSocket
INVARIANT ConnectedMeansOpen
INVARIANT NotStranded
INVARIANT RetriesBounded
INVARIANT SingleSocketConsistent
PROPERTY RequestsSettle
PROPERTY ConnectSettles
