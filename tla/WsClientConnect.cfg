CONSTANTS
    Sockets = {s1, s2}
    Requests = {r1}
    MaxAttempts = 3
    NULL = NULL
SPECIFICATION Spec
PROPERTY ConnectGivesConnection
