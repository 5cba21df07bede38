SPECIFICATION Spec
CONSTANTS
    a = a  b = b  r = r  h = h  empty = empty  up = up
    COLON = COLON  COMMA = COMMA  LINE = LINE  HEAD = HEAD
    ROOT <- MCROOT  HOME <- MCHOME  UP <- MCUP  NOBODY <- MCNOBODY
    Users <- MCUsers  Created <- MCCreated  Chmods <- MCChmods  Passwords <- MCPasswords
    NI = 5
    BlockLen = 12
    MaxChanges = 3
INVARIANTS TypeOK   
PROPERTIES NothingLost 
