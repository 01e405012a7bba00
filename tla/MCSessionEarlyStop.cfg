CONSTANTS
 None=None
 u1=u1
 u2=u2
 Turns={u1,u2}
 MaxExits=0
 MaxTimeouts=0
 MaxSteers=0
SPECIFICATION SessionSpec
INVARIANT StopAlwaysStops
CHECK_DEADLOCK FALSE
