CONSTANTS
 None=None
 u1=u1
 u2=u2
 Turns={u1,u2}
 MaxExits=1
 MaxTimeouts=1
 MaxSteers=1
SPECIFICATION SessionFairSpec
INVARIANTS SessionConsistent NoLostTurn StopStops
PROPERTY SendsReturn
CHECK_DEADLOCK FALSE
