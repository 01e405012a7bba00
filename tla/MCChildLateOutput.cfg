CONSTANTS
 None=None
 w1=w1
 id1=id1
 p1=p1
 p2=p2
 Windows={w1}
 ChildIds={id1}
 Spawns={p1,p2}
 OnAccount={p1,p2}
 MaxLines=1
 MaxParked=2
 MaxStops=1
 MaxRemovals=1
SPECIFICATION ChildSpec
INVARIANT LinesOfOwnChild
CHECK_DEADLOCK FALSE
