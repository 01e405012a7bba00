CONSTANTS
 None=None
 lead=lead
 worker=worker
 Sessions={lead,worker}
 Lead=lead
 MaxEdits=2
 MaxHappenings=4
SPECIFICATION WritesSpec

PROPERTY OnlyNewer
CHECK_DEADLOCK FALSE
