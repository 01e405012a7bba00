CONSTANTS
 None=None
 lead=lead
 worker=worker
 Sessions={lead,worker}
 Lead=lead
 MaxEdits=1
 MaxHappenings=7
SPECIFICATION ScenarioSpec
INVARIANT WorkersWritesFirst
CHECK_DEADLOCK FALSE
