CONSTANTS
 None=None
 lead=lead
 worker=worker
 Sessions={lead,worker}
 Lead=lead
 MaxEdits=2
 MaxHappenings=4
SPECIFICATION WritesSpec
INVARIANTS DeletedIsGone SavedWhenQuiet
PROPERTY NothingOverwritten
CHECK_DEADLOCK FALSE
