SPECIFICATION Spec
CONSTANTS
    Me <- MCMe
    Uids <- MCUids
    UserNames <- MCNames
    MaxConns = 2
    INT_LIMIT = 2
    Counts = {1}
    Offsets = {0, 2}
    Lens = {2}
    AttrSets = {{"size"}, {"mode"}, {"owner", "mode", "times"}}
    Modes <- MCMode
    Inos = {1, 2}
    MaxSize = 1
    MaxRead = 1
    MaxOutside = 1
    Configurations <- MCConfs
    export_path <- MCExport
    Leftovers <- MCLeftovers
    opt_readable_executables = TRUE
INVARIANTS
    ConnectionsReturned
    SameFile
    DataAgree
    OnlyHandlesObject
