SPECIFICATION Spec
CONSTANTS
    Inodes = {3, 4, 5}
    RootIno = 2
    Names = {"a", "b"}
    Uids = {"b"}
    FH_HASH <- MCHash
    FH_MAXLEN = 2
    DEV = 7
    FSID = 99
    ExportPath <- MCExport
    MaxHandles = 1
INVARIANTS
    Resolvable
    MadeAlike
    NeverAnother
    BruteForceFinds
PROPERTIES
    PublicLeads
