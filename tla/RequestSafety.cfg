SPECIFICATION FairSpec
CONSTANTS
    AddrBits = 1
    ExportFiles <- MCFiles
    realpath <- MCRealpath
    NoPath = NoPath
    fnv1a_32 <- MCFnv
    get_free_fsid <- MCFsid
    NFS_MAXPATHLEN = 8
    Setups <- MCSetups
    NobodyIds <- MCNobody
    ROOT = 0
    Remotes = {{1}, {}}
    Creds <- MCCreds
    MountPaths <- MCPaths
    Passwords = {"", "p"}
    Files <- MCObjects
    opt_readable_executables = FALSE
INVARIANTS
    OptionsMatch
    ActsAsCaller
    OldPasswordRefused
    AccessClass
PROPERTIES
    Answered
