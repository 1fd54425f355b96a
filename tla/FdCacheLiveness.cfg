SPECIFICATION FairSpec
CONSTANTS
    Handles = {h1, h2}
    NoHandle = NoHandle
    Fds = {f1, f2}
    NoFd = NoFd
    Verifiers = {v1}
    FD_ENTRIES = 2
    INACTIVE_TIMEOUT = 1
    PENDING_ERROR_TIMEOUT = 3
PROPERTIES
    IdleDescriptorsClosed
    OldErrorsDropped
