SPECIFICATION Spec
CONSTANTS
    Handles = {h1, h2, h3}
    NoHandle = NoHandle
    Fds = {f1, f2, f3}
    NoFd = NoFd
    Verifiers = {v1}
    FD_ENTRIES = 2
    INACTIVE_TIMEOUT = 1
    PENDING_ERROR_TIMEOUT = 3
SYMMETRY Symmetry
INVARIANTS
    EntriesDistinct
    DescriptorsAccounted
    PromisesHeld
    NoSilentLoss
PROPERTY
    KeepsContract
