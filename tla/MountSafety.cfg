SPECIFICATION MountSpec
CONSTANTS
    a = a
    b = b
    locked = locked
    medium = medium
    Hosts = {a, b}
    Dirs = {locked, medium}
    Admitted <- AllButOne
    Protected = {locked}
    Removable = {medium}
    Nonces = {n1, n2, n3}
    NoNonce = NoNonce
    MaxMounts = 2
SYMMETRY Symmetry
INVARIANTS
    CountMatches
    OtpUsedOnce
