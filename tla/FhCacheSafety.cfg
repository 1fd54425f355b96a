SPECIFICATION Spec
CONSTANTS
    Objects = {o1, o2, r, x}
    NoObject = NoObject
    Roots = {r}
    Exports = {x}
    CACHE_ENTRIES = 3
    UINT_RANGE = 4
SYMMETRY Symmetry
INVARIANTS
    EntriesUnique
    HitPathKept
    AttributesOwn
