SPECIFICATION FairSpec
CONSTANTS
    Names = {"long", "x", "y"}
    NAME_SIZE <- MCSizes
    RESOK_SIZE = 2
    ENTRY_SIZE = 1
    MAX_ENTRIES = 2
    MaxCount = 7
    Counts = {2, 4, 6, 9}
    CookieEpochs = 4
    MaxChanges = 3
INVARIANTS
    Complete
    PagesJoin
PROPERTIES
    ListingEnds
