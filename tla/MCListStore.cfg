SPECIFICATION FairSpec
CONSTANTS
    Requests = {r1, r2}
    Issues = {a, b}
    Peers = {}
    NoPeer = NoPeer
    Absent = Absent
    StoreRetries = 3
INVARIANTS NoDuplicates ExactlyOnce ExhaustionNeedsRivals BadFormatNeedsRival
PROPERTIES ImplementsAtomicList EveryCallReturns
