SPECIFICATION FairSearchSpec
CONSTANTS
    Searchers = {s1, s2}
    Indexer = indexer
    TripAt = 2
PROPERTIES DegradesNotFails Recovers
