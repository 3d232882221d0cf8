SPECIFICATION FairSpec
CONSTANTS
    eth0 = eth0
    eth1 = eth1
    Ifs <- TwoIfs
    CommandLines <- MCCommandLines
    IPLen = 2
    Offers <- MCOffers
INVARIANTS SendsSafely NothingMeansNothing FetchesWithItsLease MostSpecificConfig
PROPERTY AllEnds
CHECK_DEADLOCK FALSE
