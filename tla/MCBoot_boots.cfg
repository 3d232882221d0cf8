SPECIFICATION FairBootSpec
CONSTANTS
    sda = sda
    sda5 = sda5
    sda6 = sda6
    sdb = sdb
    sdb6 = sdb6
    esx5 = esx5
    esx6 = esx6
    linux1 = linux1
    linux2 = linux2
    NoImage = NoImage
    Devs <- MCDevs
    Stubborn <- MCStubborn
    MaxTmp = 1
    Images <- MCImages
    Parts <- MCParts
    Readable <- MCReadable
    BootCfg <- MCBootCfg
    Updated <- MCUpdated
    Cdrom <- MCCdrom
    Config <- MCConfig
    Kernel <- MCKernel
    Rank <- MCRank
    Linux <- MCLinux
    Dtb <- MCLinux
    InitrdLen <- MCInitrdLen
    DtbLen = 1
    Sector = 4
    InsertionLimit = 12
    MaxDevs = 2
    MaxLines = 4
INVARIANTS BootsWhatWasChosen EditsReachTheirKernel DefaultIsBest
    NothingLeftMounted PartsAligned EsxiOrderKept
PROPERTY BootEnds
