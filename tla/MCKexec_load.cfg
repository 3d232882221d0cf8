SPECIFICATION Spec
CONSTANTS
    Word = 32
    Page = 2
    M1 = 8
    KernelAlign = 4
    SetupAddr = 4
    IbftRange <- MCIbft
    ConfigSize = 4
    Firmware <- LowIsRAM
    Programs <- AllPrograms
INVARIANTS FoundIsFree PlacedApart KernelAccepts BytesArrive ReservedIsTold
