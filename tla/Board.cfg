CONSTANTS
    BusAddrs <- Cells
    Images = {1}
    NoImage = 0
    RomByte <- MCRomByte
    BankArgs = {2, 4}
    Forged = {255}
    MaxCalls = 6
    Budgets = {1, 20}
    HookBudgets = {1}
    MaxDepth = 1
SPECIFICATION Spec
INVARIANTS TypeOK EveryNmiLatched
PROPERTIES ResetComesFirst ResetBootsClean RmwWritesOnce RestoreRoundTrip RestoreReplays ColdResetClearsMemory
