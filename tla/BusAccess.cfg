CONSTANTS
    BusAddrs <- AllRegions
    Values <- AllValues
    Images <- MCImages
    NoImage = 0
    RomByte <- MCRomByte
    MaxWrites = 2
SPECIFICATION AccessSpec
PROPERTIES HookMeansOpenBus WritesStayLocal WritesReadBack
