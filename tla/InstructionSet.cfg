SPECIFICATION Spec
CONSTANTS
    Background <- Noise
    Suite <- MCSuite
INVARIANT TypeOK
PROPERTIES CyclesAsDocumented PointersStayInPage DisassemblerPredictsPC CallsReturn
