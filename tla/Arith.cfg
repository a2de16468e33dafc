CONSTANTS
    Operands <- Edges
    MaxBytes = 2
SPECIFICATION Spec
INVARIANTS MultiByteExact OverflowMeansSigned
PROPERTIES DecimalStaysDecimal CompareIsSubtract
