SPECIFICATION ReadSpec
CONSTANTS
    Modulus = 12
    Infinite = 6
    Timeouts <- MCTimeouts
    Capacity = 2
    MaxLag = 2
INVARIANTS ReadTypeOK NeverEarly NeverLate
PROPERTIES ReadReturns ByteEndsRead
