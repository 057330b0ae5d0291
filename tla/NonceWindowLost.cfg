CONSTANTS
    Base = 8
    Half = 4
    Window = 3
    InitLow = 6
    InitUpper = 1
    InitNonce <- MCInitNonce
    MaxNonces = 6
SPECIFICATION Spec
INVARIANT
    LostNeverReceived
