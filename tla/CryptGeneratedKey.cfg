SPECIFICATION Spec
CONSTANTS
    Messages <- MCMessages
    Foreign <- MCForeign
    BufferSizes <- MCBufferSizes
    Integers64 <- MCIntegers64
    MaxItems = 2
    c1 = c1  c2 = c2  k1 = k1  k2 = k2  k3 = k3  n1 = n1  n2 = n2
    Ciphers = {c1, c2}
    NoCipher = NoCipher
    Keys = {k1, k2, k3}
    Nonces = {n1, n2}
    NoBuffer = NoBuffer
    Leftover = Leftover
    SizeOf <- MCSizeOf
    Bits = 3
    BlockBytes = 2
    Poly = 3
    XorByte <- MCXorByte
    CipherKeys = {"zero", "other"}
    Encipher <- MCEncipher
    ZeroKey = "zero"
    Packets <- MCPackets
    TriedNonces <- MCTriedNonces
    TagTaken = 1
    Base = 4
    Digits = 4
    HeaderBytes = 2
    BodySizes = {0, 2}
    MaxPacks = 3
INVARIANT GeneratedKeyFits
