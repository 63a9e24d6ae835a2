CONSTANTS
    BlockSize = 3
    Radix = 4
    Xor <- XorBits
    E <- Cipher
    D <- Decipher
    SizeBlocks = 4
    Texts <- SomeTexts
    IVs <- SomeIVs
    Strangers <- SomeStrangers
SPECIFICATION Spec
INVARIANTS IInv CiphertextIsCbc RoundTrip DamageStaysLocal Canonical
CHECK_DEADLOCK FALSE
