CONSTANTS
    NonceSize = 2
    Radix = 2
    Weight <- Powers
    BitsPerByte = 1
    Xor <- Xor2
    E <- Cipher
    GfMul <- Mul6
    Plaintexts <- SomeTexts
    Nonces <- SomeNonces
    Aads <- SomeAads
SPECIFICATION Spec
INVARIANTS IInv RoundTrip OneBlockChangeDetected FailureLeavesNoPlaintext
    KeystreamFresh
PROPERTIES ReleaseOnlyVerified ImplementsAead
CHECK_DEADLOCK FALSE
