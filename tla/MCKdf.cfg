CONSTANTS
    BlockSize = 3
    Iterations = 2
    Letters <- Bits
    Salts <- SomeSalts
    Passphrases <- ShortPassphrases
    KeyLengths = {3, 5, 6}
SPECIFICATION Spec
INVARIANTS TypeOK KeyFilled SaltsSeparate CollideOnlyByFill
CHECK_DEADLOCK FALSE
