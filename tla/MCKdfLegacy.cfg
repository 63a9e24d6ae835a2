CONSTANTS
    BlockSize = 3
    Iterations = 2
    Letters <- Bits
    Salts <- SomeSalts
    Passphrases <- ShortPassphrases
    KeyLengths = {3}
SPECIFICATION Spec
INVARIANTS ZeroSaltIsNone
CHECK_DEADLOCK FALSE
