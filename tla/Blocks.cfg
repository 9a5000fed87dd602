\* A message and back in every mode of operation and padding, a block through
\* every cipher and back.
SPECIFICATION BlocksSpec
CONSTANTS
    B = 2
    W = 4
    Mark = 2
    MaxBlocks = 3
    XorByte <- MCXorByte
    E <- MCE
    D <- MCD
    Plaintexts <- MCPlaintexts
    Ivs <- MCIvs
    Word <- MCWord
    WordBits = 2
    Xor <- MCXor
    Add <- MCAdd
    Sub <- MCSub
    Ror <- MCRor
    Reverse <- MCReverse
    Layer <- MCLayer
    InvLayer <- MCInvLayer
    DesIp <- MCDesIp
    DesFp <- MCDesFp
    DesF <- MCDesF
    BlowfishF <- MCBlowfishF
    TwofishG <- MCTwofishG
    AesRounds = 2
    SerpentRounds = 10
    FeistelRounds = 3
    SpeckRounds = 4
    Alpha = 1
    Beta = 1
    Skew = 1
    RoundKeys <- MCRoundKeys
INVARIANTS
    ModeIsCorrect
    DecryptionMirrors
CHECK_DEADLOCK FALSE
