\* Algorithms of each kind of table row; a length below a block and a block.
SPECIFICATION Spec
CONSTANTS
    Offered = {"aes-128", "des", "chacha20", "sha-256", "kmac128", "rsa",
               "ml-dsa-44", "minstd-rand0", "chacha20-csprng", "ntt-3329-256"}
    OfferedModes = {"single-block", "cbc", "stream"}
    OfferedPadding = {"none", "pkcs7"}
    TypedLengths = {2, 16}
    TypedOutputs = {1024}
    MaxActs = 4
INVARIANTS
    SelectorsFitSpec
    
PROPERTIES
    InputsComeBack
CHECK_DEADLOCK FALSE
