\* Three rounds and up to two duplicates, of a single-block spec.
CONSTANTS
    standard = standard
    other = other
    left = left
    right = right
    NoMix = NoMix
    Rounds = 3
    Matrices <- TwoMatrices
    Standard <- standard
    Resets <- OnlyDecrypt
    Exit = "outputFrom"
    Places <- TwoPlaces
    MaxDuplicates = 2
    MaxPins = 2
SPECIFICATION Spec
INVARIANTS RoundsChained KeysInOrder
PROPERTIES DuplicationKeepsInverse PinsFollowRounds
SYMMETRY PlacesAlike
