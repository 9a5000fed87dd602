\* The rounds are the body of an iterate, as in ECB.
CONSTANTS
    standard = standard
    other = other
    left = left
    right = right
    NoMix = NoMix
    Rounds = 3
    Matrices <- OneMatrix
    Standard <- standard
    Resets <- NoResets
    Exit = "bodyOutput"
    Places <- NoPlaces
    MaxDuplicates = 2
    MaxPins = 0
SPECIFICATION Spec
PROPERTIES DuplicationKeepsInverse
