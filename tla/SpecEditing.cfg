SPECIFICATION Spec
CONSTANTS
  Shipped <- SigningLoop
  Palette <- XorOnly
  Names <- RoundOnly
  MaxNumber = 3
  MaxEdits = 3
  MaxSaved = 1
INVARIANTS
  EditorSeesTheSpec
  OfferedSourcesResolve
PROPERTIES
  ElementsStandAlone
  NewWiresResolve
