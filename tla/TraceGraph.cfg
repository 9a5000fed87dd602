SPECIFICATION Spec
CONSTANTS
  Programs <- MCPrograms
  Exec <- MCExec
  Meant <- MCMeant
  ChipCap = 2
  MaxCollapsed = 3
  Thresholds = {0, 1, 2}
INVARIANTS
  RunIsMeant
  PaneShowsTheSpec
  InspectorTellsTheTruth
