\* The checkbox is only ever cleared; any boot; keys of any length; two values
\* of each part of the settings.
CONSTANTS
    NoDelta = NoDelta
    NoTrace = NoTrace
    MaxHistory = 2
    MaxId = 5
    MaxEdits = 3
    Runs <- SomeRuns
    Fits = {"ok", "bad", "resync", "long"}
    Toggles = {"off"}
    BootLinks = {"none", "valid", "broken"}
SPECIFICATION FairSpec
INVARIANTS StaleIsAnnounced EmptyIsExplained HistoryIsLinked
PROPERTIES ChangesArePushed ManualSchedulesNothing AutoCatchesUp RestsUnlessKeyTooLong
