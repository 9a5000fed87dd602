\* Every way of scrubbing, selecting and rerunning.
CONSTANTS
    key = key
    sub = sub
    mix = mix
    out = out
    pad = pad
    setup = setup
    rounds = rounds
    final = final
    NoTrace = NoTrace
    NoStep = NoStep
    Steps <- AllSteps
    Groups <- AllGroups
    Passes = {0, 1, 2}
    Traces <- SomeTraces
SPECIFICATION Spec
INVARIANT EditorAndScrubberAgree
PROPERTIES NewTraceKeepsFocus PageDownSkipsNoGroup
