SPECIFICATION YamlSpec
CONSTANTS
    Objects <- OneObject
    Typed <- TwoDrafts
    ForceAlways = FALSE
    YamlCalls = {y1, y2}
    MaxEdits = 2
    MaxTakeovers = 0
    Blank = Blank
INVARIANT AppliedWasDryRun
CHECK_DEADLOCK FALSE
