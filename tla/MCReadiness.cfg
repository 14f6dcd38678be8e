CONSTANTS
    MaxBuilds = 2
    MaxFaults = 1
    MaxAge = 2
    Gap = 1
    Filled <- MCFilled
SPECIFICATION RSpec
INVARIANTS
    NoFalseAlarm
PROPERTIES
    ReadyIsCurrent
    StoppedShows
