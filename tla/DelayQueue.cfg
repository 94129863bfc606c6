\* Three alarms; a clock set back by one tick.
SPECIFICATION FairSpec
CONSTANTS
    Alarms = {a1, a2, a3}
    Delays = {0, 1, 3}
    MaxSleep = 2
    MaxPass = 2
    MaxLate = 2
    MaxLost = 1
INVARIANTS
    DueTimesKept
    NeverOversleeps
PROPERTIES
    RingsInTurn
    OverdueRings
