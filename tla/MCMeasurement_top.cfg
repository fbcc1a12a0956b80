\* A note of 114, and one of 115.
CONSTANTS
    OnPeriods = 4
    OffPeriods = 3
    SilentPeriods = 1
    OnPart = 3
    OffPart = 2
    Levels = {0, 1, 3, 4}
    QuietLevel = 1
    PeriodFrames = 2
    HistoryFrames = 3
    FullNumber = 1024
    KeyInWord = TRUE
    Frequencies = {249082, 263894}
SPECIFICATION MeasurementSpec
INVARIANT HighNotesAreHighest
CHECK_DEADLOCK FALSE
