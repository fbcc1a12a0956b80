\* Two parts and two banks of each kind; blocks of up to four pieces; five ratios;
\* six groups of registers and the slots they are of; two voices under a timer of two bits;
\* two instruments and two changes of a parameter.
CONSTANTS
    m1 = m1  m2 = m2  k1 = k1  k2 = k2  soft = soft  loud = loud  wide = wide
    NoProgram = NoProgram
    NumParts = 2
    DrumPart = 2
    Programs = {0, 1}
    MelodicBanks = {m1, m2}
    PercussiveBanks = {k1, k2}
    Sounds = {soft, loud, wide}
    Held <- HeldSounds
    LoadSounds = {wide}
    NewSound = soft
    DefaultBanks <- FirstBanks
    DefaultIns <- FirstIns
    DefaultSelection <- FirstSelection
    MaxInputs = 2
    Keys = {1}
    Kinds = {"on", "off", "sysex"}
    Interval = 4
    Sizes = {0, 3, 8}
    Lengths = {0, 6, 13}
    Times = {5, 7, 12}
    MaxEvents = 2
    MaxQueued = 1
    Ratios <- SomeRatios
    MaxFrames = 6
    Delays = {0, 2, 5}
    Watches <- AllWatches
    Writes <- AllWrites
    QueueSize = 2
    AddressToData = 8
    DataToAddress = 72
    Voices <- TwoVoices
    TimerBits = 2
    LowBits = 2
    MaxPasses = 40
    MaxDrums = 8
    Files <- TwoInstruments
    MaxTurns = 2
    OpnFiles <- TwoOpnInstruments
    OpnOperators <- SwappedOperators
    MaxOpnTurns = 2
    OnPeriods = 4
    OffPeriods = 3
    SilentPeriods = 1
    OnPart = 3
    OffPart = 2
    Levels = {0, 1, 3, 4}
    QuietLevel = 1
    PeriodFrames = 2
    HistoryFrames = 3
    FullNumber = 1024
    KeyInWord = TRUE
    Frequencies = {344, 4093, 249082}
SPECIFICATION PartsSpec
INVARIANTS
    ParametersHoldTheSelection
    ChannelPlaysTheProgram
    ProjectSurvives
    CountIsNotesHeld
    BlockIsRendered
    FramesConserved
    CopiesAreCurrent
    SlotsReadAsTheChipDoes
    OneWriteAPass
    RoutingIsByAlgorithm
    SharedIsAsIfOwn
    ChipRunsWhatIsShown
    OpnRunsWhatIsShown
    MeasuredAsItSounds
PROPERTIES
    RemakeKeepsThePrograms
    PullReturns
    LevelGoesOneWay
    EnvelopeMovesOn
CHECK_DEADLOCK FALSE
