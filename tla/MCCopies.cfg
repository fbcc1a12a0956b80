\* Two programs to a bank and one slot for two banks: what is sent first, the caps of a
\* cycle, and instruments that differ; three settings of two chips and two resamplings;
\* the fields of the chip, with two of four emulators built; two parameters of a bank.
CONSTANTS
    m1 = m1  p1 = p1  m2 = m2  v1 = v1  v2 = v2  n0 = n0  n1 = n1
    bank1 = bank1  bank2 = bank2
    NumSlots = 1
    NumPrograms = 2
    BankIds = {m1}
    NoBank = NoBank
    Voices = {v1, v2}
    NoVoice = v1
    Delays = {0, 1, 2}
    NoDelay = 0
    Names = {n0, n1}
    NoName = n0
    MaxProgramNotifications = 1
    MaxProgramMeasurements = 1
    DefaultBanks <- OneBank
    DefaultInstruments <- FirstProgramOnly
    Loads <- OneNamedBank
    ProgramNames = {n0, n1}
    BankNames = {n0, n1}
    Results = {0}
    PseudoIds = {bank1, bank2}
    PseudoId <- MelodicNumber
    Percussive = {}
    LoadFlags = {{"Notify"}, {"Notify", "KeepName"}}
    MaxNotices = 1
    DelaysOf <- Measured12
    Places <- FirstPlace
    MaxLoop = 1
    Clients = {"editor", "worker"}
    opn2 = opn2  opna = opna  wild = wild  d1 = d1  d2 = d2
    Settings = {opn2, opna, wild}
    Playable <- Played
    Rate <- RateOf
    Designs = {d1, d2}
    NoDesign = NoDesign
    NoSettings = NoSettings
    MaxRequests = 2
    MaxSettingsNotices = 1
    Globals = {"volume_model", "deep"}
    TopGlobal = 1
    WildValues = {9}
    DefaultGlobals <- NoneSet
    MaxToPlayer = 2
    MaxToEditor = 1
    MaxGlobalSteps = 4
    TopCore = 3
    Built = {0, 2}
    Kin = {1}
    Substitute = 2
    DefaultCore = 0
    MaxChips = 2
    FourOpsPerChip = 1
    TopMode = 1
    LastType = 1
    WildChips <- SomeProjects
    FirstChip <- PlainChip
    MaxChipQueue = 1
    MaxChoices = 3
SPECIFICATION CopiesSpec
SYMMETRY SameDesigns
INVARIANTS
    UsedIsNotBlank
    EditorMatchesTheBanks
    MeasuredOrOnItsWay
    PlayerFollowsParameters
    ResamplingIsInUse
    EditorShowsThePlayer
    GlobalsAgree
    ChipRunsWhatWasAsked
CHECK_DEADLOCK FALSE
