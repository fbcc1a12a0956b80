\* A program that is deleted between its load and the next cycle.
CONSTANTS
    m1 = m1  p1 = p1  m2 = m2  v1 = v1  v2 = v2  n0 = n0  n1 = n1
    bank1 = bank1  bank2 = bank2
    NumSlots = 2
    NumPrograms = 1
    BankIds = {m1, p1, m2}
    NoBank = NoBank
    Voices = {v1}
    NoVoice = v1
    Delays = {0}
    NoDelay = 0
    Names = {n0, n1}
    NoName = n0
    MaxProgramNotifications = 1
    MaxProgramMeasurements = 1
    DefaultBanks <- OneBank
    DefaultInstruments <- FirstProgramOnly
    Loads <- BlankAndPlain
    ProgramNames = {n0}
    BankNames = {n0}
    Results = {0}
    PseudoIds = {bank1, bank2}
    PseudoId <- Numbers
    Percussive = {p1}
    LoadFlags = {{"Notify"}}
    MaxNotices = 1
    DelaysOf <- NotMeasured
    Places <- NoPlaces
    MaxLoop = 1
    Clients = {"anyone"}
SPECIFICATION BanksSpec
INVARIANT OnlyUsedProgramsAreMeasured
