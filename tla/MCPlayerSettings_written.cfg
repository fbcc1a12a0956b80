\* A parameter is written while a player is made.
CONSTANTS
    opn2 = opn2  opna = opna  wild = wild  d1 = d1  d2 = d2
    Settings = {opn2, opna, wild}
    Playable <- Played
    Rate <- RateOf
    Designs = {d1, d2}
    NoDesign = NoDesign
    NoSettings = NoSettings
    MaxRequests = 2
    MaxSettingsNotices = 1
SPECIFICATION SettingsSpec
PROPERTY HostKeepsItsParameters
