\* The parameters go back while the worker is busy.
CONSTANTS
    opn2 = opn2  opna = opna  wild = wild  d1 = d1  d2 = d2
    Settings = {opn2, opna, wild}
    Playable <- Played
    Rate <- RateOf
    Designs = {d1, d2}
    NoDesign = NoDesign
    NoSettings = NoSettings
    MaxRequests = 2
    MaxSettingsNotices = 1
SPECIFICATION SettingsSpec
INVARIANT PlayerRunsTheParameters
