\* A host's program change after one of the editor.  One melodic part and the drum part, two banks of each kind.
CONSTANTS
    m1 = m1  m2 = m2  k1 = k1  k2 = k2  soft = soft  loud = loud  wide = wide
    NoProgram = NoProgram
    NumParts = 2
    DrumPart = 2
    Programs = {0, 1}
    MelodicBanks = {m1, m2}
    PercussiveBanks = {k1, k2}
    Sounds = {soft, loud, wide}
    Held <- HeldSounds
    LoadSounds = {wide}
    NewSound = soft
    DefaultBanks <- FirstBanks
    DefaultIns <- FirstIns
    DefaultSelection <- FirstSelection
    MaxInputs = 2
SPECIFICATION SelectionsSpec
INVARIANT ChannelPlaysTheSelection
CHECK_DEADLOCK FALSE
