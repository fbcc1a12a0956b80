----------------------------- MODULE Selections -----------------------------
(***************************************************************************)
(* The parts of the processor (src/sources/plugin_processor.cc): the       *)
(* program each part selects, the parameters that hold its instrument, the *)
(* channel of the player that plays it, and the project they are saved to. *)
(* A block handles the editor's messages, passes changed parameters on,    *)
(* part by part, and plays the host's MIDI, in this order and with the     *)
(* player lock; between blocks the host saves, opens or prepares again.    *)
(* The host and the editor write parameters at any time, without the lock. *)
(*                                                                         *)
(* The banks are what BankStore promises: which banks there are, and an    *)
(* instrument for each of their programs.  Only what parameters hold of an *)
(* instrument is modelled; its other fields stay with the program.  Each   *)
(* thing the host or the editor does counts against MaxInputs.             *)
(***************************************************************************)
EXTENDS Integers, FiniteSets

CONSTANTS
    NumParts,         \* 16
    DrumPart,         \* 9, the part that plays drums
    Programs,         \* the program numbers
    MelodicBanks,
    PercussiveBanks,  \* one for each number a drum part can be sent
    Sounds,           \* what an instrument is, to the parameters
    Held,             \* and what they hold of it: their ranges are narrower
    LoadSounds,       \* those of the instruments that are loaded
    NewSound,         \* the one of a new instrument
    DefaultBanks,     \* the banks of a new player
    DefaultIns,       \* their instruments
    DefaultSelection, \* what it selects for each part, which its channels play
    NoProgram,        \* stands for no instrument
    MaxInputs

Parts == 1 .. NumParts
Banks == MelodicBanks \cup PercussiveBanks
Instruments == [sound : Sounds, blank : BOOLEAN]
Places == [bank : Banks, program : Programs]
NoPart == 0

\* set_instrument: each value, within the range of its parameter.
AsParameters(i) == [i EXCEPT !.sound = Held[i.sound]]

ASSUME PartsAssumption ==
    /\ NumParts \in Nat \ {0} /\ DrumPart \in Parts /\ MaxInputs \in Nat
    /\ MelodicBanks \cap PercussiveBanks = {}
    /\ Held \in [Sounds -> Sounds] /\ \A s \in Sounds : Held[Held[s]] = Held[s]
    /\ LoadSounds \subseteq Sounds /\ NewSound \in Sounds /\ NoProgram \notin Instruments
    /\ DefaultBanks \subseteq Banks
    /\ DefaultIns \in [Banks -> [Programs -> Instruments]]
    /\ DefaultSelection \in [Parts -> Places]
    /\ \A p \in Parts : DefaultSelection[p].bank \in DefaultBanks

VARIABLES
    player,     \* there is one
    banks,      \* the banks it holds
    ins,        \* and their instruments; those of no other bank are blank
    selection,  \* selection_
    params,     \* parameter_block_->part
    changed,    \* parameter_changed_cb_, the bits of the instruments
    writing,    \* the part whose parameter was stored and is yet to be marked
    at,         \* how far the thread with the player lock is, and for whom
    midi_bank,  \* midi_bank_msb_ and _lsb_
    lib_bank,   \* the bank select each channel of the player had last
    patch,      \* and the place it plays, since the last program change
    stale,      \* parts whose program was changed behind their parameters
    saved,      \* the project the host keeps, empty at first
    clean,      \* nothing was done since that was opened
    inputs      \* what was done so far

selectionVars == <<player, banks, ins, selection, params, changed, writing, at,
                   midi_bank, lib_bank, patch, stale, saved, clean, inputs>>
bankState == <<banks, ins>>
channels == <<midi_bank, lib_bank, patch>>
project == <<player, saved>>

Blank == [sound |-> NewSound, blank |-> TRUE]
AllBlank == [p \in Programs |-> Blank]
Free == [step |-> "free", part |-> NoPart, by |-> "none"]
EmptyProject == [ins |-> [b \in {} |-> AllBlank], selection |-> DefaultSelection]

\* What the parameters of part p are to hold, if its program is there.
Shown(p) ==
    IF selection[p].bank \in banks
    THEN AsParameters(ins[selection[p].bank][selection[p].program])
    ELSE NoProgram

\* What the parameters hold of the programs that a new player selects.
DefaultParams ==
    [p \in Parts |-> AsParameters(DefaultIns[DefaultSelection[p].bank][DefaultSelection[p].program])]
DefaultBank == [p \in Parts |-> DefaultSelection[p].bank]

SelectionsInit ==
    /\ player = FALSE
    /\ banks = {} /\ ins = [b \in Banks |-> AllBlank]
    /\ selection = DefaultSelection /\ params = DefaultParams
    /\ changed = {} /\ writing = NoPart /\ at = Free
    /\ midi_bank = DefaultBank /\ lib_bank = DefaultBank /\ patch = DefaultSelection
    /\ stale = {} /\ saved = EmptyProject /\ clean = FALSE /\ inputs = 0

-----------------------------------------------------------------------------
(* set_instrument_parameters_notifying_host, for the parts of P.  A        *)
(* parameter tells its listener only of a value it did not have.           *)


Refresh(P) ==
    /\ params' = [p \in Parts |-> IF p \in P /\ Shown(p)' # NoProgram
                                  THEN Shown(p)' ELSE params[p]]
    /\ changed' = changed \cup {p \in Parts : params'[p] # params[p]}

\* Parts outside P that were not told of a change of the program they select.
StaleBut(P) ==
    stale' = {p \in Parts \ P : /\ p \in stale \/ Shown(p)' # Shown(p)
                                /\ Shown(p)' \notin {NoProgram, params'[p]}}

\* The parts of P whose selection the player can be told of.
Heard(P) == {p \in P : (p = DrumPart) = (selection[p].bank \in PercussiveBanks)}

\* Wrong, to try the checks: a part that selects another bank keeps its program.
PlayBankOnly(P) ==
    LET told == Heard(P)'
    IN  /\ lib_bank' = [p \in Parts |-> IF p \in told THEN selection'[p].bank
                                        ELSE lib_bank[p]]
        /\ patch' = [p \in Parts |->
                        IF p \in told /\ selection[p].bank = selection'[p].bank
                        THEN selection'[p] ELSE patch[p]]

\* send_program_change_from_selection, for the parts of P: a melodic part tells
\* its channel the bank and the program, a drum part the number of its bank.
PlaySelected(P) ==
    LET told == Heard(P)'
    IN  /\ lib_bank' = [p \in Parts |-> IF p \in told THEN selection'[p].bank
                                        ELSE lib_bank[p]]
        /\ patch' = [p \in Parts |-> IF p \in told THEN selection'[p] ELSE patch[p]]

-----------------------------------------------------------------------------
(* load_program: into a bank that is there, or a new one, which may take   *)
(* the place of one whose programs are all blank, and may find no place.   *)

\* Wrong, to try the checks: only the first program of a bank is looked at.
FirstUsed == {b \in banks : \E n \in Programs : ~ins[b][n].blank /\ \A m \in Programs : n <= m}
\* The banks with a program that is not blank.
Used == {b \in banks : \E n \in Programs : ~ins[b][n].blank}

Loaded(b, n, i) ==
    /\ \/ b \in banks /\ UNCHANGED banks
       \/ /\ b \notin banks
          /\ \E evicted \in {{}} \cup {{e} : e \in banks \ Used} :
                banks' = (banks \ evicted) \cup {b}
    /\ ins' = [c \in Banks |-> IF c = b THEN [ins[b] EXCEPT ![n] = i]
                              ELSE IF c \in banks' THEN ins[c] ELSE AllBlank]

NotLoaded(b) == b \notin banks /\ UNCHANGED bankState

-----------------------------------------------------------------------------
(* Messages of the editor, at the start of a block.                        *)

Input == inputs < MaxInputs /\ inputs' = inputs + 1

Message ==
    /\ at.step = "messages" /\ Input
    /\ clean' = FALSE
    /\ UNCHANGED <<at, writing, midi_bank, project>>

\* LoadInstrument, sent for a part.  Only that part's parameters follow, if it
\* selects the program.
HandleLoadInstrument(b, n, i, part) ==
    /\ Message
    /\ LET shown == {part} \cap {p \in Parts : selection[p] = [bank |-> b, program |-> n]}
       IN  \/ Loaded(b, n, i) /\ UNCHANGED selection /\ Refresh(shown) /\ StaleBut(shown)
           \/ NotLoaded(b) /\ UNCHANGED <<selection, params, changed, stale>>
    /\ UNCHANGED <<lib_bank, patch>>

HandleCreateInstrument(b, n) ==
    /\ Message
    /\ ins[b][n].blank
    /\ Loaded(b, n, [sound |-> NewSound, blank |-> FALSE])
    /\ UNCHANGED <<selection, params, changed, lib_bank, patch>>
    /\ StaleBut({})

HandleDeleteInstrument(b, n) ==
    /\ Message
    /\ ~ins[b][n].blank
    /\ ins' = [ins EXCEPT ![b][n].blank = TRUE]
    /\ UNCHANGED <<banks, selection, params, changed, lib_bank, patch>>
    /\ StaleBut({})

\* DeleteBank of one bank, or ClearBanks.
HandleRemoveBanks(B) ==
    /\ Message
    /\ banks' = banks \ B
    /\ ins' = [b \in Banks |-> IF b \in B THEN AllBlank ELSE ins[b]]
    /\ UNCHANGED <<selection, params, changed, lib_bank, patch>>
    /\ StaleBut({})

HandleSelectProgram(part, place) ==
    /\ Message
    /\ selection[part] # place
    /\ selection' = [selection EXCEPT ![part] = place]
    /\ UNCHANGED bankState
    /\ PlaySelected({part})
    /\ Refresh({part}) /\ stale' = stale \ {part}

-----------------------------------------------------------------------------
(* The block, up to its MIDI.                                              *)

Begin(who, first) ==
    /\ at = Free /\ player
    /\ at' = [step |-> first, part |-> 1, by |-> who]

Unmoved == UNCHANGED <<bankState, selection, params, channels, stale, project>>

BeginBlock ==
    /\ Begin("block", "messages")
    /\ Unmoved /\ UNCHANGED <<changed, writing, clean, inputs>>

EndMessages ==
    /\ at.step = "messages" /\ at' = [at EXCEPT !.step = "apply"]
    /\ Unmoved /\ UNCHANGED <<changed, writing, clean, inputs>>

\* apply_parameter_changes, a part that has no change.
SkipPart ==
    /\ at.step = "apply" /\ at.part \in Parts \ changed
    /\ at' = [at EXCEPT !.part = @ + 1]
    /\ Unmoved /\ UNCHANGED <<changed, writing, clean, inputs>>

\* Wrong, to try the checks: the marks of every part are taken for one.
UnmarkEveryPart ==
    /\ at.step = "apply" /\ at.part \in changed
    /\ at' = [at EXCEPT !.step = "load"]
    /\ changed' = {}
    /\ Unmoved /\ UNCHANGED <<writing, clean, inputs>>

\* A part that has one: the mark is taken before the parameters are read.
UnmarkPart ==
    /\ at.step = "apply" /\ at.part \in changed
    /\ at' = [at EXCEPT !.step = "load"]
    /\ changed' = changed \ {at.part}
    /\ Unmoved /\ UNCHANGED <<writing, clean, inputs>>

\* load_instrument_from_parameters, without the mark.
PassOn(part) ==
    /\ \/ Loaded(selection[part].bank, selection[part].program, params[part])
       \/ NotLoaded(selection[part].bank)
    /\ UNCHANGED <<selection, params>>
    /\ StaleBut({part})

LoadPart ==
    /\ at.step = "load"
    /\ PassOn(at.part)
    /\ at' = [at EXCEPT !.step = "apply", !.part = @ + 1]
    /\ UNCHANGED <<changed, writing, channels, project, clean, inputs>>

AllPassedOn(who) == at.step = "apply" /\ at.part > NumParts /\ at.by = who

EndApply ==
    /\ AllPassedOn("block") /\ at' = [at EXCEPT !.step = "midi"]
    /\ Unmoved /\ UNCHANGED <<changed, writing, clean, inputs>>

EndBlock ==
    /\ at.step = "midi" /\ at' = Free
    /\ Unmoved /\ UNCHANGED <<changed, writing, clean, inputs>>

-----------------------------------------------------------------------------
(* handle_midi: the player has the message first.                          *)

PlayMidi ==
    /\ at.step = "midi" /\ Input /\ clean' = FALSE
    /\ UNCHANGED <<at, writing, project, bankState>>

\* Bank select, both halves.
HandleBankSelect(part, b) ==
    /\ PlayMidi
    /\ part # DrumPart
    /\ lib_bank' = [lib_bank EXCEPT ![part] = b]
    /\ midi_bank' = [midi_bank EXCEPT ![part] = b]
    /\ UNCHANGED <<selection, params, changed, patch, stale>>

\* A program change on a melodic part: the program, in the bank selected.
HandleProgramChange(part, n) ==
    /\ PlayMidi
    /\ part # DrumPart
    /\ patch' = [patch EXCEPT ![part] = [bank |-> lib_bank[part], program |-> n]]
    /\ selection' = [selection EXCEPT ![part] = [bank |-> midi_bank[part], program |-> n]]
    /\ Refresh({part}) /\ stale' = stale \ {part}
    /\ UNCHANGED <<midi_bank, lib_bank>>


\* On the drum part the number is that of the bank, and the program stays.
KitSelects(b) == [bank |-> b, program |-> selection[DrumPart].program]

HandleKitChange(b) ==
    /\ PlayMidi
    /\ patch' = [patch EXCEPT ![DrumPart].bank = b]
    /\ selection' = [selection EXCEPT ![DrumPart] = KitSelects(b)]
    /\ Refresh({DrumPart}) /\ stale' = stale \ {DrumPart}
    /\ UNCHANGED <<midi_bank, lib_bank>>

-----------------------------------------------------------------------------
(* A parameter of a part, set by the host or the editor: its value is      *)
(* stored, and then parameterValueChangedEx marks the part.                *)

StoreParameter(part, v) ==
    /\ writing = NoPart /\ Input /\ params[part] # v
    /\ params' = [params EXCEPT ![part] = v]
    /\ writing' = part /\ clean' = FALSE
    /\ UNCHANGED <<player, bankState, selection, changed, at, channels, stale, saved>>

MarkParameter ==
    /\ writing # NoPart
    /\ changed' = changed \cup {writing} /\ writing' = NoPart
    /\ Unmoved /\ UNCHANGED <<at, clean, inputs>>

-----------------------------------------------------------------------------
(* Players, and the project.                                               *)

\* write_state: the programs in use of those banks.
Written ==
    [ins |-> [b \in Used |->
                 [n \in Programs |-> IF ins[b][n].blank THEN Blank ELSE ins[b][n]]],
     selection |-> selection]

\* Wrong, to try the checks: the selections stay those of a new player.
ReadBanks(s) ==
    /\ banks' = DOMAIN s.ins
    /\ ins' = [b \in Banks |-> IF b \in DOMAIN s.ins THEN s.ins[b] ELSE AllBlank]
    /\ selection' = DefaultSelection

\* read_state, into a player whose channels were as given.
ReadState(s) ==
    /\ banks' = DOMAIN s.ins
    /\ ins' = [b \in Banks |-> IF b \in DOMAIN s.ins THEN s.ins[b] ELSE AllBlank]
    /\ selection' = s.selection

\* The instruments of a new player once the parts of P that were given values
\* have passed them on, one part after the other.
Given(P) ==
    [b \in Banks |-> [n \in Programs |->
        LET givers == {p \in P \cap changed : DefaultSelection[p] = [bank |-> b, program |-> n]}
        IN  IF givers = {} THEN DefaultIns[b][n]
            ELSE params[CHOOSE p \in givers : \A q \in givers : q <= p]]]

\* create_first_player: a part takes the values given to its parameters before,
\* and the others those of the new player.
FirstParams ==
    [p \in Parts |->
        IF p \in changed THEN params[p]
        ELSE AsParameters(Given(1 .. p)[DefaultSelection[p].bank][DefaultSelection[p].program])]

\* prepareToPlay, and getStateInformation once a parameter was changed.
CreateFirstPlayer ==
    /\ at = Free /\ ~player
    /\ player' = TRUE
    /\ banks' = DefaultBanks /\ ins' = Given(Parts)
    /\ params' = FirstParams
    /\ changed' = {p \in Parts \ changed : params'[p] # params[p]}
    /\ stale' = {p \in Parts : \E q \in changed :
                    p < q /\ DefaultSelection[p] = DefaultSelection[q]}
    /\ UNCHANGED <<selection, at, writing, channels, saved, clean, inputs>>

\* getStateInformation, and what makes the player again, both of which pass
\* changes on first.
BeginSave ==
    /\ Begin("save", "apply")
    /\ Unmoved /\ UNCHANGED <<changed, writing, clean, inputs>>

WriteState ==
    /\ AllPassedOn("save") /\ at' = Free
    /\ saved' = Written /\ clean' = FALSE
    /\ UNCHANGED <<player, bankState, selection, params, changed, writing, channels,
                   stale, inputs>>

BeginRemake ==
    /\ Begin("remake", "apply")
    /\ Unmoved /\ UNCHANGED <<changed, writing, clean, inputs>>

\* recreate_player_keeping_state: a new player, with new channels, reads what
\* the old one wrote.  The parameters stay.
Remake ==
    /\ AllPassedOn("remake") \/ AllPassedOn("open")
    /\ at' = IF at.by = "open" THEN [at EXCEPT !.step = "refresh"] ELSE Free
    /\ ReadState(Written)
    /\ LET heard == Heard(Parts)
       IN  /\ lib_bank' = [p \in Parts |-> IF p \in heard THEN selection[p].bank
                                           ELSE DefaultSelection[p].bank]
           /\ patch' = [p \in Parts |-> IF p \in heard THEN selection[p]
                                        ELSE DefaultSelection[p]]
    /\ UNCHANGED <<player, params, changed, writing, midi_bank, saved, clean, inputs>>
    /\ StaleBut({})

\* setStateInformation: the project replaces the changes before it, and is read
\* into the player, which a resampling of its own has made again.  A value given
\* before there was a player is marked again when that is made, and goes to the
\* program the project selects.
OpenProject ==
    /\ at = Free /\ saved # EmptyProject
    /\ player' = TRUE
    /\ ReadState(saved)
    /\ PlaySelected(Parts)
    /\ params' = IF player THEN params ELSE DefaultParams
    /\ changed' = {p \in Parts : params'[p] # params[p]}
    /\ at' \in {[step |-> s, part |-> 1, by |-> "open"] :
                  s \in IF player THEN {"apply", "refresh"} ELSE {"refresh"}}
    /\ stale' = {}
    /\ clean' = (writing = NoPart /\ changed' = {})
    /\ UNCHANGED <<writing, midi_bank, saved, inputs>>

\* The host removes the plugin, and makes another for the project it keeps.
NewInstance ==
    /\ at = Free /\ player /\ writing = NoPart /\ saved # EmptyProject
    /\ player' = FALSE
    /\ banks' = {} /\ ins' = [b \in Banks |-> AllBlank]
    /\ selection' = DefaultSelection /\ params' = DefaultParams
    /\ changed' = {}
    /\ midi_bank' = DefaultBank /\ lib_bank' = DefaultBank /\ patch' = DefaultSelection
    /\ stale' = {} /\ clean' = FALSE
    /\ UNCHANGED <<writing, at, saved, inputs>>

\* And then the parameters of every part follow.
TellHost ==
    /\ at.step = "refresh" /\ at' = Free
    /\ UNCHANGED <<player, bankState, selection, writing, channels, saved, clean, inputs>>
    /\ Refresh(Parts) /\ stale' = {}

-----------------------------------------------------------------------------
SelectionsNext ==
    \/ BeginBlock \/ EndMessages \/ SkipPart \/ UnmarkPart \/ LoadPart
    \/ EndApply \/ EndBlock
    \/ \E b \in Banks, n \in Programs :
          \/ \E s \in LoadSounds, p \in Parts :
                HandleLoadInstrument(b, n, [sound |-> s, blank |-> FALSE], p)
          \/ HandleCreateInstrument(b, n)
          \/ HandleDeleteInstrument(b, n)
    \/ \E B \in {{b} : b \in banks} \cup {banks} : HandleRemoveBanks(B)
    \/ \E p \in Parts, l \in Places : HandleSelectProgram(p, l)
    \/ \E p \in Parts, b \in MelodicBanks : HandleBankSelect(p, b)
    \/ \E p \in Parts, n \in Programs : HandleProgramChange(p, n)
    \/ \E b \in PercussiveBanks : HandleKitChange(b)
    \/ \E p \in Parts, v \in {AsParameters(i) : i \in Instruments} : StoreParameter(p, v)
    \/ MarkParameter
    \/ CreateFirstPlayer \/ BeginSave \/ WriteState \/ BeginRemake \/ Remake
    \/ OpenProject \/ TellHost \/ NewInstance

-----------------------------------------------------------------------------
Steps == {"free", "messages", "apply", "load", "midi", "refresh"}
Askers == {"none", "block", "save", "remake", "open"}
SelectionsTypeOK ==
    /\ player \in BOOLEAN /\ banks \subseteq Banks
    /\ ins \in [Banks -> [Programs -> Instruments]]
    /\ selection \in [Parts -> Places] /\ patch \in [Parts -> Places]
    /\ midi_bank \in [Parts -> Banks] /\ lib_bank \in [Parts -> Banks]
    /\ params \in [Parts -> Instruments]
    /\ \A p \in Parts : params[p].sound = Held[params[p].sound]
    /\ changed \subseteq Parts /\ stale \subseteq Parts
    /\ writing \in Parts \cup {NoPart}
    /\ at \in [step : Steps, part : 0 .. NumParts + 1, by : Askers]
    /\ DOMAIN saved.ins \subseteq Banks
    /\ saved.ins \in [DOMAIN saved.ins -> [Programs -> Instruments]]
    /\ saved.selection \in [Parts -> Places]
    /\ clean \in BOOLEAN /\ inputs \in 0 .. MaxInputs

\* A part whose values are on their way to the player, or were left behind.
OnTheWay(p) ==
    \/ p \in changed \cup stale \/ p = writing
    \/ at.step = "load" /\ at.part = p
    \/ at.by = "open"

\* What the host's parameters say of a part is what its selected program is,
\* once every change of them has been passed on: a value that the host stores
\* while the mark of an earlier one is taken is not lost.  The operations that
\* change a program without its parameters are the ones that leave a part stale.
ParametersHoldTheSelection ==
    \A p \in Parts : player /\ ~OnTheWay(p) /\ Shown(p) # NoProgram => params[p] = Shown(p)

\* The channel of a part plays the program the part selects, whoever selected
\* it, the editor, the host or a project; and the drum part plays the kit.
ChannelPlaysTheProgram ==
    \A p \in Heard(Parts) : IF p = DrumPart THEN patch[p].bank = selection[p].bank
                            ELSE patch[p].program = selection[p].program

\* The selection is kept the way the library reads a program change, in the bank
\* the channel's bank select named (the comment in handle_midi).
ChannelPlaysTheSelection ==
    at = Free => \A p \in Heard(Parts) \ {DrumPart} : patch[p] = selection[p]

\* A project, but for what parameters cannot hold of the programs selected.
AsHeld(s) ==
    [ins |-> [b \in DOMAIN s.ins |-> [n \in Programs |->
        IF \E p \in Parts : s.selection[p] = [bank |-> b, program |-> n]
        THEN AsParameters(s.ins[b][n]) ELSE s.ins[b][n]]],
     selection |-> s.selection]

\* What is written of a project that was only opened, and played, and had its
\* player made again, is that project: no bank, program or selection is lost.
ProjectSurvives == clean => AsHeld(Written) = AsHeld(saved)

\* A player made again plays the programs of the one before, and each part the
\* one it played.
InUse == {l \in Places \X Instruments : /\ l[1].bank \in banks /\ ~l[2].blank
                                        /\ ins[l[1].bank][l[1].program] = l[2]}
RemakeKeepsThePrograms ==
    [][Remake => InUse' = InUse /\ selection' = selection]_selectionVars

-----------------------------------------------------------------------------
(* The inductive invariant.                                                *)

\* What a thread is doing with the player, and for whom.
AtOK ==
    /\ at.step = "load" => at.part \in Parts
    /\ at.step \in {"messages", "midi"} => at.by = "block"
    /\ ~player => at = Free /\ selection = DefaultSelection

\* A project holds no bank that is all blank, nor anything of a blank program.
SavedOK ==
    \A b \in DOMAIN saved.ins :
        /\ \E n \in Programs : ~saved.ins[b][n].blank
        /\ \A n \in Programs : saved.ins[b][n].blank => saved.ins[b][n] = Blank

\* The player has the project's programs, each as it was or as the parameters
\* hold it, and what the parameters are to pass on is what they hold of it.
ProgramsAsOpened ==
    \A b \in banks, n \in Programs :
        \/ ins[b][n] = saved.ins[b][n]
        \/ /\ ins[b][n] = AsParameters(saved.ins[b][n])
           /\ \E p \in Parts : selection[p] = [bank |-> b, program |-> n]
ParametersAsOpened ==
    \A p \in Parts : p \in changed \/ (at.step = "load" /\ at.part = p) =>
        /\ selection[p].bank \in banks
        /\ params[p] = AsParameters(saved.ins[selection[p].bank][selection[p].program])

\* Until something else is done.
CleanOK ==
    clean =>
        /\ player /\ writing = NoPart
        /\ selection = saved.selection /\ banks = DOMAIN saved.ins
        /\ at.by = "open" => changed = {} /\ at.step # "load"
        /\ ProgramsAsOpened /\ ParametersAsOpened

SelectionsIInv ==
    SelectionsTypeOK /\ AtOK /\ SavedOK /\ CleanOK
    /\ ChannelPlaysTheProgram /\ ParametersHoldTheSelection

SelectionsSpec == SelectionsInit /\ [][SelectionsNext]_selectionVars
=============================================================================
