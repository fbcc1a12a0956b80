---------------------------- MODULE ChipControls ----------------------------
(***************************************************************************)
(* The settings of the chip field by field: the parameters, what of them   *)
(* the player runs (plugin_state.cc, adl/player.h, adl/chip_settings.cc),  *)
(* and the menu, the box and the delayed sliders of the editor that set    *)
(* them (ui/generic_main_component.tcc, opl3/ui and opn2/ui).  The fields  *)
(* of both plugins are taken together.  How a request travels to the       *)
(* worker is in PlayerSettings; here it is a queue.                        *)
(***************************************************************************)
EXTENDS Integers, Sequences

CONSTANTS TopCore,      \* the last emulator a parameter can name, from nought
          Built,        \* those this build has
          Kin, Substitute, \* those of the other chip, and the core that replaces them
          DefaultCore,
          MaxChips, FourOpsPerChip, TopMode, LastType,
          WildChips,    \* fields of a project: whatever a file can hold
          FirstChip,    \* the parameters' defaults
          MaxChipQueue, MaxChoices

ChipFields == {"emulator", "count", "fourop", "type", "alloc"}

\* setup_parameters: the values a parameter has.
ParameterValues ==
    [emulator |-> 0 .. TopCore, count |-> 1 .. MaxChips,
     fourop |-> 0 .. FourOpsPerChip * MaxChips, type |-> 0 .. LastType, alloc |-> -1 .. TopMode]

\* What the parameters can hold.
ChipSettings ==
    {cs \in [ChipFields -> Int] : \A f \in ChipFields : cs[f] \in ParameterValues[f]}

ASSUME ChipAssumption ==
    /\ TopCore \in Nat /\ Built \subseteq 0 .. TopCore /\ DefaultCore \in Built
    /\ MaxChips \in Nat \ {0} /\ FourOpsPerChip \in Nat /\ TopMode \in Nat /\ LastType \in Nat
    /\ MaxChipQueue \in Nat \ {0} /\ MaxChoices \in Nat
    /\ WildChips \subseteq [ChipFields -> Int] /\ FirstChip \in ChipSettings

VARIABLES
    chipParams,   \* Parameter_Block::chip_settings
    chip,         \* get_player_chip_settings
    madeFor,      \* the chip type the player was made for, and so its rate
    chipChanged,  \* Cb_ChipSettings is marked as changed
    chipRequests, \* the settings on their way to the worker
    chipNotice,   \* Cb_ChipSettings is to be notified
    chipNotices,  \* what is on its way to the editor
    chipEditor,   \* an editor is open
    chipShown,    \* its chip_settings_
    delayed,      \* parameters_delayed_: the fields a timer runs for, with their values
    choices,      \* made so far
    asked,        \* ghost: what each field was last asked to be
    hurried       \* ghost: it was asked while older settings were on their way

chipVars == <<chipParams, chip, madeFor, chipChanged, chipRequests, chipNotice, chipNotices,
              chipEditor, chipShown, delayed, choices, asked, hurried>>


Lesser(a, b) == IF a <= b THEN a ELSE b
Within(low, high, v) == IF v < low THEN low ELSE Lesser(v, high)


GreatestValue(f) == CHOOSE v \in ParameterValues[f] : \A w \in ParameterValues[f] : w <= v
LeastValue(f) == CHOOSE v \in ParameterValues[f] : \A w \in ParameterValues[f] : v <= w

\* set_chip_settings: a parameter holds what it is given to its range.
Held(cs) == [f \in ChipFields |-> Within(LeastValue(f), GreatestValue(f), cs[f])]

\* available_emulator.
Available(core) ==
    IF core \in Built THEN core
    ELSE IF core \in Kin /\ Substitute \in Built THEN Substitute
    ELSE DefaultCore

\* playable_chip_settings.
PlayableChip(cs) ==
    LET count == Within(1, MaxChips, cs.count)
    IN  [emulator |-> Available(cs.emulator), count |-> count,
         fourop |-> Lesser(cs.fourop, FourOpsPerChip * count),
         type |-> Lesser(cs.type, LastType), alloc |-> Within(-1, TopMode, cs.alloc)]

\* Chip_Settings::from_properties: none of them is less than nought but the mode.
FromProperties(set) ==
    [f \in ChipFields |-> IF f # "alloc" /\ set[f] < 0 THEN 0 ELSE set[f]]

\* An editor that is new shows the defaults of Chip_Settings until it is told.
NoDelays == <<>>

ChipInit ==
    /\ chipParams = FirstChip /\ chip = PlayableChip(FirstChip) /\ madeFor = chip.type
    /\ chipChanged = FALSE /\ chipRequests = <<>>
    /\ chipNotice = FALSE /\ chipNotices = <<>>
    /\ chipEditor = TRUE /\ chipShown = chip /\ delayed = NoDelays
    /\ choices = 0 /\ asked = FirstChip /\ hurried = FALSE

OneMoreChoice == choices < MaxChoices /\ choices' = choices + 1

\* Nothing of the settings is on its way.
ChipOnItsWay == chipChanged \/ chipRequests # <<>> \/ chipNotice \/ chipNotices # <<>>

Set(f, value) ==
    /\ chipParams' = [chipParams EXCEPT ![f] = value]
    /\ chipChanged' = (chipChanged \/ chipParams[f] # value)
    /\ asked' = [asked EXCEPT ![f] = value]

HostSets(f, value) ==
    /\ OneMoreChoice
    /\ Set(f, value)
    /\ UNCHANGED <<chip, madeFor, chipRequests, chipNotice, chipNotices, chipEditor,
                   chipShown, delayed, hurried>>

-----------------------------------------------------------------------------
(* The editor.                                                             *)

\* The choices of the menu and of the box: the cores that are built, the modes, the types.
Offered(f) == IF f = "emulator" THEN Built ELSE ParameterValues[f]

\* Wrong, to try the checks: the modes are counted from nought in the one and from -1 in
\* the other.
AsShownFromNought(f, value) ==
    IF f = "alloc" THEN value + 1 = chipShown[f] ELSE value = chipShown[f]

\* What is chosen is what the editor shows: nothing to send.
AsShown(f, value) == value = chipShown[f]

\* apply_chip_menu_choice, and comboBoxChanged of the chip type.
Choose(f, value) ==
    /\ chipEditor /\ OneMoreChoice
    /\ IF AsShown(f, value)
       THEN /\ asked' = [asked EXCEPT ![f] = value]
            /\ hurried' = (hurried \/ ChipOnItsWay)
            /\ UNCHANGED <<chipParams, chipChanged>>
       ELSE Set(f, value) /\ UNCHANGED hurried
    /\ UNCHANGED <<chip, madeFor, chipRequests, chipNotice, chipNotices, chipEditor,
                   chipShown, delayed>>

\* sliderValueChanged: the timer of the parameter is begun again
\* (set_int_parameter_with_delay).
MoveSlider(f, value) ==
    /\ chipEditor /\ OneMoreChoice
    /\ f = "fourop" => value <= FourOpsPerChip * chipShown.count
    /\ delayed' = [g \in DOMAIN delayed \cup {f} |-> IF g = f THEN value ELSE delayed[g]]
    /\ UNCHANGED <<chipParams, chip, madeFor, chipChanged, chipRequests, chipNotice,
                   chipNotices, chipEditor, chipShown, asked, hurried>>

DelayIsOver(f) ==
    /\ f \in DOMAIN delayed
    /\ delayed' = [g \in DOMAIN delayed \ {f} |-> delayed[g]]
    /\ Set(f, delayed[f])
    /\ UNCHANGED <<chip, madeFor, chipRequests, chipNotice, chipNotices, chipEditor,
                   chipShown, choices, hurried>>

\* With the editor go its timers.
CloseEditor ==
    /\ chipEditor /\ chipEditor' = FALSE
    /\ delayed' = NoDelays
    /\ UNCHANGED <<chipParams, chip, madeFor, chipChanged, chipRequests, chipNotice,
                   chipNotices, chipShown, choices, asked, hurried>>

\* A new editor asks for the settings (RequestChipSettings).
OpenEditor ==
    /\ ~chipEditor /\ chipEditor' = TRUE
    /\ chipShown' = FirstChip
    /\ chipNotice' = TRUE
    /\ UNCHANGED <<chipParams, chip, madeFor, chipChanged, chipRequests, chipNotices,
                   delayed, choices, asked, hurried>>

\* receive_chip_settings and set_chip_settings.
ReceiveChip ==
    /\ chipEditor /\ chipNotices # <<>>
    /\ chipShown' = Head(chipNotices) /\ chipNotices' = Tail(chipNotices)
    /\ UNCHANGED <<chipParams, chip, madeFor, chipChanged, chipRequests, chipNotice,
                   chipEditor, delayed, choices, asked, hurried>>

-----------------------------------------------------------------------------
(* The processor.                                                          *)

\* The library chooses a number for the chips the player has by now, and the parameter
\* takes it (SelectOptimal4Ops, Player::set_num_4ops).
SelectOptimal4Ops(n) ==
    /\ chipEditor /\ OneMoreChoice
    /\ n <= FourOpsPerChip * chip.count
    /\ chip' = [chip EXCEPT !.fourop = n]
    /\ Set("fourop", n)
    /\ chipNotice' = TRUE
    /\ hurried' = (hurried \/ chipRequests # <<>>)
    /\ UNCHANGED <<madeFor, chipRequests, chipNotices, chipEditor, chipShown, delayed>>

\* process_parameter_changes.
CompareChip ==
    /\ chipChanged
    /\ chipChanged' = FALSE
    /\ IF PlayableChip(chipParams) = chip
       THEN hurried' = (hurried \/ chipRequests # <<>>) /\ UNCHANGED chipRequests
       ELSE /\ Len(chipRequests) < MaxChipQueue
            /\ chipRequests' = Append(chipRequests, chipParams)
            /\ UNCHANGED hurried
    /\ UNCHANGED <<chipParams, chip, madeFor, chipNotice, chipNotices, chipEditor, chipShown,
                   delayed, choices, asked>>

\* set_chip_settings_nonrt: a chip of another rate has the player made again, for the
\* parameters as they are by then.
WorkerSetsChip ==
    /\ chipRequests # <<>>
    /\ chipRequests' = Tail(chipRequests)
    /\ chip' = PlayableChip(IF chipParams.type = madeFor THEN Head(chipRequests)
                            ELSE chipParams)
    /\ madeFor' = IF chipParams.type = madeFor THEN madeFor ELSE chipParams.type
    /\ chipNotice' = TRUE
    /\ UNCHANGED <<chipParams, chipChanged, chipNotices, chipEditor, chipShown, delayed,
                   choices, asked, hurried>>

NotifyChip ==
    /\ chipNotice /\ Len(chipNotices) < MaxChipQueue
    /\ chipNotice' = FALSE
    /\ chipNotices' = Append(chipNotices, chip)
    /\ UNCHANGED <<chipParams, chip, madeFor, chipChanged, chipRequests, chipEditor,
                   chipShown, delayed, choices, asked, hurried>>

\* read_state: the parameters take the project's, and the player what they hold then; one
\* of another rate is made again.  An emulator that no parameter names asks for the last.
ReadChip(set) ==
    /\ OneMoreChoice
    /\ chipParams' = Held(FromProperties(set))
    /\ chip' = PlayableChip(chipParams') /\ madeFor' = chipParams'.type
    /\ chipChanged' = (chipChanged \/ chipParams' # chipParams)
    /\ chipNotice' = TRUE
    /\ asked' = [FromProperties(set) EXCEPT !.emulator = chipParams'.emulator]
    /\ hurried' = (hurried \/ chipRequests # <<>>)
    /\ UNCHANGED <<chipRequests, chipNotices, chipEditor, chipShown, delayed>>

ChipNext ==
    \/ \E f \in ChipFields : \E v \in ParameterValues[f] : HostSets(f, v)
    \/ \E f \in {"emulator", "alloc", "type"} : \E v \in Offered(f) : Choose(f, v)
    \/ \E f \in {"count", "fourop"} : \E v \in ParameterValues[f] : MoveSlider(f, v)
    \/ \E f \in ChipFields : DelayIsOver(f)
    \/ CloseEditor \/ OpenEditor \/ ReceiveChip
    \/ \E n \in ParameterValues.fourop : SelectOptimal4Ops(n)
    \/ CompareChip \/ WorkerSetsChip \/ NotifyChip
    \/ \E set \in WildChips : ReadChip(set)

ChipSpec == ChipInit /\ [][ChipNext]_chipVars

-----------------------------------------------------------------------------
\* Settings the player can run as they are.
PlayableChips == {cs \in ChipSettings : PlayableChip(cs) = cs}

\* The types of the settings and of the queues: the parameters stay within their ranges,
\* and the player and what the editor is told within what can be played.
ChipTypeOK ==
    /\ chipParams \in ChipSettings /\ chip \in PlayableChips /\ madeFor \in 0 .. LastType
    /\ chipRequests \in Seq(ChipSettings) /\ Len(chipRequests) <= MaxChipQueue
    /\ chipNotices \in Seq(PlayableChips) /\ Len(chipNotices) <= MaxChipQueue
    /\ chipShown \in PlayableChips \cup {FirstChip}
    /\ chipChanged \in BOOLEAN /\ chipNotice \in BOOLEAN /\ chipEditor \in BOOLEAN
    /\ DOMAIN delayed \subseteq ChipFields
    /\ \A f \in DOMAIN delayed : delayed[f] \in ParameterValues[f]
    /\ asked \in [ChipFields -> Int] /\ hurried \in BOOLEAN
    /\ choices \in 0 .. MaxChoices

\* Fields that are played alike with any other fields.
PlayedAlike(a, b) ==
    /\ Available(a.emulator) = Available(b.emulator)
    /\ Within(1, MaxChips, a.count) = Within(1, MaxChips, b.count)
    /\ Lesser(a.fourop, FourOpsPerChip * MaxChips) = Lesser(b.fourop, FourOpsPerChip * MaxChips)
    /\ Lesser(a.type, LastType) = Lesser(b.type, LastType)
    /\ Within(-1, TopMode, a.alloc) = Within(-1, TopMode, b.alloc)

\* The parameters are what was asked, field by field.
ParametersAsAsked == ~hurried => PlayedAlike(chipParams, asked)

\* What the player runs, or is given last, are the parameters, but for changes that are
\* marked.
LastRequestIsParameters ==
    ~hurried /\ ~chipChanged =>
        PlayableChip(chipParams) = IF chipRequests = <<>> THEN chip
                                   ELSE PlayableChip(chipRequests[Len(chipRequests)])

\* What the editor shows, or is told last, is what the player runs, unless it is yet to
\* be told.
LastNoticeIsChip ==
    ~chipNotice => IF chipNotices # <<>> THEN chipNotices[Len(chipNotices)] = chip
                   ELSE chipEditor => chipShown = chip

\* All of it, as an inductive invariant.
ChipIInv == ChipTypeOK /\ ParametersAsAsked /\ LastRequestIsParameters /\ LastNoticeIsChip

\* Once nothing is on its way, the player runs what each field was last asked to be, as
\* far as it can be played, and the editor shows that: a choice that the editor takes for
\* what there is already, a number held to its range, a player made for another chip, and
\* settings of a project that no parameter has.  Except where something was asked while
\* older settings were still on their way (settings_overtaken shows what comes of that).
ChipRunsWhatWasAsked ==
    ~ChipOnItsWay /\ ~hurried =>
        chip = PlayableChip(asked) /\ (chipEditor => chipShown = chip)
=============================================================================
