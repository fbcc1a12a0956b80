---------------------------- MODULE OpnInstrument ----------------------------
(***************************************************************************)
(* An OPN2 instrument on its way between a bank file, the parameters of a  *)
(* part, a project, the operator panels of the editor and the chip:        *)
(* sources/opn2/adl, opn2/parameter_block.cc and opn2/ui, over             *)
(* PackedFields.                                                           *)
(*                                                                         *)
(* The instrument numbers its operators the way the registers of the chip  *)
(* do, in which the second and the third of the diagrams are swapped; the  *)
(* parameters, the projects and the panels know them by their names.  A    *)
(* byte is of an operator or of the whole, and so is a field.              *)
(***************************************************************************)
EXTENDS PackedFields

CONSTANTS OpnFiles,     \* instruments of bank files
          OpnOperators, \* the operators that are followed, as the instrument numbers them
          MaxOpnTurns   \* changes of a parameter

\* The place of what is not an operator's.
Whole == 4
OpnPlaces == OpnOperators \cup {Whole}

WholeRegisters == {"inst_flags", "fbalg", "lfosens"}
OperatorRegisters ==
    {"dtfm_30", "level_40", "rsatk_50", "amdecay1_60", "decay2_70", "susrel_80", "ssgeg_90"}
OpnRegisters == (OpnOperators \X OperatorRegisters) \cup ({Whole} \X WholeRegisters)

\* struct Instrument: its bytes, and the numbers of more than a byte or not of registers.
IsOpnInstrument(i) ==
    /\ DOMAIN i = {"bytes", "note_offset", "velocity", "key", "delay"}
    /\ i.bytes \in [OpnRegisters -> 0..255]
    /\ i.note_offset \in Int /\ -32768 <= i.note_offset /\ i.note_offset <= 32767
    /\ i.velocity \in -128..127 /\ i.key \in 0..255
    /\ i.delay \in Nat /\ i.delay <= 65535

ASSUME OpnAssumption ==
    /\ OpnOperators \subseteq 0..3 /\ MaxOpnTurns \in Nat
    /\ \A i \in OpnFiles : IsOpnInstrument(i)

VARIABLES
    opnIns,       \* the instrument of the program the part selects, as the player has it
    opnParams,    \* the part's parameters: those of the whole and those of each operator
    opnPanels,    \* what the editor shows: the whole, and the panel of each operator
    opnUnapplied, \* the part is marked as changed
    opnTurns,     \* changes so far
    opnKept       \* what the instrument was loaded with where there is no parameter

opnVars == <<opnIns, opnParams, opnPanels, opnUnapplied, opnTurns, opnKept>>

(***************************************************************************)
(* The fields, and the operators' names and numbers.                       *)
(***************************************************************************)
\* PARAMETER and OP_PARAMETER of Instrument: the layout of field f of a place.
OpnLayout(f, place) ==
    CASE f = "pseudo_eight_op" -> Plain(<<place, "inst_flags">>, 0, 1)
      [] f = "blank" -> Plain(<<place, "inst_flags">>, 1, 1)
      [] f = "feedback" -> Plain(<<place, "fbalg">>, 3, 3)
      [] f = "algorithm" -> Plain(<<place, "fbalg">>, 0, 3)
      [] f = "ams" -> Plain(<<place, "lfosens">>, 4, 2)
      [] f = "fms" -> Plain(<<place, "lfosens">>, 0, 3)
      [] f = "detune" -> Plain(<<place, "dtfm_30">>, 4, 3)
      [] f = "fmul" -> Plain(<<place, "dtfm_30">>, 0, 4)
      [] f = "level" -> Down(<<place, "level_40">>, 0, 7)
      [] f = "ratescale" -> Plain(<<place, "rsatk_50">>, 6, 2)
      [] f = "attack" -> Plain(<<place, "rsatk_50">>, 0, 5)
      [] f = "am" -> Plain(<<place, "amdecay1_60">>, 7, 1)
      [] f = "decay1" -> Plain(<<place, "amdecay1_60">>, 0, 5)
      [] f = "decay2" -> Plain(<<place, "decay2_70">>, 0, 5)
      [] f = "sustain" -> Plain(<<place, "susrel_80">>, 4, 4)
      [] f = "release" -> Plain(<<place, "susrel_80">>, 0, 4)
      [] f = "ssgenable" -> Plain(<<place, "ssgeg_90">>, 3, 1)
      [] f = "ssgwave" -> Plain(<<place, "ssgeg_90">>, 0, 3)

WholeFields == {"blank", "feedback", "algorithm", "ams", "fms"}
OperatorFields == {"detune", "fmul", "level", "ratescale", "attack", "am", "decay1", "decay2",
                   "sustain", "release", "ssgenable", "ssgwave"}
FieldsAt(place) == IF place = Whole THEN WholeFields ELSE OperatorFields

\* nth_operator: the name of the parameters of operator n.
OperatorName(n) == <<"op1", "op3", "op2", "op4", "whole">>[n + 1]

\* Wrong, to try the checks: in the order of the diagrams.
PanelInOrder(n) == <<"op1", "op2", "op3", "op4", "whole">>[n + 1]

\* op_editors of set_instrument_parameters: the panel shown operator n.
PanelOf(n) == <<"op1", "op3", "op2", "op4", "whole">>[n + 1]

\* The number each panel is made with, for which it sets the parameters.
NumberOf(panel) ==
    CASE panel = "op2" -> 2 [] panel = "op1" -> 0 [] panel = "op4" -> 3 [] panel = "op3" -> 1
      [] panel = "whole" -> Whole

OpnField(i, f, place) == Unpacked(i.bytes, OpnLayout(f, place))

\* The accessors of a place, one after another.
WithFieldAt(bytes, place, values, f) == Packed(bytes, OpnLayout(f, place), values[f])
WithFieldsAt(bytes, place, values) ==
    LET b ++ f == WithFieldAt(b, place, values, f)
    IN  IF place = Whole
        THEN bytes ++ "blank" ++ "feedback" ++ "algorithm" ++ "ams" ++ "fms"
        ELSE bytes ++ "detune" ++ "fmul" ++ "level" ++ "ratescale" ++ "attack" ++ "am"
                   ++ "decay1" ++ "decay2" ++ "sustain" ++ "release" ++ "ssgenable" ++ "ssgwave"

\* Those of every place that is followed.
WithPlace(bytes, place, values) ==
    IF place \in OpnPlaces THEN WithFieldsAt(bytes, place, values[place]) ELSE bytes
WithOpnFields(i, values) ==
    LET b ++ place == WithPlace(b, place, values)
    IN  [i EXCEPT !.bytes = i.bytes ++ Whole ++ 0 ++ 1 ++ 2 ++ 3]

OpnWithin(low, high, x) == IF x < low THEN low ELSE IF x > high THEN high ELSE x

\* Instrument(): blank, and nothing else.
NewOpnInstrument ==
    [bytes |-> [r \in OpnRegisters |-> IF r[2] = "inst_flags" THEN 2 ELSE 0],
     note_offset |-> 0, velocity |-> 0, key |-> 0, delay |-> 0]

(***************************************************************************)
(* The conversions.                                                        *)
(***************************************************************************)
ValueFields == {"tune", "veloffset", "drumnote"}
KnobsAt(place) == IF place = Whole THEN WholeFields \cup ValueFields ELSE OperatorFields

\* What a parameter, or a slider of the same range, holds of an instrument.
OpnKnob(i, f, place) ==
    CASE f = "tune" -> OpnWithin(-127, 127, i.note_offset)
      [] f = "veloffset" -> OpnWithin(-127, 127, i.velocity)
      [] f = "drumnote" -> i.key
      [] OTHER -> OpnField(i, f, place)

\* Part::set_instrument, of an instrument or of a blank one when there is none.
OpnParameters(i) ==
    [name \in {OperatorName(n) : n \in OpnPlaces} |->
        LET n == CHOOSE n \in OpnPlaces : OperatorName(n) = name
        IN  [f \in KnobsAt(n) |-> OpnKnob(i, f, n)]]

\* Part::instrument: what there is no parameter for stays as base has it.
FromOpnParameters(base, p) ==
    [WithOpnFields(base, [place \in OpnPlaces |-> p[OperatorName(place)]]) EXCEPT
        !.note_offset = p.whole.tune, !.velocity = p.whole.veloffset, !.key = p.whole.drumnote]

\* set_instrument_parameters and set_operator_parameters.
OpnShown(i) ==
    [panel \in {PanelOf(n) : n \in OpnPlaces} |->
        LET n == CHOOSE n \in OpnPlaces : PanelOf(n) = panel
        IN  [f \in KnobsAt(n) \ {"blank"} |-> OpnKnob(i, f, n)]]

\* to_properties, which writes no byte and every field by its name; one table (op_prefix)
\* names the operators both ways, so they are told by their numbers here,
OpnProperties(i) ==
    [fields |-> [place \in OpnPlaces |-> [f \in FieldsAt(place) |-> OpnField(i, f, place)]],
     pseudo_eight_op |-> OpnField(i, "pseudo_eight_op", Whole),
     note_offset |-> i.note_offset, velocity |-> i.velocity, key |-> i.key,
     delay |-> i.delay]

\* and from_properties.
FromOpnProperties(set) ==
    LET fields == WithOpnFields(NewOpnInstrument, set.fields)
    IN  [fields EXCEPT
            !.bytes = Packed(@, OpnLayout("pseudo_eight_op", Whole), set.pseudo_eight_op),
            !.note_offset = OpnWithin(-32768, 32767, set.note_offset),
            !.velocity = OpnWithin(-128, 127, set.velocity),
            !.key = OpnWithin(0, 255, set.key), !.delay = OpnWithin(0, 65535, set.delay)]

\* from_wopl and to_wopl: the fields by their names, the registers as they are.
FromWopn(file) ==
    [NewOpnInstrument EXCEPT
        !.bytes = file.bytes, !.note_offset = file.note_offset, !.velocity = file.velocity,
        !.key = file.key, !.delay = file.delay]
ToWopn(i) ==
    [bytes |-> i.bytes, note_offset |-> i.note_offset, velocity |-> i.velocity,
     key |-> i.key, delay |-> i.delay]

(***************************************************************************)
(* The steps of a part: its program is loaded, its parameters are changed  *)
(* and applied, the project is written and read back.                      *)
(***************************************************************************)
OpnKeptOf(i) == [pseudo_eight_op |-> OpnField(i, "pseudo_eight_op", Whole), delay |-> i.delay]

OpnShows(i) ==
    /\ opnIns' = i
    /\ opnParams' = OpnParameters(i)
    /\ opnPanels' = OpnShown(i)
    /\ opnUnapplied' = FALSE

OpnInit ==
    /\ \E file \in OpnFiles : opnIns = FromWopn(file)
    /\ opnParams = OpnParameters(opnIns)
    /\ opnPanels = OpnShown(opnIns)
    /\ opnKept = OpnKeptOf(opnIns)
    /\ opnUnapplied = FALSE /\ opnTurns = 0

OpnLoad(file) ==
    /\ OpnShows(FromWopn(file))
    /\ opnKept' = OpnKeptOf(file)
    /\ UNCHANGED opnTurns

\* A parameter is set, which marks the part.
OpnSet(name, f, value) ==
    /\ opnTurns < MaxOpnTurns
    /\ opnParams' = [opnParams EXCEPT ![name][f] = value]
    /\ opnUnapplied' = TRUE
    /\ opnTurns' = opnTurns + 1
    /\ UNCHANGED <<opnIns, opnKept>>

\* A knob, a button or a box of a panel, which sets the parameter of the panel's operator.
OpnTurn(panel, f, value) ==
    /\ OpnSet(OperatorName(NumberOf(panel)), f, value)
    /\ opnPanels' = [opnPanels EXCEPT ![panel][f] = value]

\* The buttons beside the wave of a panel take the wave before and the one after.
OpnNextWave(panel, step) ==
    LET wave == opnParams[OperatorName(NumberOf(panel))].ssgwave
    IN  OpnTurn(panel, "ssgwave", OpnWithin(0, 7, wave + step))

\* So does the host, which the editor does not know of.
OpnHostSets(name, f, value) == OpnSet(name, f, value) /\ UNCHANGED opnPanels

\* load_instrument_from_parameters, which notifies the editor.
OpnApply ==
    /\ opnUnapplied
    /\ opnUnapplied' = FALSE
    /\ opnIns' = FromOpnParameters(opnIns, opnParams)
    /\ opnPanels' = OpnShown(opnIns')
    /\ UNCHANGED <<opnParams, opnTurns, opnKept>>

\* The instrument goes to a project or to a file of its own, and comes back from it.
OpnWriteAndRead ==
    /\ OpnShows(FromOpnProperties(OpnProperties(opnIns)))
    /\ UNCHANGED <<opnTurns, opnKept>>

OpnSaveAndLoad ==
    /\ OpnShows(FromWopn(ToWopn(opnIns)))
    /\ UNCHANGED <<opnTurns, opnKept>>

OpnChoices(f) ==
    CASE f \in {"tune", "veloffset"} -> {-127, 127}
      [] f = "drumnote" -> {0, 255}
      [] OTHER -> {0, GreatestOf(OpnLayout(f, Whole))}

OpnNext ==
    \/ \E file \in OpnFiles : OpnLoad(file)
    \/ \E panel \in DOMAIN opnPanels : \E f \in DOMAIN opnPanels[panel] \ {"ssgwave"} :
            \E value \in OpnChoices(f) : OpnTurn(panel, f, value)
    \/ \E panel \in DOMAIN opnPanels \ {"whole"} : \E step \in {-1, 1} : OpnNextWave(panel, step)
    \/ \E name \in DOMAIN opnParams : \E f \in DOMAIN opnParams[name] \cap {"level", "blank"} :
            \E value \in OpnChoices(f) : OpnHostSets(name, f, value)
    \/ OpnApply
    \/ OpnWriteAndRead
    \/ OpnSaveAndLoad

OpnSpec == OpnInit /\ [][OpnNext]_opnVars

(***************************************************************************)
(* What the chip is told: setInstrument of the measurer writes the bytes   *)
(* of operator n four registers after those of operator n - 1, where the   *)
(* chip has its operators 1, 3, 2 and 4.                                   *)
(***************************************************************************)
ChipOperator(n) == <<"op1", "op3", "op2", "op4">>[n + 1]

\* The fields of registers 30 to 90, as the chip reads them.
OpnChipTakes(i, n) ==
    LET byte(r) == i.bytes[<<n, r>>]
    IN  [detune |-> (byte("dtfm_30") \div 16) % 8, fmul |-> byte("dtfm_30") % 16,
         tl |-> byte("level_40") % 128, ks |-> byte("rsatk_50") \div 64,
         ar |-> byte("rsatk_50") % 32, am |-> byte("amdecay1_60") \div 128,
         d1r |-> byte("amdecay1_60") % 32, d2r |-> byte("decay2_70") % 32,
         sl |-> byte("susrel_80") \div 16, rr |-> byte("susrel_80") % 16,
         ssg |-> byte("ssgeg_90") % 16]

(***************************************************************************)
(* Once a part's changes are applied, every operator of the chip runs at   *)
(* what the panel of its name shows, and neither those changes nor a       *)
(* project or a file written and read back have touched what there is no   *)
(* parameter for: the panels and the parameters of the operators turn      *)
(* the numbers of the operators into names for themselves (op_editors of   *)
(* opn2/ui/main_component.cc, nth_operator of opn2/parameter_block.h).     *)
(***************************************************************************)
OpnRunsWhatIsShown ==
    ~opnUnapplied =>
        /\ \A n \in OpnOperators :
            LET panel == opnPanels[ChipOperator(n)]
            IN  OpnChipTakes(opnIns, n) =
                  [detune |-> panel.detune, fmul |-> panel.fmul, tl |-> 127 - panel.level,
                   ks |-> panel.ratescale, ar |-> panel.attack, am |-> panel.am,
                   d1r |-> panel.decay1, d2r |-> panel.decay2, sl |-> panel.sustain,
                   rr |-> panel.release, ssg |-> 8 * panel.ssgenable + panel.ssgwave]
        /\ opnIns.bytes[<<Whole, "fbalg">>] % 64 =
             8 * opnPanels.whole.feedback + opnPanels.whole.algorithm
        /\ OpnKeptOf(opnIns) = opnKept
===============================================================================
