--------------------------- MODULE InstrumentFields ---------------------------
(***************************************************************************)
(* An OPL3 instrument on its way between a bank file, the parameters of a  *)
(* part, a project and the chip: sources/opl3/adl/instrument.h and .cc,    *)
(* instrument_properties.cc, parameter_block.cc, over PackedFields;        *)
(* what the controls of the editor show of it (opl3/ui), and what the core *)
(* takes from an operator's registers (opl3/core).                         *)
(*                                                                         *)
(* The instrument keeps its fields packed in the bytes of the registers,   *)
(* some of them counted down from their greatest value.  One operator and  *)
(* one pair stand for all.  Of the fields outside the registers there is a *)
(* tuning, which the parameters hold, and a delay, which they do not.      *)
(***************************************************************************)
EXTENDS PackedFields

CONSTANTS Files,    \* instruments of bank files: records of flags, fb_conn, avekf,
                    \* ksl_l, atdec, susrel, wave, tune and delay
          MaxTurns  \* changes of a parameter

\* The registers of a byte each.
RegisterNames == {"flags", "fb_conn", "avekf", "ksl_l", "atdec", "susrel", "wave"}

\* struct Instrument: its bytes, and the numbers of more than a byte.
IsInstrument(i) ==
    /\ DOMAIN i = RegisterNames \cup {"tune", "delay"}
    /\ \A r \in RegisterNames : i[r] \in 0..255
    /\ i.tune \in Int /\ -32768 <= i.tune /\ i.tune <= 32767
    /\ i.delay \in Nat /\ i.delay <= 65535

ASSUME InstrumentAssumption ==
    /\ MaxTurns \in Nat
    /\ \A i \in Files : IsInstrument(i)

VARIABLES
    instrument, \* the instrument of the program the part selects, as the player has it
    knobs,      \* the part's parameters, by field
    controls,   \* what the editor's controls show, by field
    unapplied,  \* the part is marked as changed
    turns,      \* changes so far
    kept        \* what the instrument was loaded with where there is no parameter

instrumentVars == <<instrument, knobs, controls, unapplied, turns, kept>>

(***************************************************************************)
(* The fields.                                                             *)
(***************************************************************************)
\* PARAMETER and OP_PARAMETER of Instrument.
Layout(f) ==
    CASE f = "blank" -> Plain("flags", 2, 1)
      [] f = "rhythm_mode" -> Plain("flags", 3, 3)
      [] f = "fixed_note" -> Plain("flags", 6, 1)
      [] f = "con" -> Plain("fb_conn", 0, 1)    [] f = "fb" -> Plain("fb_conn", 1, 3)
      [] f = "attack" -> Down("atdec", 4, 4)    [] f = "decay" -> Down("atdec", 0, 4)
      [] f = "sustain" -> Down("susrel", 4, 4)  [] f = "release" -> Down("susrel", 0, 4)
      [] f = "level" -> Down("ksl_l", 0, 6)     [] f = "ksl" -> Plain("ksl_l", 6, 2)
      [] f = "fmul" -> Plain("avekf", 0, 4)     [] f = "trem" -> Plain("avekf", 7, 1)
      [] f = "vib" -> Plain("avekf", 6, 1)      [] f = "sus" -> Plain("avekf", 5, 1)
      [] f = "env" -> Plain("avekf", 4, 1)      [] f = "wave" -> Plain("wave", 0, 3)

KnobFields == {"blank", "con", "fb", "attack", "decay", "sustain", "release", "level", "ksl",
               "fmul", "trem", "vib", "sus", "env", "wave"}
OtherFields == {"rhythm_mode", "fixed_note"}
AllFields == KnobFields \cup OtherFields

Greatest(f) == GreatestOf(Layout(f))

FieldOf(i, f) == Unpacked(i, Layout(f))

\* Wrong, to try the checks: what the field had is not cleared first.
WithFieldAdded(i, f, value) ==
    LET l == Layout(f)
    IN  [i EXCEPT ![l.register] = (@ + Turned(l, value) * 2^l.shift) % 256]

WithField(i, f, value) == Packed(i, Layout(f), value)

\* The accessors called one after another: of the fields with a parameter, and of all.
Called(i, values, f) == WithField(i, f, values[f])
WithKnobs(i, values) ==
    LET j ++ f == Called(j, values, f)
    IN  i ++ "blank" ++ "con" ++ "fb" ++ "attack" ++ "decay" ++ "sustain" ++ "release"
          ++ "level" ++ "ksl" ++ "fmul" ++ "trem" ++ "vib" ++ "sus" ++ "env" ++ "wave"
WithFields(i, values) ==
    Called(Called(WithKnobs(i, values), values, "rhythm_mode"), values, "fixed_note")

FieldsOf(i, fields) == [f \in fields |-> FieldOf(i, f)]

\* Instrument(): blank, and nothing else.
NewInstrument ==
    [r \in RegisterNames \cup {"tune", "delay"} |-> IF r = "flags" THEN 4 ELSE 0]

Within(low, high, x) == IF x < low THEN low ELSE IF x > high THEN high ELSE x

(***************************************************************************)
(* The conversions.                                                        *)
(***************************************************************************)
\* Part::set_instrument: a parameter holds what its range (setup_parameters) does.
Parameters(i) ==
    [f \in KnobFields \cup {"tune"} |->
        IF f = "tune" THEN Within(-127, 127, i.tune) ELSE FieldOf(i, f)]

\* Part::instrument: what there is no parameter for stays as base has it.
FromParameters(base, p) == [WithKnobs(base, p) EXCEPT !.tune = p.tune]

\* to_properties: the fields by name, and not the bytes they are packed in.
Properties(i) == [fields |-> FieldsOf(i, AllFields), tune |-> i.tune, delay |-> i.delay]

\* from_properties
FromProperties(set) ==
    LET mode == set.fields.rhythm_mode
        fields == [set.fields EXCEPT !.rhythm_mode = IF mode \in 0..7 THEN mode ELSE 0]
    IN  [WithFields(NewInstrument, fields) EXCEPT
            !.tune = Within(-32768, 32767, set.tune), !.delay = Within(0, 65535, set.delay)]

\* A value of ksl as the editor orders them: 0, 1.5, 3 and 6 dB per octave.
SwapKsl(ksl) == CASE ksl = 1 -> 2 [] ksl = 2 -> 1 [] OTHER -> ksl

\* set_instrument_parameters and set_operator_parameters of the editor.
Controls(i) ==
    [f \in KnobFields \ {"blank"} |->
        IF f = "ksl" THEN SwapKsl(FieldOf(i, f)) ELSE FieldOf(i, f)]

\* What a control sets its parameter to.
FromControl(f, value) == IF f = "ksl" THEN SwapKsl(value) ELSE value

\* from_wopl, which has the fields of the same names and widths.
FromWopl(file) == file

(***************************************************************************)
(* The steps of a part: its program is loaded, its parameters are changed  *)
(* and applied, the project is written and read back.                      *)
(***************************************************************************)
KeptOf(i) == [fields |-> FieldsOf(i, OtherFields), delay |-> i.delay]

\* The instrument changes, and the parameters and the editor are told.
Shows(i) ==
    /\ instrument' = i
    /\ knobs' = Parameters(i)
    /\ controls' = Controls(i)
    /\ unapplied' = FALSE

InstrumentInit ==
    /\ \E file \in Files : instrument = FromWopl(file)
    /\ knobs = Parameters(instrument)
    /\ controls = Controls(instrument)
    /\ kept = KeptOf(instrument)
    /\ unapplied = FALSE /\ turns = 0

LoadInstrument(file) ==
    /\ Shows(FromWopl(file))
    /\ kept' = KeptOf(file)
    /\ UNCHANGED turns

SetKnob(f, value) ==
    /\ turns < MaxTurns
    /\ knobs' = [knobs EXCEPT ![f] = value]
    /\ unapplied' = TRUE
    /\ turns' = turns + 1
    /\ UNCHANGED <<instrument, kept>>

\* A control of the editor sets a parameter, which marks the part.
TurnControl(f, value) ==
    /\ SetKnob(f, FromControl(f, value))
    /\ controls' = [controls EXCEPT ![f] = value]

\* So does the host, and the editor does not know of it.
HostSets(f, value) == SetKnob(f, value) /\ UNCHANGED controls

\* load_instrument_from_parameters, which notifies the editor.
ApplyKnobs ==
    /\ unapplied
    /\ unapplied' = FALSE
    /\ instrument' = FromParameters(instrument, knobs)
    /\ controls' = Controls(instrument')
    /\ UNCHANGED <<knobs, turns, kept>>

\* getStateInformation and setStateInformation: changes not applied are replaced.
WriteAndRead ==
    /\ Shows(FromProperties(Properties(instrument)))
    /\ UNCHANGED <<turns, kept>>

KnobChoices(f) == IF f = "tune" THEN {-127, 127} ELSE {0, 1, Greatest(f)}

InstrumentNext ==
    \/ \E file \in Files : LoadInstrument(file)
    \/ \E f \in DOMAIN controls : \E value \in KnobChoices(f) : TurnControl(f, value)
    \/ \E f \in {"blank", "tune", "level", "ksl"} : \E value \in KnobChoices(f) :
            HostSets(f, value)
    \/ ApplyKnobs
    \/ WriteAndRead

InstrumentSpec == InstrumentInit /\ [][InstrumentNext]_instrumentVars

(***************************************************************************)
(* What the chip makes of the registers of an operator and its channel.    *)
(***************************************************************************)
\* ksl_shift: how far level_offset shifts the key scaling down, 31 for off.
KslShift(ksl) == <<31, 1, 2, 0>>[ksl + 1]

\* Core::derive, and Core::apply_array for the register of the channel.
ChipTakes(i) ==
    [ar |-> i.atdec \div 16, dr |-> i.atdec % 16, sl |-> i.susrel \div 16, rr |-> i.susrel % 16,
     tl |-> i.ksl_l % 64, scaling |-> KslShift(i.ksl_l \div 64), multiple |-> i.avekf % 16,
     ksr |-> (i.avekf \div 16) % 2, egt |-> (i.avekf \div 32) % 2,
     vibrato |-> (i.avekf \div 64) % 2, tremolo |-> i.avekf \div 128, wave |-> i.wave % 8,
     con |-> i.fb_conn % 2, fb |-> (i.fb_conn \div 2) % 8]

(***************************************************************************)
(* Once a part's changes are applied, the chip runs at the rates and       *)
(* levels the editor shows, which counts them the other way round, and     *)
(* with its switches, waveform, connection and feedback; a greater key     *)
(* scaling shown is a steeper one of the chip; and neither these changes   *)
(* nor a project written and read back have touched what there is no       *)
(* parameter for (load_instrument_from_parameters, plugin_processor.cc,    *)
(* instrument_properties.cc, and swap_ksl of opl3/ui/operator_editor.cc).  *)
(***************************************************************************)
ChipRunsWhatIsShown ==
    ~unapplied =>
        /\ ChipTakes(instrument) =
             [ar |-> 15 - controls.attack, dr |-> 15 - controls.decay,
              sl |-> 15 - controls.sustain, rr |-> 15 - controls.release,
              tl |-> 63 - controls.level, scaling |-> <<31, 2, 1, 0>>[controls.ksl + 1],
              multiple |-> controls.fmul, ksr |-> controls.env, egt |-> controls.sus,
              vibrato |-> controls.vib, tremolo |-> controls.trem, wave |-> controls.wave,
              con |-> controls.con, fb |-> controls.fb]
        /\ KeptOf(instrument) = kept
===============================================================================
