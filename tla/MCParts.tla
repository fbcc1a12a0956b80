------------------------------ MODULE MCParts ------------------------------
(* Parts of the program that share no state, each by itself on a small     *)
(* instance: which one it is stays what it was at first.                   *)
EXTENDS MCSelections, MCCore, AudioBlock, ChipResampler, CoreEnvelope, CoreShared,
        InstrumentFields, OpnInstrument, Measurement

VARIABLE part

partVars == <<part, selectionVars, audioVars, resamplerVars, group, coreVars,
              envelopeVars, sharedVars, instrumentVars, opnVars,
              measurementVars>>

\* Up and down, by whole numbers and not.
SomeRatios == {[up |-> r[1], down |-> r[2]] :
                  r \in {<<1, 3>>, <<2, 3>>, <<3, 2>>, <<5, 2>>, <<3, 7>>}}

\* A voice that sustains and one that does not, which decays faster.
TwoVoices == {[ar |-> 14, dr |-> 14, sl |-> 4, rr |-> 13, egt |-> 1, ksr |-> 2],
              [ar |-> 15, dr |-> 11, sl |-> 15, rr |-> 12, egt |-> 0, ksr |-> 1]}

\* One with no bit set but the blank one, and one with every bit.
PlainInstrument ==
    [flags |-> 4, fb_conn |-> 0, avekf |-> 0, ksl_l |-> 0, atdec |-> 0, susrel |-> 0,
     wave |-> 0, tune |-> 0, delay |-> 0]
TwoInstruments ==
    {PlainInstrument, [r \in RegisterNames |-> 255] @@ [tune |-> 200, delay |-> 65535]}

\* Of the operators that change places, the bits of one are told from those of the other.
SwappedOperators == {1, 2}
PlainOpnInstrument ==
    [bytes |-> [r \in OpnRegisters |-> IF r[2] = "inst_flags" THEN 2 ELSE 0],
     note_offset |-> 0, velocity |-> 0, key |-> 0, delay |-> 0]
TwoOpnInstruments ==
    {PlainOpnInstrument,
     [bytes |-> [r \in OpnRegisters |-> IF r[1] = 1 THEN 254 ELSE 255],
      note_offset |-> 200, velocity |-> -128, key |-> 255, delay |-> 65535]}

\* What is not the part in question is in one of its initial states.
PartsInit ==
    /\ part \in {"selections", "block", "resampler", "writes", "envelope", "shared",
                "instrument", "opn", "measurement"}
    /\ SelectionsInit
    /\ AudioInit /\ (part = "block" \/ size = 0)
    /\ ResamplerInit
    /\ IF part = "writes" THEN GroupInit ELSE NoGroup
    /\ EnvelopeInit /\ (part = "envelope" \/ voice.egt = 0)
    /\ SharedInit
    /\ InstrumentInit /\ (part = "instrument" \/ instrument = PlainInstrument)
    /\ MeasurementInit /\ (part = "measurement" \/ hertz = 344)
    /\ OpnInit /\ (part = "opn" \/ opnIns = PlainOpnInstrument)

\* The other parts stay in the state they are in.
OthersStill(mine) ==
    /\ part = mine /\ part' = part
    /\ mine # "selections" => UNCHANGED selectionVars
    /\ mine # "block" => UNCHANGED audioVars
    /\ mine # "resampler" => UNCHANGED resamplerVars
    /\ mine # "writes" => UNCHANGED <<group, coreVars>>
    /\ mine # "envelope" => UNCHANGED envelopeVars
    /\ mine # "shared" => UNCHANGED sharedVars
    /\ mine # "instrument" => UNCHANGED instrumentVars
    /\ mine # "opn" => UNCHANGED opnVars
    /\ mine # "measurement" => UNCHANGED measurementVars

PartsNext ==
    \/ OthersStill("selections") /\ SelectionsNext
    \/ OthersStill("block") /\ AudioNext
    \/ OthersStill("resampler") /\ ResamplerNext
    \/ OthersStill("writes") /\ GroupNext
    \/ OthersStill("envelope") /\ EnvelopeNext
    \/ OthersStill("shared") /\ SharedNext
    \/ OthersStill("instrument") /\ InstrumentNext
    \/ OthersStill("opn") /\ OpnNext
    \/ OthersStill("measurement") /\ MeasurementNext

\* EnvelopeFairness and ResamplerFairness, where these are the part.
PartsFairness ==
    /\ WF_envelopeVars(part = "envelope" /\ Pass)
    /\ WF_resamplerVars(part = "resampler" /\ (Refill \/ Return))

PartsSpec == PartsInit /\ [][PartsNext]_partVars /\ PartsFairness
=============================================================================
