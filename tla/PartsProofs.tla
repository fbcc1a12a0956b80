----------------------------- MODULE PartsProofs -----------------------------
(***************************************************************************)
(* Proofs about what a part of the processor has: its selection            *)
(* (Selections), for any number of parts, banks, programs and sounds; and  *)
(* its instrument (InstrumentFields and OpnInstrument, over PackedFields), *)
(* for any instruments of the files and any number of changes.             *)
(***************************************************************************)
EXTENDS Selections, InstrumentFields, OpnInstrument, WellFoundedInduction, TLAPS

(***************************************************************************)
(* Operators.                                                              *)
(***************************************************************************)

\* A set of part numbers has a greatest one.
LEMMA HasGreatest ==
  ASSUME NEW N \in Nat, NEW T, T \subseteq 1 .. N, T # {}
  PROVE  \E x \in T : \A y \in T : y <= x
<1> DEFINE D == {N - x : x \in T}
<1>1. D \subseteq Nat /\ D # {}
  <2>1. \A x \in T : x \in 1 .. N /\ N - x \in Nat
    OBVIOUS
  <2> QED BY <2>1
<1>2. \E d \in D : \A e \in D : ~(e < d)
  <2> DEFINE R == OpToRel(<, Nat)
  <2>1. IsWellFoundedOn(R, Nat)
    BY NatLessThanWellFounded
  <2>2. \A e, d \in Nat : <<e, d>> \in R <=> e < d
    BY DEF OpToRel
  <2> HIDE DEF D, R
  <2>3. PICK d \in D : \A e \in D : ~(<<e, d>> \in R)
    BY <2>1, <1>1, WFMin
  <2> QED BY <1>1, <2>2, <2>3
<1>3. PICK d \in D : \A e \in D : ~(e < d)
  BY <1>2
<1>4. PICK x \in T : d = N - x
  OBVIOUS
<1>5. ASSUME NEW y \in T PROVE y <= x
  <2>1. N - y \in D
    OBVIOUS
  <2>2. x \in 1 .. N /\ y \in 1 .. N
    OBVIOUS
  <2> QED BY <1>3, <1>4, <2>1, <2>2
<1> QED BY <1>5

\* What the parameters hold of an instrument is an instrument, and what they
\* hold of that is the same.
LEMMA AsParametersType ==
  ASSUME NEW i \in Instruments
  PROVE  /\ AsParameters(i) \in Instruments
         /\ AsParameters(i).sound = Held[AsParameters(i).sound]
         /\ AsParameters(i).blank = i.blank
         /\ AsParameters(AsParameters(i)) = AsParameters(i)
  BY PartsAssumption DEF AsParameters, Instruments

\* Parameters that hold a sound hold it as it is.
LEMMA HeldIsItself ==
  ASSUME NEW i \in Instruments, i.sound = Held[i.sound]
  PROVE  AsParameters(i) = i
  BY DEF AsParameters, Instruments

\* A blank program is an instrument.
LEMMA BlankType == Blank \in Instruments /\ AllBlank \in [Programs -> Instruments]
  BY PartsAssumption DEF Blank, AllBlank, Instruments

\* What a new instance starts with is of its types.
LEMMA DefaultType ==
  /\ DefaultSelection \in [Parts -> Places] /\ DefaultBank \in [Parts -> Banks]
  /\ DefaultParams \in [Parts -> Instruments]
  /\ \A p \in Parts : DefaultParams[p].sound = Held[DefaultParams[p].sound]
<1>1. DefaultSelection \in [Parts -> Places] /\ DefaultBank \in [Parts -> Banks]
  BY PartsAssumption DEF DefaultBank, Places
<1>2. ASSUME NEW p \in Parts
      PROVE  DefaultIns[DefaultSelection[p].bank][DefaultSelection[p].program] \in Instruments
  BY <1>1, PartsAssumption DEF Places
<1>3. ASSUME NEW p \in Parts
      PROVE  /\ DefaultParams[p] \in Instruments
             /\ DefaultParams[p].sound = Held[DefaultParams[p].sound]
  BY <1>2, AsParametersType DEF DefaultParams
<1> QED BY <1>1, <1>3 DEF DefaultParams

\* What a part shows is an instrument as parameters hold it, if it is there.
LEMMA ShownType ==
  ASSUME SelectionsTypeOK, NEW p \in Parts, Shown(p) # NoProgram
  PROVE  Shown(p) \in Instruments /\ Shown(p).sound = Held[Shown(p).sound]
<1>1. ins[selection[p].bank][selection[p].program] \in Instruments
  BY DEF SelectionsTypeOK, Places
<1> QED BY <1>1, AsParametersType DEF Shown

\* The same of the next state.
LEMMA ShownTypeNext ==
  ASSUME NEW p \in Parts, Shown(p)' # NoProgram,
         ins' \in [Banks -> [Programs -> Instruments]], selection' \in [Parts -> Places]
  PROVE  Shown(p)' \in Instruments /\ Shown(p)'.sound = Held[Shown(p)'.sound]
<1>1. ins'[selection'[p].bank][selection'[p].program] \in Instruments
  BY DEF Places
<1> QED BY <1>1, AsParametersType DEF Shown

\* Parameters that follow what is shown stay parameters.
LEMMA RefreshType ==
  ASSUME SelectionsTypeOK, NEW P, Refresh(P),
         ins' \in [Banks -> [Programs -> Instruments]], selection' \in [Parts -> Places]
  PROVE  /\ params' \in [Parts -> Instruments]
         /\ \A p \in Parts : params'[p].sound = Held[params'[p].sound]
         /\ changed' \subseteq Parts
<1>1. ASSUME NEW p \in Parts
      PROVE  params'[p] \in Instruments /\ params'[p].sound = Held[params'[p].sound]
  <2>1. CASE p \in P /\ Shown(p)' # NoProgram
    BY <2>1, ShownTypeNext DEF Refresh
  <2>2. CASE ~(p \in P /\ Shown(p)' # NoProgram)
    BY <2>2 DEF Refresh, SelectionsTypeOK
  <2> QED BY <2>1, <2>2
<1>2. params' = [p \in Parts |-> params'[p]]
  BY DEF Refresh
<1>3. changed' \subseteq Parts
  BY DEF Refresh, SelectionsTypeOK
<1> QED BY <1>1, <1>2, <1>3

\* A program that is loaded is in its bank.
LEMMA LoadedType ==
  ASSUME SelectionsTypeOK, NEW b \in Banks, NEW n \in Programs, NEW i \in Instruments,
         Loaded(b, n, i)
  PROVE  /\ banks' \subseteq Banks /\ b \in banks'
         /\ ins' \in [Banks -> [Programs -> Instruments]] /\ ins'[b][n] = i
<1>1. banks' \subseteq Banks /\ b \in banks'
  BY DEF Loaded, SelectionsTypeOK
<1>2. [ins[b] EXCEPT ![n] = i] \in [Programs -> Instruments]
  BY DEF SelectionsTypeOK
<1>3. ins' \in [Banks -> [Programs -> Instruments]] /\ ins'[b] = [ins[b] EXCEPT ![n] = i]
  BY <1>2, BlankType DEF Loaded, SelectionsTypeOK
<1> QED BY <1>1, <1>2, <1>3 DEF SelectionsTypeOK

\* A project read is what the player holds, and what was written of one can be.
LEMMA ReadType ==
  ASSUME NEW s, DOMAIN s.ins \subseteq Banks,
         s.ins \in [DOMAIN s.ins -> [Programs -> Instruments]],
         s.selection \in [Parts -> Places], ReadState(s)
  PROVE  /\ banks' \subseteq Banks /\ ins' \in [Banks -> [Programs -> Instruments]]
         /\ selection' \in [Parts -> Places]
  BY BlankType DEF ReadState

\* A state that is written has the banks in use, and their programs.
LEMMA WrittenType ==
  ASSUME SelectionsTypeOK
  PROVE  /\ Used \subseteq banks /\ DOMAIN Written.ins = Used
         /\ Written.ins \in [Used -> [Programs -> Instruments]]
         /\ Written.selection = selection
         /\ \A b \in Used, n \in Programs :
               Written.ins[b][n] = IF ins[b][n].blank THEN Blank ELSE ins[b][n]
<1>1. Used \subseteq banks /\ Used \subseteq Banks
  BY DEF Used, SelectionsTypeOK
<1>2. \A b \in Used, n \in Programs :
         (IF ins[b][n].blank THEN Blank ELSE ins[b][n]) \in Instruments
  BY <1>1, BlankType DEF SelectionsTypeOK
<1> QED BY <1>1, <1>2 DEF Written

\* The instruments of a new player: the part that gave one last is among those
\* that gave one.
LEMMA GivenIsParams ==
  ASSUME NEW P \in SUBSET Parts, NEW b \in Banks, NEW n \in Programs
  PROVE  \/ /\ \A p \in P \cap changed : DefaultSelection[p] # [bank |-> b, program |-> n]
            /\ Given(P)[b][n] = DefaultIns[b][n]
         \/ \E p \in P \cap changed :
               /\ DefaultSelection[p] = [bank |-> b, program |-> n]
               /\ \A q \in P \cap changed :
                     DefaultSelection[q] = [bank |-> b, program |-> n] => q <= p
               /\ Given(P)[b][n] = params[p]
<1> DEFINE givers == {p \in P \cap changed : DefaultSelection[p] = [bank |-> b, program |-> n]}
<1>1. Given(P)[b][n] = IF givers = {} THEN DefaultIns[b][n]
                       ELSE params[CHOOSE p \in givers : \A q \in givers : q <= p]
  BY DEF Given
<1>2. ASSUME givers # {} PROVE \E p \in givers : \A q \in givers : q <= p
  <2>1. givers \subseteq 1 .. NumParts /\ NumParts \in Nat
    BY PartsAssumption DEF Parts
  <2> HIDE DEF givers
  <2> QED BY <1>2, <2>1, HasGreatest
<1> HIDE DEF givers
<1>3. ASSUME givers # {}
      PROVE  \E p \in givers : (\A q \in givers : q <= p) /\ Given(P)[b][n] = params[p]
  <2> DEFINE last == CHOOSE p \in givers : \A q \in givers : q <= p
  <2>1. last \in givers /\ \A q \in givers : q <= last
    BY <1>2, <1>3
  <2>2. Given(P)[b][n] = params[last]
    BY <1>1, <1>3
  <2> HIDE DEF last
  <2> QED BY <2>1, <2>2
<1> QED BY <1>1, <1>3 DEF givers

\* Banks that are given the parameters still hold instruments.
LEMMA GivenType ==
  ASSUME SelectionsTypeOK, NEW P \in SUBSET Parts
  PROVE  Given(P) \in [Banks -> [Programs -> Instruments]]
<1>1. ASSUME NEW b \in Banks, NEW n \in Programs PROVE Given(P)[b][n] \in Instruments
  <2>1. DefaultIns[b][n] \in Instruments /\ \A p \in Parts : params[p] \in Instruments
    BY PartsAssumption DEF SelectionsTypeOK
  <2>2. CASE Given(P)[b][n] = DefaultIns[b][n]
    BY <2>1, <2>2
  <2>3. CASE \E p \in P \cap changed : Given(P)[b][n] = params[p]
    BY <2>1, <2>3
  <2>4. \/ Given(P)[b][n] = DefaultIns[b][n]
        \/ \E p \in P \cap changed : Given(P)[b][n] = params[p]
    BY GivenIsParams
  <2> QED BY <2>2, <2>3, <2>4
<1>2. Given(P) = [b \in Banks |-> [n \in Programs |-> Given(P)[b][n]]]
  BY DEF Given
<1> QED BY <1>1, <1>2

(***************************************************************************)
(* The type invariant.                                                     *)
(***************************************************************************)

\* In the first state everything is of its type.
LEMMA TypeInit == SelectionsInit => SelectionsTypeOK
<1> SUFFICES ASSUME SelectionsInit PROVE SelectionsTypeOK
  OBVIOUS
<1>1. ins \in [Banks -> [Programs -> Instruments]]
  BY BlankType DEF SelectionsInit
<1>2. at \in [step : Steps, part : 0 .. NumParts + 1, by : Askers]
  BY PartsAssumption DEF SelectionsInit, Free, NoPart, Steps, Askers
<1>3. DOMAIN saved.ins = {} /\ saved.selection = DefaultSelection
      /\ saved.ins = [b \in {} |-> AllBlank]
  BY DEF SelectionsInit, EmptyProject
<1>4. /\ DOMAIN saved.ins \subseteq Banks
      /\ saved.ins \in [DOMAIN saved.ins -> [Programs -> Instruments]]
      /\ saved.selection \in [Parts -> Places]
  <2>1. [b \in {} |-> AllBlank] \in [{} -> [Programs -> Instruments]]
    OBVIOUS
  <2> QED BY <1>3, <2>1, DefaultType
<1>5. /\ params \in [Parts -> Instruments]
      /\ \A p \in Parts : params[p].sound = Held[params[p].sound]
      /\ selection \in [Parts -> Places] /\ patch \in [Parts -> Places]
      /\ midi_bank \in [Parts -> Banks] /\ lib_bank \in [Parts -> Banks]
  BY DefaultType DEF SelectionsInit
<1>6. inputs \in 0 .. MaxInputs
  BY PartsAssumption DEF SelectionsInit
<1> QED BY <1>1, <1>2, <1>4, <1>5, <1>6 DEF SelectionsInit, SelectionsTypeOK, NoPart

\* What the host or a message does is one more thing done.
LEMMA InputType ==
  ASSUME SelectionsTypeOK, Input
  PROVE  inputs' \in 0 .. MaxInputs
  BY PartsAssumption DEF SelectionsTypeOK, Input

\* The channels play programs there can be.
LEMMA PlaySelectedType ==
  ASSUME SelectionsTypeOK, NEW P, PlaySelected(P), selection' \in [Parts -> Places]
  PROVE  lib_bank' \in [Parts -> Banks] /\ patch' \in [Parts -> Places]
<1>1. \A p \in Parts : selection'[p].bank \in Banks /\ selection'[p] \in Places
  BY DEF Places
<1> QED BY <1>1 DEF PlaySelected, SelectionsTypeOK

\* A message of the editor, a program for a part among them.
LEMMA MessageType ==
  ASSUME SelectionsTypeOK, NEW b \in Banks, NEW n \in Programs,
         \/ \E s \in LoadSounds, p \in Parts :
               HandleLoadInstrument(b, n, [sound |-> s, blank |-> FALSE], p)
         \/ HandleCreateInstrument(b, n)
         \/ HandleDeleteInstrument(b, n)
  PROVE  SelectionsTypeOK'
<1>1. Message /\ inputs' \in 0 .. MaxInputs
  BY InputType DEF HandleLoadInstrument, HandleCreateInstrument, HandleDeleteInstrument, Message
<1>2. stale' \subseteq Parts
  BY DEF HandleLoadInstrument, HandleCreateInstrument, HandleDeleteInstrument, StaleBut,
         SelectionsTypeOK
<1>3. CASE \E s \in LoadSounds, p \in Parts :
              HandleLoadInstrument(b, n, [sound |-> s, blank |-> FALSE], p)
  <2> PICK s \in LoadSounds, p \in Parts :
              HandleLoadInstrument(b, n, [sound |-> s, blank |-> FALSE], p)
    BY <1>3
  <2>1. [sound |-> s, blank |-> FALSE] \in Instruments
    BY PartsAssumption DEF Instruments
  <2> DEFINE shown == {p} \cap {q \in Parts : selection[q] = [bank |-> b, program |-> n]}
  <2>2. CASE Loaded(b, n, [sound |-> s,
        blank |-> FALSE]) /\ UNCHANGED selection /\ Refresh(shown)
    <3>1. banks' \subseteq Banks /\ ins' \in [Banks -> [Programs -> Instruments]]
          /\ selection' \in [Parts -> Places]
      BY <2>1, <2>2, LoadedType DEF SelectionsTypeOK
    <3> HIDE DEF shown
    <3>2. /\ params' \in [Parts -> Instruments] /\ changed' \subseteq Parts
          /\ \A q \in Parts : params'[q].sound = Held[params'[q].sound]
      BY <2>2, <3>1, RefreshType
    <3> QED BY <1>1, <1>2, <3>1, <3>2
            DEF HandleLoadInstrument, Message, project, SelectionsTypeOK
  <2>3. CASE NotLoaded(b) /\ UNCHANGED <<selection, params, changed, stale>>
    BY <1>1, <1>2, <2>3 DEF HandleLoadInstrument, Message, NotLoaded, bankState, project,
                            SelectionsTypeOK
  <2> QED BY <2>2, <2>3 DEF HandleLoadInstrument
<1>4. CASE HandleCreateInstrument(b, n)
  <2>1. [sound |-> NewSound, blank |-> FALSE] \in Instruments
    BY PartsAssumption DEF Instruments
  <2>2. banks' \subseteq Banks /\ ins' \in [Banks -> [Programs -> Instruments]]
    BY <1>4, <2>1, LoadedType DEF HandleCreateInstrument
  <2> QED BY <1>1, <1>2, <1>4, <2>2
          DEF HandleCreateInstrument, Message, project, SelectionsTypeOK
<1>5. CASE HandleDeleteInstrument(b, n)
  <2>1. [ins[b][n] EXCEPT !.blank = TRUE] \in Instruments
    <3>1. ins[b][n] \in Instruments
      BY DEF SelectionsTypeOK
    <3> QED BY <3>1 DEF Instruments
  <2>2. ins' \in [Banks -> [Programs -> Instruments]]
    BY <1>5, <2>1 DEF HandleDeleteInstrument, SelectionsTypeOK
  <2> QED BY <1>1, <1>2, <1>5, <2>2
          DEF HandleDeleteInstrument, Message, project, SelectionsTypeOK
<1> QED BY <1>3, <1>4, <1>5

\* Banks are removed.
LEMMA RemoveType ==
  ASSUME SelectionsTypeOK, NEW B, HandleRemoveBanks(B)
  PROVE  SelectionsTypeOK'
<1>1. inputs' \in 0 .. MaxInputs
  BY InputType DEF HandleRemoveBanks, Message
<1>2. stale' \subseteq Parts
  BY DEF HandleRemoveBanks, StaleBut
<1>3. banks' \subseteq Banks /\ ins' \in [Banks -> [Programs -> Instruments]]
  BY BlankType DEF HandleRemoveBanks, SelectionsTypeOK
<1> QED BY <1>1, <1>2, <1>3 DEF HandleRemoveBanks, Message, project, SelectionsTypeOK

\* A program is selected.
LEMMA SelectType ==
  ASSUME SelectionsTypeOK, NEW p \in Parts, NEW l \in Places, HandleSelectProgram(p, l)
  PROVE  SelectionsTypeOK'
<1>1. inputs' \in 0 .. MaxInputs
  BY InputType DEF HandleSelectProgram, Message
<1>2. selection' \in [Parts -> Places] /\ ins' \in [Banks -> [Programs -> Instruments]]
  BY DEF HandleSelectProgram, bankState, SelectionsTypeOK
<1>3. lib_bank' \in [Parts -> Banks] /\ patch' \in [Parts -> Places]
  BY <1>2, PlaySelectedType DEF HandleSelectProgram
<1>4. /\ params' \in [Parts -> Instruments] /\ changed' \subseteq Parts
      /\ \A q \in Parts : params'[q].sound = Held[params'[q].sound]
  BY <1>2, RefreshType DEF HandleSelectProgram
<1> QED BY <1>1, <1>2, <1>3, <1>4
        DEF HandleSelectProgram, Message, bankState, project, SelectionsTypeOK

\* MIDI messages choose banks and programs.
LEMMA MidiType ==
  ASSUME SelectionsTypeOK,
         \/ \E p \in Parts, b \in MelodicBanks : HandleBankSelect(p, b)
         \/ \E p \in Parts, n \in Programs : HandleProgramChange(p, n)
         \/ \E b \in PercussiveBanks : HandleKitChange(b)
  PROVE  SelectionsTypeOK'
<1>1. inputs' \in 0 .. MaxInputs
  BY InputType DEF HandleBankSelect, HandleProgramChange, HandleKitChange, PlayMidi
<1>2. CASE \E p \in Parts, b \in MelodicBanks : HandleBankSelect(p, b)
  <2> PICK p \in Parts, b \in MelodicBanks : HandleBankSelect(p, b)
    BY <1>2
  <2>1. b \in Banks
    BY DEF Banks
  <2> QED BY <1>1, <2>1 DEF HandleBankSelect, PlayMidi, bankState, project, SelectionsTypeOK
<1>3. CASE \E p \in Parts, n \in Programs : HandleProgramChange(p, n)
  <2> PICK p \in Parts, n \in Programs : HandleProgramChange(p, n)
    BY <1>3
  <2>1. /\ [bank |-> lib_bank[p], program |-> n] \in Places
        /\ [bank |-> midi_bank[p], program |-> n] \in Places
    BY DEF SelectionsTypeOK, Places
  <2>2. /\ selection' \in [Parts -> Places] /\ patch' \in [Parts -> Places]
        /\ ins' \in [Banks -> [Programs -> Instruments]]
    BY <2>1 DEF HandleProgramChange, PlayMidi, bankState, SelectionsTypeOK
  <2>3. /\ params' \in [Parts -> Instruments] /\ changed' \subseteq Parts
        /\ \A q \in Parts : params'[q].sound = Held[params'[q].sound]
    BY <2>2, RefreshType DEF HandleProgramChange
  <2> QED BY <1>1, <2>2, <2>3
          DEF HandleProgramChange, PlayMidi, bankState, project, SelectionsTypeOK
<1>4. CASE \E b \in PercussiveBanks : HandleKitChange(b)
  <2> PICK b \in PercussiveBanks : HandleKitChange(b)
    BY <1>4
  <2>1. /\ [patch[DrumPart] EXCEPT !.bank = b] \in Places /\ KitSelects(b) \in Places
        /\ DrumPart \in Parts
    <3>1. DrumPart \in Parts /\ b \in Banks
      BY PartsAssumption DEF Banks
    <3>2. patch[DrumPart] \in Places /\ selection[DrumPart] \in Places
      BY <3>1 DEF SelectionsTypeOK
    <3> QED BY <3>1, <3>2 DEF Places, KitSelects
  <2>2. /\ selection' \in [Parts -> Places] /\ patch' \in [Parts -> Places]
        /\ ins' \in [Banks -> [Programs -> Instruments]]
    BY <2>1 DEF HandleKitChange, PlayMidi, bankState, SelectionsTypeOK
  <2>3. /\ params' \in [Parts -> Instruments] /\ changed' \subseteq Parts
        /\ \A q \in Parts : params'[q].sound = Held[params'[q].sound]
    BY <2>2, RefreshType DEF HandleKitChange
  <2> QED BY <1>1, <2>2, <2>3
          DEF HandleKitChange, PlayMidi, bankState, project, SelectionsTypeOK
<1> QED BY <1>2, <1>3, <1>4

\* A block, or who has the changes passed on, from one part to the next.
LEMMA BlockType ==
  ASSUME SelectionsTypeOK, AtOK,
         \/ BeginBlock \/ EndMessages \/ SkipPart \/ UnmarkPart \/ LoadPart
         \/ EndApply \/ EndBlock \/ BeginSave \/ BeginRemake
  PROVE  SelectionsTypeOK'
<1>1. NumParts \in Nat /\ Parts = 1 .. NumParts
  BY PartsAssumption DEF Parts
<1>2. at' \in [step : Steps, part : 0 .. NumParts + 1, by : Askers]
  <2>1. CASE BeginBlock \/ BeginSave \/ BeginRemake
    BY <1>1, <2>1, PartsAssumption DEF BeginBlock, BeginSave, BeginRemake, Begin, Steps, Askers
  <2>2. CASE EndMessages \/ UnmarkPart \/ EndApply
    BY <2>2 DEF EndMessages, UnmarkPart, EndApply, SelectionsTypeOK, Steps
  <2>3. CASE SkipPart \/ LoadPart
    <3>1. at.part \in Parts
      BY <2>3 DEF SkipPart, LoadPart, AtOK
    <3>2. at.part + 1 \in 0 .. NumParts + 1
      BY <1>1, <3>1
    <3> QED BY <2>3, <3>2 DEF SkipPart, LoadPart, SelectionsTypeOK, Steps
  <2>4. CASE EndBlock
    BY <1>1, <2>4 DEF EndBlock, Free, NoPart, Steps, Askers
  <2> QED BY <2>1, <2>2, <2>3, <2>4
          DEF BeginBlock, EndMessages, SkipPart, UnmarkPart, LoadPart, EndApply, EndBlock,
              BeginSave, BeginRemake
<1>3. CASE \/ BeginBlock \/ EndMessages \/ SkipPart \/ UnmarkPart
           \/ EndApply \/ EndBlock \/ BeginSave \/ BeginRemake
  <2>1. Unmoved /\ changed' \subseteq changed /\ UNCHANGED <<writing, clean, inputs>>
    BY <1>3 DEF BeginBlock, EndMessages, SkipPart, UnmarkPart, EndApply, EndBlock,
                BeginSave, BeginRemake
  <2> QED BY <1>2, <2>1 DEF Unmoved, bankState, channels, project, SelectionsTypeOK
<1>4. CASE LoadPart
  <2>1. at.part \in Parts /\ PassOn(at.part)
    BY <1>4 DEF LoadPart, AtOK
  <2>2. /\ selection[at.part].bank \in Banks /\ selection[at.part].program \in Programs
        /\ params[at.part] \in Instruments
    BY <2>1 DEF SelectionsTypeOK, Places
  <2>3. banks' \subseteq Banks /\ ins' \in [Banks -> [Programs -> Instruments]]
    <3>1. CASE Loaded(selection[at.part].bank, selection[at.part].program, params[at.part])
      BY <2>2, <3>1, LoadedType
    <3>2. CASE NotLoaded(selection[at.part].bank)
      BY <3>2 DEF NotLoaded, bankState, SelectionsTypeOK
    <3> QED BY <2>1, <3>1, <3>2 DEF PassOn
  <2>4. stale' \subseteq Parts /\ UNCHANGED <<selection, params>>
    BY <2>1 DEF PassOn, StaleBut
  <2> QED BY <1>2, <1>4, <2>3, <2>4 DEF LoadPart, channels, project, SelectionsTypeOK
<1> QED BY <1>3, <1>4

\* The host sets and marks parameters.
LEMMA ParameterType ==
  ASSUME SelectionsTypeOK,
         \/ \E p \in Parts, v \in {AsParameters(i) : i \in Instruments} : StoreParameter(p, v)
         \/ MarkParameter
  PROVE  SelectionsTypeOK'
<1>1. CASE \E p \in Parts, v \in {AsParameters(i) : i \in Instruments} : StoreParameter(p, v)
  <2> PICK p \in Parts, i \in Instruments : StoreParameter(p, AsParameters(i))
    BY <1>1
  <2>1. inputs' \in 0 .. MaxInputs
    BY InputType DEF StoreParameter
  <2>2. /\ params' \in [Parts -> Instruments]
        /\ \A q \in Parts : params'[q].sound = Held[params'[q].sound]
    BY AsParametersType DEF StoreParameter, SelectionsTypeOK
  <2> QED BY <2>1, <2>2 DEF StoreParameter, bankState, channels, SelectionsTypeOK
<1>2. CASE MarkParameter
  BY <1>2 DEF MarkParameter, Unmoved, bankState, channels, project, SelectionsTypeOK
<1> QED BY <1>1, <1>2

\* A player is made.
LEMMA CreateType ==
  ASSUME SelectionsTypeOK, CreateFirstPlayer
  PROVE  SelectionsTypeOK'
<1>1. banks' \subseteq Banks /\ ins' \in [Banks -> [Programs -> Instruments]]
  BY GivenType, PartsAssumption DEF CreateFirstPlayer
<1>2. ASSUME NEW p \in Parts
      PROVE  FirstParams[p] \in Instruments /\ FirstParams[p].sound = Held[FirstParams[p].sound]
  <2>1. CASE p \in changed
    BY <2>1 DEF FirstParams, SelectionsTypeOK
  <2>2. CASE p \notin changed
    <3>1. 1 .. p \in SUBSET Parts
      BY PartsAssumption DEF Parts
    <3>2. Given(1 .. p)[DefaultSelection[p].bank][DefaultSelection[p].program] \in Instruments
      <4>1. Given(1 .. p) \in [Banks -> [Programs -> Instruments]]
        BY <3>1, GivenType
      <4>2. DefaultSelection[p].bank \in Banks /\ DefaultSelection[p].program \in Programs
        BY PartsAssumption DEF Places
      <4> QED BY <4>1, <4>2
    <3> QED BY <2>2, <3>2, AsParametersType DEF FirstParams
  <2> QED BY <2>1, <2>2
<1>3. /\ params' \in [Parts -> Instruments] /\ changed' \subseteq Parts /\ stale' \subseteq Parts
      /\ \A p \in Parts : params'[p].sound = Held[params'[p].sound]
  <2>1. params' = FirstParams /\ FirstParams = [p \in Parts |-> FirstParams[p]]
    BY DEF CreateFirstPlayer, FirstParams
  <2>2. changed' \subseteq Parts /\ stale' \subseteq Parts
    BY DEF CreateFirstPlayer
  <2> QED BY <1>2, <2>1, <2>2
<1> QED BY <1>1, <1>3 DEF CreateFirstPlayer, channels, SelectionsTypeOK

\* A player is made again.
LEMMA RemakeType ==
  ASSUME SelectionsTypeOK, Remake
  PROVE  SelectionsTypeOK'
<1>1. /\ banks' \subseteq Banks /\ ins' \in [Banks -> [Programs -> Instruments]]
      /\ selection' \in [Parts -> Places]
  <2>1. /\ DOMAIN Written.ins \subseteq Banks /\ Written.selection \in [Parts -> Places]
        /\ Written.ins \in [DOMAIN Written.ins -> [Programs -> Instruments]]
    BY WrittenType DEF SelectionsTypeOK
  <2> QED BY <2>1, ReadType DEF Remake
<1>2. lib_bank' \in [Parts -> Banks] /\ patch' \in [Parts -> Places]
  <2>1. \A p \in Parts : /\ selection[p] \in Places /\ selection[p].bank \in Banks
                         /\ DefaultSelection[p] \in Places /\ DefaultSelection[p].bank \in Banks
    BY PartsAssumption DEF SelectionsTypeOK, Places
  <2> QED BY <2>1 DEF Remake
<1>3. at' \in [step : Steps, part : 0 .. NumParts + 1, by : Askers]
  <2>1. Free \in [step : Steps, part : 0 .. NumParts + 1, by : Askers]
    BY PartsAssumption DEF Free, NoPart, Steps, Askers
  <2>2. [at EXCEPT !.step = "refresh"] \in [step : Steps, part : 0 .. NumParts + 1, by : Askers]
    BY DEF SelectionsTypeOK, Steps
  <2> QED BY <2>1, <2>2 DEF Remake
<1>4. stale' \subseteq Parts
  BY DEF Remake, StaleBut
<1> QED BY <1>1, <1>2, <1>3, <1>4 DEF Remake, SelectionsTypeOK

\* A project is opened.
LEMMA ProjectType ==
  ASSUME SelectionsTypeOK, WriteState \/ OpenProject \/ NewInstance \/ TellHost
  PROVE  SelectionsTypeOK'
<1>1. Free \in [step : Steps, part : 0 .. NumParts + 1, by : Askers]
  BY PartsAssumption DEF Free, NoPart, Steps, Askers
<1>2. CASE WriteState
  <2>1. /\ DOMAIN saved'.ins \subseteq Banks /\ saved'.selection \in [Parts -> Places]
        /\ saved'.ins \in [DOMAIN saved'.ins -> [Programs -> Instruments]]
    BY <1>2, WrittenType DEF WriteState, SelectionsTypeOK
  <2> QED BY <1>1, <1>2, <2>1 DEF WriteState, bankState, channels, SelectionsTypeOK
<1>3. CASE OpenProject
  <2>1. /\ banks' \subseteq Banks /\ ins' \in [Banks -> [Programs -> Instruments]]
        /\ selection' \in [Parts -> Places]
    BY <1>3, ReadType DEF OpenProject, SelectionsTypeOK
  <2>2. lib_bank' \in [Parts -> Banks] /\ patch' \in [Parts -> Places]
    BY <1>3, <2>1, PlaySelectedType DEF OpenProject
  <2>3. /\ params' \in [Parts -> Instruments] /\ changed' \subseteq Parts
        /\ \A p \in Parts : params'[p].sound = Held[params'[p].sound]
    BY <1>3, DefaultType DEF OpenProject, SelectionsTypeOK
  <2>4. at' \in [step : Steps, part : 0 .. NumParts + 1, by : Askers]
    BY <1>3, PartsAssumption DEF OpenProject, Steps, Askers
  <2>5. clean' \in BOOLEAN /\ stale' = {} /\ player' = TRUE
    BY <1>3 DEF OpenProject
  <2> QED BY <1>3, <2>1, <2>2, <2>3, <2>4, <2>5 DEF OpenProject, SelectionsTypeOK
<1>4. CASE NewInstance
  BY <1>4, DefaultType, BlankType DEF NewInstance, SelectionsTypeOK
<1>5. CASE TellHost
  <2>1. selection' \in [Parts -> Places] /\ ins' \in [Banks -> [Programs -> Instruments]]
    BY <1>5 DEF TellHost, bankState, SelectionsTypeOK
  <2>2. /\ params' \in [Parts -> Instruments] /\ changed' \subseteq Parts
        /\ \A p \in Parts : params'[p].sound = Held[params'[p].sound]
    BY <1>5, <2>1, RefreshType DEF TellHost
  <2> QED BY <1>1, <1>5, <2>1, <2>2 DEF TellHost, bankState, channels, SelectionsTypeOK
<1> QED BY <1>2, <1>3, <1>4, <1>5

\* The disjuncts of the next-state relation, for the lemmas that follow.
LEMMA TypeNext ==
  ASSUME SelectionsTypeOK, AtOK, SelectionsNext
  PROVE  SelectionsTypeOK'
<1>1. CASE \/ BeginBlock \/ EndMessages \/ SkipPart \/ UnmarkPart \/ LoadPart
           \/ EndApply \/ EndBlock \/ BeginSave \/ BeginRemake
  BY <1>1, BlockType
<1>2. CASE \E b \in Banks, n \in Programs :
              \/ \E s \in LoadSounds, p \in Parts :
                    HandleLoadInstrument(b, n, [sound |-> s, blank |-> FALSE], p)
              \/ HandleCreateInstrument(b, n)
              \/ HandleDeleteInstrument(b, n)
  BY <1>2, MessageType
<1>3. CASE \E B \in {{b} : b \in banks} \cup {banks} : HandleRemoveBanks(B)
  BY <1>3, RemoveType
<1>4. CASE \E p \in Parts, l \in Places : HandleSelectProgram(p, l)
  BY <1>4, SelectType
<1>5. CASE \/ \E p \in Parts, b \in MelodicBanks : HandleBankSelect(p, b)
           \/ \E p \in Parts, n \in Programs : HandleProgramChange(p, n)
           \/ \E b \in PercussiveBanks : HandleKitChange(b)
  BY <1>5, MidiType
<1>6. CASE \/ \E p \in Parts, v \in {AsParameters(i) : i \in Instruments} : StoreParameter(p, v)
           \/ MarkParameter
  BY <1>6, ParameterType
<1>7. CASE CreateFirstPlayer
  BY <1>7, CreateType
<1>8. CASE Remake
  BY <1>8, RemakeType
<1>9. CASE WriteState \/ OpenProject \/ NewInstance \/ TellHost
  BY <1>9, ProjectType
<1> QED BY <1>1, <1>2, <1>3, <1>4, <1>5, <1>6, <1>7, <1>8, <1>9 DEF SelectionsNext

\* A message, or the host's MIDI, leaves the thread where it is, in a block.
LEMMA MessageStays ==
  ASSUME \/ \E b \in Banks, n \in Programs :
               \/ \E s \in LoadSounds, p \in Parts :
                     HandleLoadInstrument(b, n, [sound |-> s, blank |-> FALSE], p)
               \/ HandleCreateInstrument(b, n)
               \/ HandleDeleteInstrument(b, n)
         \/ \E B \in {{b} : b \in banks} \cup {banks} : HandleRemoveBanks(B)
         \/ \E p \in Parts, l \in Places : HandleSelectProgram(p, l)
         \/ \E p \in Parts, b \in MelodicBanks : HandleBankSelect(p, b)
         \/ \E p \in Parts, n \in Programs : HandleProgramChange(p, n)
         \/ \E b \in PercussiveBanks : HandleKitChange(b)
  PROVE  /\ at.step \in {"messages", "midi"} /\ Input /\ clean' = FALSE
         /\ UNCHANGED <<at, writing, player, saved>>
<1>1. Message \/ PlayMidi
  BY DEF HandleLoadInstrument, HandleCreateInstrument, HandleDeleteInstrument,
         HandleRemoveBanks, HandleSelectProgram, HandleBankSelect, HandleProgramChange,
         HandleKitChange
<1> QED BY <1>1 DEF Message, PlayMidi, project

\* Every step keeps to what there is where the processor is in its work.
LEMMA AtNext ==
  ASSUME SelectionsTypeOK, AtOK, SelectionsNext
  PROVE  AtOK'
<1>1. CASE \/ BeginBlock \/ EndMessages \/ SkipPart \/ UnmarkPart \/ LoadPart
           \/ EndApply \/ EndBlock \/ BeginSave \/ BeginRemake
  <2>1. player /\ player' = player
    BY <1>1 DEF BeginBlock, EndMessages, SkipPart, UnmarkPart, LoadPart, EndApply, EndBlock,
                BeginSave, BeginRemake, Begin, AllPassedOn, Unmoved, project, AtOK, Free
  <2>2. CASE BeginBlock \/ BeginSave \/ BeginRemake
    BY <2>1, <2>2 DEF BeginBlock, BeginSave, BeginRemake, Begin, AtOK
  <2>3. CASE EndMessages \/ SkipPart \/ UnmarkPart \/ LoadPart \/ EndApply
    BY <2>1, <2>3 DEF EndMessages, SkipPart, UnmarkPart, LoadPart, EndApply, AllPassedOn,
                      SelectionsTypeOK, AtOK
  <2>4. CASE EndBlock
    BY <2>1, <2>4 DEF EndBlock, AtOK, Free
  <2> QED BY <1>1, <2>2, <2>3, <2>4
<1>2. CASE \/ \E b \in Banks, n \in Programs :
                 \/ \E s \in LoadSounds, p \in Parts :
                       HandleLoadInstrument(b, n, [sound |-> s, blank |-> FALSE], p)
                 \/ HandleCreateInstrument(b, n)
                 \/ HandleDeleteInstrument(b, n)
           \/ \E B \in {{b} : b \in banks} \cup {banks} : HandleRemoveBanks(B)
           \/ \E p \in Parts, l \in Places : HandleSelectProgram(p, l)
           \/ \E p \in Parts, b \in MelodicBanks : HandleBankSelect(p, b)
           \/ \E p \in Parts, n \in Programs : HandleProgramChange(p, n)
           \/ \E b \in PercussiveBanks : HandleKitChange(b)
  <2>1. at.step \in {"messages", "midi"} /\ at' = at /\ player' = player
    BY <1>2, MessageStays
  <2> QED BY <2>1 DEF AtOK, Free
<1>3. CASE \/ \E p \in Parts, v \in {AsParameters(i) : i \in Instruments} : StoreParameter(p, v)
           \/ MarkParameter
  BY <1>3 DEF StoreParameter, MarkParameter, Unmoved, project, AtOK
<1>4. CASE CreateFirstPlayer \/ OpenProject \/ NewInstance
  BY <1>4 DEF CreateFirstPlayer, OpenProject, NewInstance, AtOK, Free
<1>5. CASE WriteState \/ Remake \/ TellHost
  <2>1. player /\ player' = player
    BY <1>5 DEF WriteState, Remake, TellHost, AllPassedOn, AtOK, Free
  <2> QED BY <1>5, <2>1 DEF WriteState, Remake, TellHost, AtOK, Free, SelectionsTypeOK
<1> QED BY <1>1, <1>2, <1>3, <1>4, <1>5 DEF SelectionsNext

(***************************************************************************)
(* The channels.                                                           *)
(***************************************************************************)

\* Every step leaves the channels the programs selected for them.
LEMMA ChannelNext ==
  ASSUME SelectionsTypeOK, AtOK, ChannelPlaysTheProgram, SelectionsNext
  PROVE  ChannelPlaysTheProgram'
<1> DEFINE Plays(p) == IF p = DrumPart THEN patch[p].bank = selection[p].bank
                       ELSE patch[p].program = selection[p].program
           Told(p) == (p = DrumPart) = (selection[p].bank \in PercussiveBanks)
<1>1. ChannelPlaysTheProgram <=> \A p \in Parts : Told(p) => Plays(p)
  BY DEF ChannelPlaysTheProgram, Heard
<1>2. ChannelPlaysTheProgram' <=> \A p \in Parts : (Told(p) => Plays(p))'
  BY DEF ChannelPlaysTheProgram, Heard
<1>3. CASE UNCHANGED <<selection, patch>>
  BY <1>1, <1>2, <1>3
<1>4. CASE \E p \in Parts, l \in Places : HandleSelectProgram(p, l)
  <2> PICK p \in Parts, l \in Places : HandleSelectProgram(p, l)
    BY <1>4
  <2>1. ASSUME NEW q \in Parts, Told(q)' PROVE Plays(q)'
    <3>1. CASE q = p
      BY <2>1, <3>1 DEF HandleSelectProgram, PlaySelected, Heard
    <3>2. CASE q # p
      <4>1. selection'[q] = selection[q] /\ patch'[q] = patch[q]
        BY <3>2 DEF HandleSelectProgram, PlaySelected, Heard, SelectionsTypeOK
      <4> QED BY <1>1, <2>1, <4>1
    <3> QED BY <3>1, <3>2
  <2> QED BY <1>2, <2>1
<1>5. CASE \E p \in Parts, n \in Programs : HandleProgramChange(p, n)
  <2> PICK p \in Parts, n \in Programs : HandleProgramChange(p, n)
    BY <1>5
  <2>1. ASSUME NEW q \in Parts, Told(q)' PROVE Plays(q)'
    <3>1. CASE q = p
      BY <3>1 DEF HandleProgramChange, SelectionsTypeOK
    <3>2. CASE q # p
      <4>1. selection'[q] = selection[q] /\ patch'[q] = patch[q]
        BY <3>2 DEF HandleProgramChange, SelectionsTypeOK
      <4> QED BY <1>1, <2>1, <4>1
    <3> QED BY <3>1, <3>2
  <2> QED BY <1>2, <2>1
<1>6. CASE \E b \in PercussiveBanks : HandleKitChange(b)
  <2> PICK b \in PercussiveBanks : HandleKitChange(b)
    BY <1>6
  <2>1. ASSUME NEW q \in Parts, Told(q)' PROVE Plays(q)'
    <3>1. CASE q = DrumPart
      BY <3>1, PartsAssumption DEF HandleKitChange, KitSelects, SelectionsTypeOK, Places
    <3>2. CASE q # DrumPart
      <4>1. selection'[q] = selection[q] /\ patch'[q] = patch[q]
        BY <3>2 DEF HandleKitChange, SelectionsTypeOK
      <4> QED BY <1>1, <2>1, <4>1
    <3> QED BY <3>1, <3>2
  <2> QED BY <1>2, <2>1
<1>7. CASE Remake
  <2>1. selection' = selection
    BY <1>7, WrittenType DEF Remake, ReadState
  <2>2. \A q \in Parts : Told(q) => patch'[q] = selection[q]
    BY <1>7 DEF Remake, Heard
  <2> QED BY <1>2, <2>1, <2>2
<1>8. CASE OpenProject
  <2>1. \A q \in Parts : Told(q)' => patch'[q] = selection'[q]
    BY <1>8 DEF OpenProject, PlaySelected, Heard
  <2> QED BY <1>2, <2>1
<1>9. CASE NewInstance
  BY <1>2, <1>9 DEF NewInstance
<1>10. CASE \/ BeginBlock \/ EndMessages \/ SkipPart \/ UnmarkPart \/ LoadPart
            \/ EndApply \/ EndBlock \/ BeginSave \/ BeginRemake
            \/ \E b \in Banks, n \in Programs :
                  \/ \E s \in LoadSounds, p \in Parts :
                        HandleLoadInstrument(b, n, [sound |-> s, blank |-> FALSE], p)
                  \/ HandleCreateInstrument(b, n)
                  \/ HandleDeleteInstrument(b, n)
            \/ \E B \in {{b} : b \in banks} \cup {banks} : HandleRemoveBanks(B)
            \/ \E p \in Parts, b \in MelodicBanks : HandleBankSelect(p, b)
            \/ \E p \in Parts, v \in {AsParameters(i) : i \in Instruments} : StoreParameter(p,
                  v)
            \/ MarkParameter \/ CreateFirstPlayer \/ WriteState \/ TellHost
  <2>1. UNCHANGED <<selection, patch>>
    BY <1>10
       DEF BeginBlock, EndMessages, SkipPart, UnmarkPart, LoadPart, EndApply, EndBlock,
           BeginSave, BeginRemake, PassOn, HandleLoadInstrument, HandleCreateInstrument,
           HandleDeleteInstrument, HandleRemoveBanks, HandleBankSelect, StoreParameter,
           MarkParameter, CreateFirstPlayer, WriteState, TellHost, Unmoved, channels
  <2> QED BY <1>3, <2>1
<1> QED BY <1>4, <1>5, <1>6, <1>7, <1>8, <1>9, <1>10 DEF SelectionsNext

(***************************************************************************)
(* The parameters.                                                         *)
(***************************************************************************)

\* Parameters that are refreshed show the program of their part.
LEMMA RefreshShows ==
  ASSUME NEW P, Refresh(P), NEW p \in Parts
  PROVE  /\ p \in P /\ Shown(p)' # NoProgram => params'[p] = Shown(p)'
         /\ p \notin P => params'[p] = params[p]
         /\ changed \subseteq changed'
  BY DEF Refresh

\* A part that was not told of a change and is not left behind has not changed.
LEMMA OthersHold ==
  ASSUME ParametersHoldTheSelection, NEW P, NEW p \in Parts \ P, StaleBut(P), player,
         p \notin changed, p # writing, ~(at.step = "load" /\ at.part = p), at.by # "open",
         params'[p] = params[p], p \notin stale', Shown(p)' # NoProgram
  PROVE  params'[p] = Shown(p)'
<1>1. CASE p \in stale \/ Shown(p)' # Shown(p)
  BY <1>1 DEF StaleBut
<1>2. CASE p \notin stale /\ Shown(p)' = Shown(p)
  BY <1>2 DEF ParametersHoldTheSelection, OnTheWay
<1> QED BY <1>1, <1>2

\* A message or a program change that refreshes the parts of P.
LEMMA ProgramsHold ==
  ASSUME ParametersHoldTheSelection, at.by = "block", at.step # "load", player,
         UNCHANGED <<at, writing, player>>,
         \/ \E P \in SUBSET Parts : Refresh(P) /\ StaleBut(P)
         \/ UNCHANGED params /\ changed \subseteq changed' /\ StaleBut({})
  PROVE  ParametersHoldTheSelection'
<1> SUFFICES ASSUME NEW p \in Parts, ~OnTheWay(p)', Shown(p)' # NoProgram
             PROVE  params'[p] = Shown(p)'
  BY DEF ParametersHoldTheSelection
<1>1. p \notin stale' /\ p \notin changed' /\ p # writing
  BY DEF OnTheWay
<1>2. CASE \E P \in SUBSET Parts : Refresh(P) /\ StaleBut(P)
  <2> PICK P \in SUBSET Parts : Refresh(P) /\ StaleBut(P)
    BY <1>2
  <2>1. CASE p \in P
    BY <2>1, RefreshShows
  <2>2. CASE p \notin P
    <3>1. params'[p] = params[p] /\ p \notin changed
      BY <1>1, <2>2, RefreshShows
    <3> QED BY <1>1, <2>2, <3>1, OthersHold
  <2> QED BY <2>1, <2>2
<1>3. CASE UNCHANGED params /\ changed \subseteq changed' /\ StaleBut({})
  BY <1>1, <1>3, OthersHold
<1> QED BY <1>2, <1>3

\* A part that selects another program, and is refreshed.
LEMMA SelectionHolds ==
  ASSUME ParametersHoldTheSelection, at.by = "block", at.step # "load", player,
         UNCHANGED <<at, writing, player, bankState>>,
         NEW part \in Parts, Refresh({part}), stale' = stale \ {part},
         \A p \in Parts \ {part} : selection'[p] = selection[p]
  PROVE  ParametersHoldTheSelection'
<1> SUFFICES ASSUME NEW p \in Parts, ~OnTheWay(p)', Shown(p)' # NoProgram
             PROVE  params'[p] = Shown(p)'
  BY DEF ParametersHoldTheSelection
<1>1. p \notin stale' /\ p \notin changed' /\ p # writing
  BY DEF OnTheWay
<1>2. CASE p = part
  BY <1>2, RefreshShows
<1>3. CASE p # part
  <2>1. params'[p] = params[p] /\ Shown(p)' = Shown(p) /\ p \notin stale
    BY <1>1, <1>3, RefreshShows DEF bankState, Shown
  <2>2. p \notin changed
    BY <1>1, RefreshShows
  <2> QED BY <1>1, <2>1, <2>2 DEF ParametersHoldTheSelection, OnTheWay
<1> QED BY <1>2, <1>3

\* Messages of the editor leave the parameters what is selected, or tell of it.
LEMMA HoldMessages ==
  ASSUME SelectionsTypeOK, AtOK, ParametersHoldTheSelection,
         \/ \E b \in Banks, n \in Programs :
               \/ \E s \in LoadSounds, p \in Parts :
                     HandleLoadInstrument(b, n, [sound |-> s, blank |-> FALSE], p)
               \/ HandleCreateInstrument(b, n)
               \/ HandleDeleteInstrument(b, n)
         \/ \E B \in {{b} : b \in banks} \cup {banks} : HandleRemoveBanks(B)
         \/ \E p \in Parts, l \in Places : HandleSelectProgram(p, l)
         \/ \E p \in Parts, b \in MelodicBanks : HandleBankSelect(p, b)
         \/ \E p \in Parts, n \in Programs : HandleProgramChange(p, n)
         \/ \E b \in PercussiveBanks : HandleKitChange(b)
  PROVE  ParametersHoldTheSelection'
<1>1. /\ at.step \in {"messages", "midi"} /\ at.by = "block" /\ at.step # "load"
      /\ player /\ UNCHANGED <<at, writing, player>>
  <2>1. at.step \in {"messages", "midi"} /\ UNCHANGED <<at, writing, player>>
    BY MessageStays
  <2>2. player
    BY <2>1 DEF AtOK, Free, SelectionsTypeOK
  <2> QED BY <2>1, <2>2 DEF AtOK
<1>2. CASE \E b \in Banks, n \in Programs, s \in LoadSounds, p \in Parts :
              HandleLoadInstrument(b, n, [sound |-> s, blank |-> FALSE], p)
  <2> PICK b \in Banks, n \in Programs, s \in LoadSounds, p \in Parts :
              HandleLoadInstrument(b, n, [sound |-> s, blank |-> FALSE], p)
    BY <1>2
  <2> DEFINE shown == {p} \cap {q \in Parts : selection[q] = [bank |-> b, program |-> n]}
  <2>1. CASE Refresh(shown) /\ StaleBut(shown)
    <3>1. shown \in SUBSET Parts
      OBVIOUS
    <3> HIDE DEF shown
    <3> QED BY <1>1, <2>1, <3>1, ProgramsHold
  <2>2. CASE NotLoaded(b) /\ UNCHANGED <<selection, params, changed, stale>>
    <3>1. \A q \in Parts : Shown(q)' = Shown(q) /\ (OnTheWay(q) <=> OnTheWay(q)')
      BY <1>1, <2>2 DEF NotLoaded, bankState, Shown, OnTheWay
    <3> QED BY <1>1, <2>2, <3>1 DEF ParametersHoldTheSelection
  <2> QED BY <2>1, <2>2 DEF HandleLoadInstrument
<1>3. CASE \/ \E b \in Banks, n \in Programs :
                 HandleCreateInstrument(b, n) \/ HandleDeleteInstrument(b, n)
           \/ \E B \in {{b} : b \in banks} \cup {banks} : HandleRemoveBanks(B)
  <2>1. UNCHANGED params /\ changed \subseteq changed' /\ StaleBut({})
    BY <1>3 DEF HandleCreateInstrument, HandleDeleteInstrument, HandleRemoveBanks
  <2> QED BY <1>1, <2>1, ProgramsHold
<1>4. CASE \E p \in Parts, l \in Places : HandleSelectProgram(p, l)
  <2> PICK p \in Parts, l \in Places : HandleSelectProgram(p, l)
    BY <1>4
  <2>1. /\ Refresh({p}) /\ stale' = stale \ {p} /\ UNCHANGED bankState
        /\ \A q \in Parts \ {p} : selection'[q] = selection[q]
    BY DEF HandleSelectProgram, SelectionsTypeOK
  <2> QED BY <1>1, <2>1, SelectionHolds
<1>5. CASE \E p \in Parts, b \in MelodicBanks : HandleBankSelect(p, b)
  <2>1. UNCHANGED <<bankState, selection, params, changed, stale>>
    BY <1>5 DEF HandleBankSelect, PlayMidi
  <2>2. \A q \in Parts : Shown(q)' = Shown(q) /\ (OnTheWay(q) <=> OnTheWay(q)')
    BY <1>1, <2>1 DEF bankState, Shown, OnTheWay
  <2> QED BY <1>1, <2>1, <2>2 DEF ParametersHoldTheSelection
<1>6. CASE \E p \in Parts, n \in Programs : HandleProgramChange(p, n)
  <2> PICK p \in Parts, n \in Programs : HandleProgramChange(p, n)
    BY <1>6
  <2>1. /\ Refresh({p}) /\ stale' = stale \ {p} /\ UNCHANGED bankState
        /\ \A q \in Parts \ {p} : selection'[q] = selection[q]
    BY DEF HandleProgramChange, PlayMidi, SelectionsTypeOK
  <2> QED BY <1>1, <2>1, SelectionHolds
<1>7. CASE \E b \in PercussiveBanks : HandleKitChange(b)
  <2>1. /\ Refresh({DrumPart}) /\ stale' = stale \ {DrumPart} /\ UNCHANGED bankState
        /\ \A q \in Parts \ {DrumPart} : selection'[q] = selection[q]
    BY <1>7 DEF HandleKitChange, PlayMidi, SelectionsTypeOK
  <2>2. DrumPart \in Parts
    BY PartsAssumption
  <2> QED BY <1>1, <2>1, <2>2, SelectionHolds
<1> QED BY <1>2, <1>3, <1>4, <1>5, <1>6, <1>7

\* A part whose values were passed on has them in the program it selects.
LEMMA HoldBlock ==
  ASSUME SelectionsTypeOK, AtOK, ParametersHoldTheSelection,
         \/ BeginBlock \/ EndMessages \/ SkipPart \/ UnmarkPart \/ LoadPart
         \/ EndApply \/ EndBlock \/ BeginSave \/ BeginRemake
  PROVE  ParametersHoldTheSelection'
<1>1. CASE \/ BeginBlock \/ EndMessages \/ SkipPart \/ UnmarkPart
           \/ EndApply \/ EndBlock \/ BeginSave \/ BeginRemake
  <2>1. UNCHANGED <<player, banks, ins, selection, params, stale, writing>>
    BY <1>1 DEF BeginBlock, EndMessages, SkipPart, UnmarkPart, EndApply, EndBlock,
                BeginSave, BeginRemake, Unmoved, bankState, project
  <2>2. ASSUME NEW p \in Parts, ~OnTheWay(p)' PROVE ~OnTheWay(p)
    <3>1. CASE UnmarkPart
      BY <2>1, <2>2, <3>1 DEF UnmarkPart, OnTheWay, SelectionsTypeOK
    <3>2. CASE EndMessages \/ SkipPart \/ EndApply
      BY <2>1, <2>2, <3>2 DEF EndMessages, SkipPart, EndApply, AllPassedOn, OnTheWay,
                              SelectionsTypeOK
    <3>3. CASE BeginBlock \/ BeginSave \/ BeginRemake
      BY <2>1, <2>2, <3>3 DEF BeginBlock, BeginSave, BeginRemake, Begin, Free, OnTheWay
    <3>4. CASE EndBlock
      BY <2>1, <2>2, <3>4 DEF EndBlock, OnTheWay, AtOK
    <3> QED BY <1>1, <3>1, <3>2, <3>3, <3>4
  <2>3. \A p \in Parts : Shown(p)' = Shown(p)
    BY <2>1 DEF Shown
  <2> QED BY <2>1, <2>2, <2>3 DEF ParametersHoldTheSelection
<1>2. CASE LoadPart
  <2> PICK part \in Parts : part = at.part
    BY <1>2 DEF LoadPart, AtOK
  <2> PICK place \in Places : place = selection[part]
    BY DEF SelectionsTypeOK
  <2>1. /\ part \in Parts /\ player /\ PassOn(part) /\ UNCHANGED <<params, selection>>
        /\ at' = [at EXCEPT !.step = "apply", !.part = @ + 1]
        /\ UNCHANGED <<changed, writing, player>>
    BY <1>2 DEF LoadPart, PassOn, project, AtOK, Free
  <2>2. /\ place.bank \in Banks /\ place.program \in Programs
        /\ params[part] \in Instruments /\ params[part].sound = Held[params[part].sound]
    BY <2>1 DEF SelectionsTypeOK, Places
  <2>5. Shown(part)' = IF place.bank \in banks'
                       THEN AsParameters(ins'[place.bank][place.program]) ELSE NoProgram
    BY <2>1 DEF Shown
  <2>3. Shown(part)' # NoProgram => params'[part] = Shown(part)'
    <3>1. CASE Loaded(place.bank, place.program, params[part])
      <4>1. place.bank \in banks' /\ ins'[place.bank][place.program] = params[part]
        BY <2>2, <3>1, LoadedType
      <4> QED BY <2>1, <2>2, <2>5, <4>1, HeldIsItself
    <3>2. CASE NotLoaded(place.bank)
      BY <2>5, <3>2 DEF NotLoaded, bankState
    <3> QED BY <2>1, <3>1, <3>2 DEF PassOn
  <2>4. ASSUME NEW p \in Parts \ {part}, ~OnTheWay(p)', Shown(p)' # NoProgram
        PROVE  params'[p] = Shown(p)'
    <3>1. /\ p \notin stale' /\ p \notin changed /\ p # writing /\ at.by # "open"
          /\ StaleBut({part}) /\ params'[p] = params[p]
      BY <2>1, <2>4 DEF OnTheWay, PassOn, SelectionsTypeOK
    <3> QED BY <2>1, <2>4, <3>1, OthersHold
  <2> QED BY <2>3, <2>4 DEF ParametersHoldTheSelection
<1> QED BY <1>1, <1>2

\* The values given to a part before there was a player are in its program,
\* unless a part after it that selects the same one was given values too.
LEMMA HoldCreate ==
  ASSUME SelectionsTypeOK, AtOK, CreateFirstPlayer
  PROVE  ParametersHoldTheSelection'
<1> SUFFICES ASSUME NEW p \in Parts, ~OnTheWay(p)', Shown(p)' # NoProgram
             PROVE  params'[p] = Shown(p)'
  BY DEF ParametersHoldTheSelection
<1> DEFINE b == DefaultSelection[p].bank
           n == DefaultSelection[p].program
<1>1. /\ b \in Banks /\ n \in Programs /\ DefaultSelection[p] = [bank |-> b, program |-> n]
      /\ b \in DefaultBanks
  BY PartsAssumption DEF Places
<1>2. Shown(p)' = AsParameters(Given(Parts)[b][n])
  <2>1. selection' = DefaultSelection /\ banks' = DefaultBanks /\ ins' = Given(Parts)
    BY DEF CreateFirstPlayer, AtOK
  <2> QED BY <1>1, <2>1 DEF Shown
<1>3. \A q \in changed : DefaultSelection[q] = [bank |-> b, program |-> n] => q <= p
  <2>1. p \notin stale'
    BY DEF OnTheWay
  <2>2. changed \subseteq Parts /\ Parts \subseteq Nat
    BY PartsAssumption DEF SelectionsTypeOK, Parts
  <2>3. \A q \in changed : ~(p < q /\ DefaultSelection[p] = DefaultSelection[q])
    BY <2>1 DEF CreateFirstPlayer
  <2>4. ASSUME NEW q \in changed, DefaultSelection[q] = [bank |-> b, program |-> n]
        PROVE  q <= p
    <3>1. ~(p < q)
      BY <1>1, <2>3, <2>4
    <3> QED BY <2>2, <3>1
  <2> QED BY <2>4
<1>4. CASE p \in changed
  <2>1. Given(Parts)[b][n] = params[p]
    <3>1. PICK q \in Parts \cap changed :
              /\ DefaultSelection[q] = [bank |-> b, program |-> n]
              /\ \A r \in Parts \cap changed :
                    DefaultSelection[r] = [bank |-> b, program |-> n] => r <= q
              /\ Given(Parts)[b][n] = params[q]
      BY <1>1, <1>4, GivenIsParams
    <3>2. q <= p /\ p <= q /\ q \in Nat /\ p \in Nat
      BY <1>1, <1>3, <1>4, <3>1 DEF Parts
    <3> QED BY <3>1, <3>2
  <2>2. params'[p] = params[p]
    BY <1>4 DEF CreateFirstPlayer, FirstParams
  <2>3. params[p] \in Instruments /\ params[p].sound = Held[params[p].sound]
    BY DEF SelectionsTypeOK
  <2> QED BY <1>2, <2>1, <2>2, <2>3, HeldIsItself
<1>5. CASE p \notin changed
  <2>1. params'[p] = AsParameters(Given(1 .. p)[b][n])
    BY <1>5 DEF CreateFirstPlayer, FirstParams
  <2>2. 1 .. p \subseteq Parts /\ changed \subseteq Parts
        /\ \A q \in Parts : q <= p => q \in 1 .. p
    BY PartsAssumption DEF SelectionsTypeOK, Parts
  <2> DEFINE givers(P) ==
               {q \in P \cap changed : DefaultSelection[q] = [bank |-> b, program |-> n]}
  <2>3. givers(Parts) = givers(1 .. p)
    BY <1>3, <2>2
  <2>4. Given(Parts)[b][n] = Given(1 .. p)[b][n]
    <3>1. \A P : Given(P)[b][n] = IF givers(P) = {} THEN DefaultIns[b][n]
                                  ELSE params[CHOOSE q \in givers(P) : \A r \in givers(P) : r <= q]
      BY <1>1 DEF Given
    <3> HIDE DEF givers
    <3> QED BY <2>3, <3>1
  <2> QED BY <1>2, <2>1, <2>4
<1> QED BY <1>4, <1>5

\* Every step leaves the parameters what is selected, or tells of it.
LEMMA HoldNext ==
  ASSUME SelectionsTypeOK, AtOK, ParametersHoldTheSelection, SelectionsNext
  PROVE  ParametersHoldTheSelection'
<1>1. CASE \/ BeginBlock \/ EndMessages \/ SkipPart \/ UnmarkPart \/ LoadPart
           \/ EndApply \/ EndBlock \/ BeginSave \/ BeginRemake
  BY <1>1, HoldBlock
<1>2. CASE \/ \E b \in Banks, n \in Programs :
                 \/ \E s \in LoadSounds, p \in Parts :
                       HandleLoadInstrument(b, n, [sound |-> s, blank |-> FALSE], p)
                 \/ HandleCreateInstrument(b, n)
                 \/ HandleDeleteInstrument(b, n)
           \/ \E B \in {{b} : b \in banks} \cup {banks} : HandleRemoveBanks(B)
           \/ \E p \in Parts, l \in Places : HandleSelectProgram(p, l)
           \/ \E p \in Parts, b \in MelodicBanks : HandleBankSelect(p, b)
           \/ \E p \in Parts, n \in Programs : HandleProgramChange(p, n)
           \/ \E b \in PercussiveBanks : HandleKitChange(b)
  BY <1>2, HoldMessages
<1>3. CASE \E p \in Parts, v \in {AsParameters(i) : i \in Instruments} : StoreParameter(p, v)
  <2> PICK p \in Parts, v \in {AsParameters(i) : i \in Instruments} : StoreParameter(p, v)
    BY <1>3
  <2>1. UNCHANGED <<player, banks, ins, selection, changed, at, stale>>
    BY DEF StoreParameter, bankState
  <2>2. writing = NoPart /\ writing' = p
        /\ \A q \in Parts \ {p} : params'[q] = params[q]
    BY DEF StoreParameter, SelectionsTypeOK
  <2>3. \A q \in Parts : /\ Shown(q)' = Shown(q)
                         /\ ~OnTheWay(q)' => ~OnTheWay(q) /\ q # p
    BY <2>1, <2>2, PartsAssumption DEF Shown, OnTheWay, NoPart, Parts
  <2> QED BY <2>1, <2>2, <2>3 DEF ParametersHoldTheSelection
<1>4. CASE MarkParameter
  <2>1. UNCHANGED <<player, banks, ins, selection, params, at, stale>>
    BY <1>4 DEF MarkParameter, Unmoved, bankState, project
  <2>2. \A q \in Parts : Shown(q)' = Shown(q) /\ (~OnTheWay(q)' => ~OnTheWay(q))
    BY <1>4, <2>1 DEF MarkParameter, Shown, OnTheWay
  <2> QED BY <2>1, <2>2 DEF ParametersHoldTheSelection
<1>5. CASE CreateFirstPlayer
  BY <1>5, HoldCreate
<1>6. CASE WriteState
  <2>1. UNCHANGED <<player, banks, ins, selection, params, changed, writing, stale>>
    BY <1>6 DEF WriteState, bankState
  <2>2. \A q \in Parts : Shown(q)' = Shown(q) /\ (~OnTheWay(q)' => ~OnTheWay(q))
    BY <1>6, <2>1 DEF WriteState, AllPassedOn, Shown, OnTheWay
  <2> QED BY <2>1, <2>2 DEF ParametersHoldTheSelection
<1>7. CASE Remake
  <2>1. /\ UNCHANGED <<player, params, changed, writing>> /\ StaleBut({})
        /\ at.step = "apply" /\ player
    BY <1>7 DEF Remake, AllPassedOn, AtOK, Free
  <2>2. ASSUME NEW p \in Parts, ~OnTheWay(p)', Shown(p)' # NoProgram
        PROVE  params'[p] = Shown(p)'
    <3>1. p \notin stale' /\ p \notin changed /\ p # writing /\ at.by # "open"
      BY <1>7, <2>1, <2>2 DEF Remake, OnTheWay, SelectionsTypeOK
    <3> QED BY <2>1, <2>2, <3>1, OthersHold
  <2> QED BY <2>2 DEF ParametersHoldTheSelection
<1>8. CASE OpenProject \/ NewInstance
  BY <1>8 DEF OpenProject, NewInstance, ParametersHoldTheSelection, OnTheWay
<1>9. CASE TellHost
  BY <1>9, RefreshShows DEF TellHost, ParametersHoldTheSelection
<1> QED BY <1>1, <1>2, <1>3, <1>4, <1>5, <1>6, <1>7, <1>8, <1>9 DEF SelectionsNext

(***************************************************************************)
(* The project.                                                            *)
(***************************************************************************)

\* What was written has no empty bank and nothing of a blank program.
LEMMA SavedNext ==
  ASSUME SelectionsTypeOK, SavedOK, SelectionsNext
  PROVE  SavedOK'
<1>1. CASE WriteState
  <2>1. ASSUME NEW b \in Used
        PROVE  /\ \E n \in Programs : ~Written.ins[b][n].blank
               /\ \A n \in Programs : Written.ins[b][n].blank => Written.ins[b][n] = Blank
    <3>1. PICK n \in Programs : ~ins[b][n].blank
      BY DEF Used
    <3> QED BY <3>1, WrittenType
  <2>2. saved' = Written /\ DOMAIN Written.ins = Used
    BY <1>1, WrittenType DEF WriteState
  <2> QED BY <2>1, <2>2 DEF SavedOK, Blank
<1>2. CASE UNCHANGED saved
  BY <1>2 DEF SavedOK, Blank
<1>3. CASE ~WriteState
  <2>1. UNCHANGED saved
    BY <1>3
       DEF SelectionsNext, BeginBlock, EndMessages, SkipPart, UnmarkPart, LoadPart, EndApply,
           EndBlock, BeginSave, BeginRemake, HandleLoadInstrument, HandleCreateInstrument,
           HandleDeleteInstrument, HandleRemoveBanks, HandleSelectProgram, HandleBankSelect,
           HandleProgramChange, HandleKitChange, StoreParameter, MarkParameter,
           CreateFirstPlayer, Remake, OpenProject, NewInstance, TellHost, Unmoved, Message,
           PlayMidi, project
  <2> QED BY <1>2, <2>1
<1> QED BY <1>1, <1>3

\* What the player holds of a program of the project that was opened, and what
\* the parameters hold of it.
LEMMA CleanProgram ==
  ASSUME SelectionsTypeOK, SavedOK, CleanOK, clean, NEW b \in banks, NEW n \in Programs
  PROVE  /\ b \in Banks /\ ins[b][n] \in Instruments /\ saved.ins[b][n] \in Instruments
         /\ ins[b][n].blank = saved.ins[b][n].blank
         /\ AsParameters(ins[b][n]) = AsParameters(saved.ins[b][n])
         /\ saved.ins[b][n].blank => saved.ins[b][n] = Blank
<1>1. b \in Banks /\ b \in DOMAIN saved.ins
  BY DEF SelectionsTypeOK, CleanOK
<1>2. ins[b][n] \in Instruments /\ saved.ins[b][n] \in Instruments
  BY <1>1 DEF SelectionsTypeOK
<1>3. ins[b][n] = saved.ins[b][n] \/ ins[b][n] = AsParameters(saved.ins[b][n])
  BY DEF CleanOK, ProgramsAsOpened
<1> QED BY <1>1, <1>2, <1>3, AsParametersType DEF SavedOK

\* As long as nothing was changed every bank there is in use.
LEMMA CleanUsed ==
  ASSUME SelectionsTypeOK, SavedOK, CleanOK, clean
  PROVE  Used = banks
<1>1. ASSUME NEW b \in banks PROVE \E n \in Programs : ~ins[b][n].blank
  <2>1. b \in DOMAIN saved.ins
    BY DEF CleanOK
  <2>2. PICK n \in Programs : ~saved.ins[b][n].blank
    BY <2>1 DEF SavedOK
  <2> QED BY <2>2, CleanProgram
<1> QED BY <1>1 DEF Used

\* Values passed on for a part: those that the project's program has.
LEMMA CleanLoad ==
  ASSUME SelectionsTypeOK, AtOK, CleanOK, LoadPart
  PROVE  CleanOK'
<1> SUFFICES ASSUME clean PROVE CleanOK'
  BY DEF LoadPart, CleanOK
<1> PICK part \in Parts : part = at.part
  BY DEF LoadPart, AtOK
<1> PICK place \in Places : place = selection[part]
  BY DEF SelectionsTypeOK
<1>1. /\ PassOn(part) /\ at' = [at EXCEPT !.step = "apply", !.part = @ + 1] /\ at.step = "load"
      /\ UNCHANGED <<changed, writing, clean, player, saved, params, selection>>
  BY DEF LoadPart, PassOn, project
<1>2. /\ place.bank \in banks
      /\ params[part] = AsParameters(saved.ins[place.bank][place.program])
  BY <1>1 DEF CleanOK, ParametersAsOpened
<1>3. Loaded(place.bank, place.program, params[part])
  BY <1>1, <1>2 DEF PassOn, NotLoaded
<1>4. /\ banks' = banks
      /\ \A b \in banks, n \in Programs :
            ins'[b][n] = IF b = place.bank /\ n = place.program THEN params[part] ELSE ins[b][n]
  BY <1>2, <1>3 DEF Loaded, SelectionsTypeOK
<1>5. selection[part] = [bank |-> place.bank, program |-> place.program]
  BY DEF Places
<1>6. ProgramsAsOpened'
  <2>1. ASSUME NEW b \in banks, NEW n \in Programs
        PROVE  \/ ins'[b][n] = saved.ins[b][n]
               \/ /\ ins'[b][n] = AsParameters(saved.ins[b][n])
                  /\ \E p \in Parts : selection[p] = [bank |-> b, program |-> n]
    <3>1. CASE b = place.bank /\ n = place.program
      BY <1>2, <1>4, <1>5, <3>1
    <3>2. CASE ~(b = place.bank /\ n = place.program)
      BY <1>4, <3>2 DEF CleanOK, ProgramsAsOpened
    <3> QED BY <3>1, <3>2
  <2> QED BY <1>1, <1>4, <2>1 DEF ProgramsAsOpened, AsParameters
<1>7. at'.step = "apply" /\ at'.by = at.by /\ at.by # "open"
  BY <1>1 DEF CleanOK, SelectionsTypeOK
<1>8. ParametersAsOpened'
  BY <1>1, <1>4, <1>7 DEF CleanOK, ParametersAsOpened, AsParameters
<1>9. player /\ writing = NoPart /\ selection = saved.selection /\ banks = DOMAIN saved.ins
  BY DEF CleanOK
<1> QED BY <1>1, <1>4, <1>6, <1>7, <1>8, <1>9 DEF CleanOK

\* A player that is made again has what was opened.
LEMMA CleanRemake ==
  ASSUME SelectionsTypeOK, SavedOK, CleanOK, Remake
  PROVE  CleanOK'
<1> SUFFICES ASSUME clean PROVE CleanOK'
  BY DEF Remake, CleanOK
<1>1. /\ banks' = banks /\ selection' = selection
      /\ \A b \in banks, n \in Programs :
            ins'[b][n] = IF ins[b][n].blank THEN Blank ELSE ins[b][n]
  <2>1. ReadState(Written) /\ banks \subseteq Banks
    BY DEF Remake, SelectionsTypeOK
  <2> QED BY <2>1, CleanUsed, WrittenType DEF ReadState
<1>2. ASSUME NEW b \in banks, NEW n \in Programs
      PROVE  \/ ins'[b][n] = saved.ins[b][n]
             \/ /\ ins'[b][n] = AsParameters(saved.ins[b][n])
                /\ \E p \in Parts : selection[p] = [bank |-> b, program |-> n]
  <2>1. CASE ins[b][n].blank
    BY <1>1, <2>1, CleanProgram
  <2>2. CASE ~ins[b][n].blank
    BY <1>1, <2>2 DEF CleanOK, ProgramsAsOpened
  <2> QED BY <2>1, <2>2
<1>3. at'.step # "load" /\ (at'.by = "open" => at.by = "open")
      /\ UNCHANGED <<player, params, changed, writing, saved, clean>>
  BY DEF Remake, Free, SelectionsTypeOK
<1>4. ProgramsAsOpened'
  BY <1>1, <1>2, <1>3 DEF ProgramsAsOpened, AsParameters
<1>5. ParametersAsOpened'
  BY <1>1, <1>3 DEF CleanOK, ParametersAsOpened, AsParameters
<1> QED BY <1>1, <1>3, <1>4, <1>5 DEF CleanOK

\* The host is told of what was opened.
LEMMA CleanTell ==
  ASSUME SelectionsTypeOK, AtOK, SavedOK, CleanOK, TellHost
  PROVE  CleanOK'
<1> SUFFICES ASSUME clean PROVE CleanOK'
  BY DEF TellHost, CleanOK
<1>1. /\ UNCHANGED <<player, banks, ins, selection, writing, saved, clean>> /\ at' = Free
      /\ Refresh(Parts)
  BY DEF TellHost, bankState
<1>2. ASSUME NEW p \in Parts, p \in changed'
      PROVE  /\ selection[p].bank \in banks
             /\ params'[p] = AsParameters(saved.ins[selection[p].bank][selection[p].program])
  <2>1. selection[p].bank \in banks
    <3>1. CASE p \in changed
      BY <3>1 DEF CleanOK, ParametersAsOpened
    <3>2. CASE params'[p] # params[p]
      BY <1>1, <3>2 DEF Refresh, Shown
    <3> QED BY <1>1, <1>2, <3>1, <3>2 DEF Refresh
  <2>2. selection[p].program \in Programs
    BY DEF SelectionsTypeOK, Places
  <2>3. Shown(p)' = AsParameters(ins[selection[p].bank][selection[p].program])
    BY <1>1, <2>1 DEF Shown
  <2>4. Shown(p)' # NoProgram
    BY <2>1, <2>2, <2>3, CleanProgram, AsParametersType, PartsAssumption
  <2> QED BY <1>1, <2>1, <2>2, <2>3, <2>4, RefreshShows, CleanProgram
<1>3. at'.step # "load" /\ at'.by # "open"
  BY <1>1 DEF Free
<1>4. ProgramsAsOpened'
  BY <1>1 DEF CleanOK, ProgramsAsOpened, AsParameters
<1>5. ParametersAsOpened'
  BY <1>1, <1>2, <1>3 DEF ParametersAsOpened, AsParameters
<1> QED BY <1>1, <1>3, <1>4, <1>5 DEF CleanOK

\* As long as nothing is changed every step keeps what was opened.
LEMMA CleanNext ==
  ASSUME SelectionsTypeOK, AtOK, SavedOK, CleanOK, SelectionsNext
  PROVE  CleanOK'
<1>1. CASE clean' = FALSE
  BY <1>1 DEF CleanOK
<1>2. CASE \/ BeginBlock \/ EndMessages \/ SkipPart \/ UnmarkPart
           \/ EndApply \/ EndBlock \/ BeginSave \/ BeginRemake
  <2>1. UNCHANGED <<player, banks, ins, selection, params, writing, saved, clean>>
    BY <1>2 DEF BeginBlock, EndMessages, SkipPart, UnmarkPart, EndApply, EndBlock,
                BeginSave, BeginRemake, Unmoved, bankState, project
  <2> SUFFICES ASSUME clean, CleanOK PROVE CleanOK'
    BY <2>1 DEF CleanOK
  <2>4. ProgramsAsOpened'
    BY <2>1 DEF CleanOK, ProgramsAsOpened, AsParameters
  <2>2. CASE UnmarkPart
    <3>1. /\ at'.step = "load" /\ at'.part = at.part /\ at'.by = at.by
          /\ at.part \in changed /\ changed' \subseteq changed
      BY <2>2 DEF UnmarkPart, SelectionsTypeOK
    <3>2. ParametersAsOpened'
      BY <2>1, <3>1 DEF CleanOK, ParametersAsOpened, AsParameters
    <3> QED BY <2>1, <2>4, <3>1, <3>2 DEF CleanOK
  <2>3. CASE ~UnmarkPart
    <3>1. at'.step # "load" /\ changed' = changed /\ (at'.by = "open" => at.by = "open")
      <4>1. CASE EndBlock
        BY <4>1 DEF EndBlock, Free
      <4>3. CASE BeginBlock \/ BeginSave \/ BeginRemake
        <5>1. changed' = changed /\ at'.step \in {"messages", "apply"}
              /\ at'.by \in {"block", "save", "remake"}
          <6>1. CASE BeginBlock
            BY <6>1 DEF BeginBlock, Begin
          <6>2. CASE BeginSave
            BY <6>2 DEF BeginSave, Begin
          <6>3. CASE BeginRemake
            BY <6>3 DEF BeginRemake, Begin
          <6> QED BY <4>3, <6>1, <6>2, <6>3
        <5> QED BY <5>1
      <4>2. CASE EndMessages \/ SkipPart \/ EndApply
        BY <4>2 DEF EndMessages, SkipPart, EndApply, AllPassedOn, SelectionsTypeOK
      <4> QED BY <1>2, <2>3, <4>1, <4>2, <4>3
    <3>2. ParametersAsOpened'
      BY <2>1, <3>1 DEF CleanOK, ParametersAsOpened, AsParameters
    <3> QED BY <2>1, <2>4, <3>1, <3>2 DEF CleanOK
  <2> QED BY <2>2, <2>3
<1>3. CASE \/ \E b \in Banks, n \in Programs :
                 \/ \E s \in LoadSounds, p \in Parts :
                       HandleLoadInstrument(b, n, [sound |-> s, blank |-> FALSE], p)
                 \/ HandleCreateInstrument(b, n)
                 \/ HandleDeleteInstrument(b, n)
           \/ \E B \in {{b} : b \in banks} \cup {banks} : HandleRemoveBanks(B)
           \/ \E p \in Parts, l \in Places : HandleSelectProgram(p, l)
           \/ \E p \in Parts, b \in MelodicBanks : HandleBankSelect(p, b)
           \/ \E p \in Parts, n \in Programs : HandleProgramChange(p, n)
           \/ \E b \in PercussiveBanks : HandleKitChange(b)
  <2>1. clean' = FALSE
    BY <1>3, MessageStays
  <2> QED BY <1>1, <2>1
<1>4. CASE \/ \E p \in Parts, v \in {AsParameters(i) : i \in Instruments} : StoreParameter(p, v)
           \/ WriteState \/ NewInstance
  BY <1>1, <1>4 DEF StoreParameter, WriteState, NewInstance
<1>5. CASE MarkParameter \/ CreateFirstPlayer
  BY <1>5 DEF MarkParameter, CreateFirstPlayer, CleanOK
<1>6. CASE OpenProject
  <2> SUFFICES ASSUME clean' PROVE CleanOK'
    BY DEF CleanOK
  <2>1. /\ writing' = NoPart /\ changed' = {} /\ player' /\ saved' = saved
        /\ selection' = saved.selection /\ banks' = DOMAIN saved.ins
        /\ at'.step # "load"
    <3>1. at'.step \in {"apply", "refresh"}
      BY <1>6 DEF OpenProject
    <3> QED BY <1>6, <3>1 DEF OpenProject, ReadState
  <2>2. \A b \in banks', n \in Programs : ins'[b][n] = saved'.ins[b][n]
    BY <1>6, <2>1 DEF OpenProject, ReadState, SelectionsTypeOK
  <2>3. ProgramsAsOpened' /\ ParametersAsOpened'
    BY <2>1, <2>2 DEF ProgramsAsOpened, ParametersAsOpened
  <2> QED BY <2>1, <2>3 DEF CleanOK
<1>7. CASE LoadPart
  BY <1>7, CleanLoad
<1>8. CASE Remake
  BY <1>8, CleanRemake
<1>9. CASE TellHost
  BY <1>9, CleanTell
<1> QED BY <1>2, <1>3, <1>4, <1>5, <1>6, <1>7, <1>8, <1>9 DEF SelectionsNext

\* What was opened and not changed is written as it was.
LEMMA CleanSurvives ==
  ASSUME SelectionsTypeOK, SavedOK, CleanOK
  PROVE  ProjectSurvives
<1> SUFFICES ASSUME clean PROVE AsHeld(Written) = AsHeld(saved)
  BY DEF ProjectSurvives
<1>1. /\ selection = saved.selection /\ Written.selection = selection
      /\ banks = DOMAIN saved.ins /\ DOMAIN Written.ins = banks
  BY CleanUsed, WrittenType DEF CleanOK
<1> DEFINE Selected(b, n) == \E p \in Parts : selection[p] = [bank |-> b, program |-> n]
           Keeps(i, b, n) == IF Selected(b, n) THEN AsParameters(i) ELSE i
<1>2. ASSUME NEW b \in banks, NEW n \in Programs
      PROVE  Keeps(Written.ins[b][n], b, n) = Keeps(saved.ins[b][n], b, n)
  <2>1. Written.ins[b][n] = IF ins[b][n].blank THEN Blank ELSE ins[b][n]
    BY CleanUsed, WrittenType
  <2>2. CASE ins[b][n].blank
    BY <2>1, <2>2, CleanProgram
  <2>3. CASE ~ins[b][n].blank /\ Selected(b, n)
    BY <2>1, <2>3, CleanProgram
  <2>4. CASE ~ins[b][n].blank /\ ~Selected(b, n)
    BY <2>1, <2>4 DEF CleanOK, ProgramsAsOpened
  <2> QED BY <2>2, <2>3, <2>4
<1>3. /\ AsHeld(Written) = [ins |-> [b \in banks |-> [n \in Programs |->
                                        Keeps(Written.ins[b][n], b, n)]],
                            selection |-> selection]
      /\ AsHeld(saved) = [ins |-> [b \in banks |-> [n \in Programs |->
                                        Keeps(saved.ins[b][n], b, n)]],
                          selection |-> selection]
  BY <1>1 DEF AsHeld
<1> HIDE DEF Keeps
<1> QED BY <1>2, <1>3

(***************************************************************************)
(* The theorems.                                                           *)
(***************************************************************************)

\* A new instance has its default selection, and nothing was saved.
LEMMA SelectionsIInvInit == SelectionsInit => SelectionsIInv
<1> SUFFICES ASSUME SelectionsInit PROVE SelectionsIInv
  OBVIOUS
<1>1. SelectionsTypeOK
  BY TypeInit
<1>2. AtOK
  BY DEF SelectionsInit, AtOK, Free
<1>3. SavedOK
  BY DEF SelectionsInit, SavedOK, EmptyProject
<1>4. CleanOK /\ ParametersHoldTheSelection
  BY DEF SelectionsInit, CleanOK, ParametersHoldTheSelection
<1>5. ChannelPlaysTheProgram
  BY DEF SelectionsInit, ChannelPlaysTheProgram
<1> QED BY <1>1, <1>2, <1>3, <1>4, <1>5 DEF SelectionsIInv

\* Every step keeps the parts of the invariant.
LEMMA SelectionsIInvNext ==
  SelectionsIInv /\ [SelectionsNext]_selectionVars => SelectionsIInv'
<1> SUFFICES ASSUME SelectionsIInv, [SelectionsNext]_selectionVars PROVE SelectionsIInv'
  OBVIOUS
<1>1. CASE SelectionsNext
  BY <1>1, TypeNext, AtNext, SavedNext, CleanNext, ChannelNext, HoldNext DEF SelectionsIInv
<1>2. CASE UNCHANGED selectionVars
  BY <1>2
     DEF selectionVars, SelectionsIInv, SelectionsTypeOK, AtOK, SavedOK, CleanOK,
         ProgramsAsOpened, ParametersAsOpened, ChannelPlaysTheProgram,
               ParametersHoldTheSelection, Heard, Shown, OnTheWay
<1> QED BY <1>1, <1>2

\* Each variable of the parts keeps its type: what the parameters of a part
\* hold is always within their ranges (set_instrument, parameter_block.cc).
THEOREM SelectionsTypeCorrect == SelectionsSpec => []SelectionsTypeOK
<1>1. SelectionsIInv => SelectionsTypeOK
  BY DEF SelectionsIInv
<1> QED BY <1>1, SelectionsIInvInit, SelectionsIInvNext, PTL DEF SelectionsSpec

\* The parameters of a part hold the program it selects, once the changes of
\* them have been passed on and unless a message changed it behind them
\* (set_instrument_parameters_notifying_host, apply_parameter_changes).
THEOREM ParametersCorrect == SelectionsSpec => []ParametersHoldTheSelection
<1>1. SelectionsIInv => ParametersHoldTheSelection
  BY DEF SelectionsIInv
<1> QED BY <1>1, SelectionsIInvInit, SelectionsIInvNext, PTL DEF SelectionsSpec

\* The channel of a part plays the number of the program it selects, and the
\* drum part the kit (send_program_change_from_selection, handle_midi).
THEOREM ChannelsCorrect == SelectionsSpec => []ChannelPlaysTheProgram
<1>1. SelectionsIInv => ChannelPlaysTheProgram
  BY DEF SelectionsIInv
<1> QED BY <1>1, SelectionsIInvInit, SelectionsIInvNext, PTL DEF SelectionsSpec

\* A project that is only opened, in a plugin that has a player or in a new
\* one, is written as it was (write_state, read_state).
THEOREM ProjectCorrect == SelectionsSpec => []ProjectSurvives
<1>1. SelectionsIInv => ProjectSurvives
  BY CleanSurvives DEF SelectionsIInv
<1> QED BY <1>1, SelectionsIInvInit, SelectionsIInvNext, PTL DEF SelectionsSpec

\* A player that is made again has the programs of the one before, and the
\* parts their selections (recreate_player_keeping_state).
THEOREM RemakeCorrect == SelectionsSpec => RemakeKeepsThePrograms
<1>1. ASSUME SelectionsIInv, Remake
      PROVE  InUse' = InUse /\ selection' = selection
  <2>1. SelectionsTypeOK /\ ReadState(Written)
    BY <1>1 DEF SelectionsIInv, Remake
  <2>2. /\ banks' = Used /\ selection' = selection
        /\ \A b \in Used, n \in Programs :
              ins'[b][n] = IF ins[b][n].blank THEN Blank ELSE ins[b][n]
    <3>1. Used \subseteq Banks
      BY <2>1, WrittenType DEF SelectionsTypeOK
    <3> QED BY <2>1, <3>1, WrittenType DEF ReadState
  <2>3. ASSUME NEW l \in Places \X Instruments
        PROVE  (l[1].bank \in banks' /\ ~l[2].blank /\ ins'[l[1].bank][l[1].program] = l[2])
               <=> (l[1].bank \in banks /\ ~l[2].blank /\ ins[l[1].bank][l[1].program] = l[2])
    <3>1. l[1].program \in Programs
      BY DEF Places
    <3>2. CASE l[1].bank \in Used
      <4>1. l[1].bank \in banks
        BY <3>2 DEF Used
      <4> QED BY <2>2, <3>1, <3>2, <4>1 DEF Blank
    <3>3. CASE l[1].bank \notin Used
      BY <2>2, <3>1, <3>3 DEF Used
    <3> QED BY <3>2, <3>3
  <2> QED BY <2>2, <2>3 DEF InUse
<1>2. SelectionsIInv /\ [SelectionsNext]_selectionVars
      => [Remake => InUse' = InUse /\ selection' = selection]_selectionVars
  BY <1>1
<1> QED BY <1>2, SelectionsIInvInit, SelectionsIInvNext, PTL
        DEF SelectionsSpec, RemakeKeepsThePrograms

(***************************************************************************)
(* The bits of a byte.                                                     *)
(***************************************************************************)
\* The bits of a byte from a unit on, a power of two, as many as give so many values.
At(b, unit, size) == (b \div unit) % size

\* The byte with other ones there.
SetTo(b, unit, size, bits) == b + (bits - At(b, unit, size)) * unit

\* They can be set, in eight bits, to whatever fits there.
Settable(unit, size) ==
    \A b \in 0 .. 255 : \A bits \in 0 .. size - 1 :
        /\ SetTo(b, unit, size, bits) \in 0 .. 255
        /\ At(SetTo(b, unit, size, bits), unit, size) = bits

\* And these ones leave those as they are.
Leaves(unit, size, unit2, size2) ==
    \A b \in 0 .. 255 : \A bits \in 0 .. size - 1 :
        At(SetTo(b, unit, size, bits), unit2, size2) = At(b, unit2, size2)

\* One is a multiple of the other.
Divides(a, b) == \E k \in Nat \ {0} : b = k * a

\* What division gives, and what can be divided.
LEMMA Quotient ==
    ASSUME NEW d \in Nat \ {0}, NEW q \in Int, NEW r \in 0 .. d - 1
    PROVE  (q * d + r) \div d = q /\ (q * d + r) % d = r
OBVIOUS

\* Every number is a multiple and a remainder.
LEMMA Divided ==
    ASSUME NEW d \in Nat \ {0}, NEW b \in Nat
    PROVE  \E q \in Nat : \E r \in 0 .. d - 1 : b = q * d + r
<1>1. b = (b \div d) * d + (b % d)
  OBVIOUS
<1>2. b % d \in 0 .. d - 1 /\ b \div d \in Nat
  OBVIOUS
<1> QED BY <1>1, <1>2

\* A byte, by the field, what is below and what is above it; and the byte with other bits
\* in the field.
Parted(b, unit, size, bits) ==
    \E h \in Nat, m \in 0 .. size - 1, l \in 0 .. unit - 1 :
        /\ b = (h * size + m) * unit + l
        /\ SetTo(b, unit, size, bits) = (h * size + bits) * unit + l
        /\ At(SetTo(b, unit, size, bits), unit, size) = bits

\* Every byte is in parts.
LEMMA ByteParts ==
    ASSUME NEW unit \in Nat \ {0}, NEW size \in Nat \ {0}, NEW b \in Nat,
           NEW bits \in 0 .. size - 1
    PROVE  Parted(b, unit, size, bits)
<1>1. PICK q \in Nat, l \in 0 .. unit - 1 : b = q * unit + l
  BY Divided
<1>2. PICK h \in Nat, m \in 0 .. size - 1 : q = h * size + m
  BY Divided
<1>3. At(b, unit, size) = m
  <2>1. b \div unit = q
    BY <1>1, Quotient
  <2>2. q % size = m
    BY <1>2, Quotient
  <2> QED BY <2>1, <2>2 DEF At
<1>4. PICK p \in Int : p = h * size + bits
  OBVIOUS
<1>5. SetTo(b, unit, size, bits) = p * unit + l
  <2>1. SetTo(b, unit, size, bits) = b + (bits - m) * unit
    BY <1>3 DEF SetTo
  <2>2. q * unit + l + (bits - m) * unit = p * unit + l
    BY <1>2, <1>4
  <2> QED BY <1>1, <2>1, <2>2
<1>6. At(SetTo(b, unit, size, bits), unit, size) = bits
  <2>1. (p * unit + l) \div unit = p
    BY <1>4, Quotient
  <2>2. p % size = bits
    BY <1>4, Quotient
  <2> QED BY <1>5, <2>1, <2>2 DEF At
<1> QED BY <1>1, <1>2, <1>4, <1>5, <1>6 DEF Parted

\* A field that ends in the byte can be set.
LEMMA FitsIsSettable ==
    ASSUME NEW unit \in Nat \ {0}, NEW size \in Nat \ {0}, Divides(size * unit, 256)
    PROVE  Settable(unit, size)
<1> SUFFICES ASSUME NEW b \in 0 .. 255, NEW bits \in 0 .. size - 1
             PROVE  /\ SetTo(b, unit, size, bits) \in 0 .. 255
                    /\ At(SetTo(b, unit, size, bits), unit, size) = bits
  BY DEF Settable
<1>1. PICK h \in Nat, m \in 0 .. size - 1, l \in 0 .. unit - 1 :
         /\ b = (h * size + m) * unit + l
         /\ SetTo(b, unit, size, bits) = (h * size + bits) * unit + l
         /\ At(SetTo(b, unit, size, bits), unit, size) = bits
  <2>1. b \in Nat
    OBVIOUS
  <2>2. Parted(b, unit, size, bits)
    BY <2>1, ByteParts
  <2> QED BY <2>2 DEF Parted
<1>3. PICK k \in Nat \ {0} : 256 = k * (size * unit)
  BY DEF Divides
<1>4. h < k
  <2>1. PICK p \in Nat \ {0} : p = size * unit
    OBVIOUS
  <2>2. m * unit \in Nat /\ h * size * unit = h * p
    BY <2>1
  <2>3. b = h * p + m * unit + l
    BY <1>1, <2>2
  <2>4. h * p < k * p
    BY <1>3, <2>1, <2>2, <2>3
  <2> QED BY <2>1, <2>4
<1>5. (h * size + bits) * unit + l \in 0 .. 255
  <2>1. PICK p \in Nat \ {0} : p = size * unit
    OBVIOUS
  <2>2. bits * unit + l \in 0 .. p - 1
    <3>1. bits * unit <= (size - 1) * unit /\ bits * unit \in Nat
      OBVIOUS
    <3>2. (size - 1) * unit = p - unit
      BY <2>1
    <3> QED BY <3>1, <3>2, <2>1
  <2>3. (h * size + bits) * unit + l = h * p + (bits * unit + l)
    BY <2>1
  <2>4. h * p <= (k - 1) * p /\ h * p \in Nat
    BY <1>4, <2>1
  <2>5. (k - 1) * p = 256 - p
    BY <1>3, <2>1
  <2>6. PICK x \in 0 .. p - 1 : x = bits * unit + l
    BY <2>2
  <2>7. PICK y \in Nat : y = h * p /\ y <= 256 - p
    BY <2>4, <2>5
  <2> QED BY <2>1, <2>3, <2>6, <2>7
<1> QED BY <1>1, <1>5

\* What is above a field is left as it is,
LEMMA LeavesHigher ==
    ASSUME NEW unit \in Nat \ {0}, NEW size \in Nat \ {0}, NEW unit2 \in Nat \ {0}, NEW size2,
           Divides(size * unit, unit2)
    PROVE  Leaves(unit, size, unit2, size2)
<1> SUFFICES ASSUME NEW b \in 0 .. 255, NEW bits \in 0 .. size - 1
             PROVE  At(SetTo(b, unit, size, bits), unit2, size2) = At(b, unit2, size2)
  BY DEF Leaves
<1>1. PICK h \in Nat, m \in 0 .. size - 1, l \in 0 .. unit - 1 :
         /\ b = (h * size + m) * unit + l
         /\ SetTo(b, unit, size, bits) = (h * size + bits) * unit + l
         /\ At(SetTo(b, unit, size, bits), unit, size) = bits
  <2>1. b \in Nat
    OBVIOUS
  <2>2. Parted(b, unit, size, bits)
    BY <2>1, ByteParts
  <2> QED BY <2>2 DEF Parted
<1>3. PICK k \in Nat \ {0} : unit2 = k * (size * unit)
  BY DEF Divides
<1>4. PICK p \in Nat \ {0} : p = size * unit
  OBVIOUS
<1>5. PICK g \in Nat, e \in 0 .. k - 1 : h = g * k + e
  BY Divided
<1>6. ASSUME NEW x \in 0 .. size - 1
      PROVE  ((h * size + x) * unit + l) \div unit2 = g
  <2>1. x * unit + l \in 0 .. p - 1
    <3>1. x * unit <= (size - 1) * unit /\ x * unit \in Nat
      OBVIOUS
    <3>2. (size - 1) * unit = p - unit
      BY <1>4
    <3> QED BY <3>1, <3>2, <1>4
  <2>2. PICK r \in 0 .. p - 1 : r = x * unit + l
    BY <2>1
  <2>3. (h * size + x) * unit + l = h * p + r
    BY <1>4, <2>2
  <2>4. h * p = g * (k * p) + e * p
    BY <1>4, <1>5
  <2>5. e * p + r \in 0 .. k * p - 1
    <3>1. e * p <= (k - 1) * p /\ e * p \in Nat
      BY <1>4, <1>5
    <3>2. (k - 1) * p = k * p - p
      BY <1>4
    <3> QED BY <3>1, <3>2, <1>4, <2>2
  <2>6. PICK s \in 0 .. unit2 - 1 : s = e * p + r
    BY <1>3, <1>4, <2>5
  <2>7. (h * size + x) * unit + l = g * unit2 + s
    BY <1>3, <1>4, <2>3, <2>4, <2>6
  <2> QED BY <2>7, Quotient
<1> QED BY <1>1, <1>6 DEF At

\* and what is below it.
LEMMA LeavesLower ==
    ASSUME NEW unit \in Nat \ {0}, NEW size \in Nat \ {0}, NEW unit2 \in Nat \ {0},
           NEW size2 \in Nat \ {0}, Divides(size2 * unit2, unit)
    PROVE  Leaves(unit, size, unit2, size2)
<1> SUFFICES ASSUME NEW b \in 0 .. 255, NEW bits \in 0 .. size - 1
             PROVE  At(SetTo(b, unit, size, bits), unit2, size2) = At(b, unit2, size2)
  BY DEF Leaves
<1>1. PICK h \in Nat, m \in 0 .. size - 1, l \in 0 .. unit - 1 :
         /\ b = (h * size + m) * unit + l
         /\ SetTo(b, unit, size, bits) = (h * size + bits) * unit + l
         /\ At(SetTo(b, unit, size, bits), unit, size) = bits
  <2>1. b \in Nat
    OBVIOUS
  <2>2. Parted(b, unit, size, bits)
    BY <2>1, ByteParts
  <2> QED BY <2>2 DEF Parted
<1>3. PICK k \in Nat \ {0} : unit = k * (size2 * unit2)
  BY DEF Divides
<1>4. PICK q \in Nat, r \in 0 .. unit2 - 1 : l = q * unit2 + r
  <2>1. l \in Nat
    OBVIOUS
  <2> QED BY <2>1, Divided
<1>5. PICK y \in Nat, z \in 0 .. size2 - 1 : q = y * size2 + z
  BY Divided
<1>6. ASSUME NEW x \in Nat
      PROVE  At(x * unit + l, unit2, size2) = z
  <2>1. x * unit = (x * k * size2) * unit2
    BY <1>3
  <2>2. PICK u \in Nat : u = x * k
    OBVIOUS
  <2>3. PICK w \in Nat : w = u * size2 + q
    OBVIOUS
  <2>4. x * unit + l = w * unit2 + r
    BY <1>4, <2>1, <2>2, <2>3
  <2>5. (x * unit + l) \div unit2 = w
    BY <2>4, Quotient
  <2>6. w = (u + y) * size2 + z
    BY <1>5, <2>3
  <2>7. w % size2 = z
    BY <2>6, Quotient
  <2> QED BY <2>5, <2>7 DEF At
<1>7. h * size + m \in Nat /\ h * size + bits \in Nat
  OBVIOUS
<1> QED BY <1>1, <1>6, <1>7

(***************************************************************************)
(* Packing and unpacking.                                                  *)
(***************************************************************************)

\* The bits of a field start at a unit, and are as many as give so many values.
Unit(layout) == 2^layout.shift
\* The values of a field.
Size(layout) == 2^layout.width

\* A field of a byte: a power of two of values, from a power of two on.
IsField(layout) ==
    /\ Unit(layout) \in Nat \ {0} /\ Size(layout) \in Nat \ {0}
    /\ Settable(Unit(layout), Size(layout))

\* Setting the one field leaves the other as it is.
Apart(layout, other) ==
    layout.register = other.register =>
        Leaves(Unit(layout), Size(layout), Unit(other), Size(other))

\* What is read is a value of the field.
LEMMA UnpackedType ==
    ASSUME NEW bytes, NEW layout, IsField(layout), bytes[layout.register] \in 0 .. 255
    PROVE  Unpacked(bytes, layout) \in 0 .. GreatestOf(layout)
<1>1. PICK size \in Nat \ {0} : size = Size(layout)
  BY DEF IsField
<1>2. PICK bits : bits = BitsAt(bytes, layout)
  OBVIOUS
<1>3. bits \in 0 .. size - 1
  <2>1. PICK unit \in Nat \ {0} : unit = Unit(layout)
    BY DEF IsField
  <2>2. PICK b \in 0 .. 255 : b = bytes[layout.register]
    OBVIOUS
  <2>3. bits = (b \div unit) % size
    BY <1>1, <1>2, <2>1, <2>2 DEF BitsAt, Unit, Size
  <2>4. b \div unit \in Int
    OBVIOUS
  <2> QED BY <2>3, <2>4
<1>4. \/ Unpacked(bytes, layout) = (size - 1 - bits) % size
      \/ Unpacked(bytes, layout) = bits % size
  BY <1>1, <1>2 DEF Unpacked, Turned, GreatestOf, Size
<1>5. (size - 1 - bits) % size \in 0 .. size - 1 /\ bits % size \in 0 .. size - 1
  BY <1>3
<1> QED BY <1>1, <1>4, <1>5 DEF GreatestOf, Size

\* What is read of a field, by its place.
LEMMA UnpackedByte ==
    ASSUME NEW bytes, NEW layout, IsField(layout), bytes[layout.register] \in 0 .. 255
    PROVE  Unpacked(bytes, layout) =
              IF layout.down
              THEN Size(layout) - 1 - At(bytes[layout.register], Unit(layout), Size(layout))
              ELSE At(bytes[layout.register], Unit(layout), Size(layout))
<1>1. PICK unit \in Nat \ {0} : unit = Unit(layout)
  BY DEF IsField
<1>2. PICK size \in Nat \ {0} : size = Size(layout)
  BY DEF IsField
<1>3. PICK b \in 0 .. 255 : b = bytes[layout.register]
  OBVIOUS
<1>4. PICK bits \in 0 .. size - 1 : bits = (b \div unit) % size
  <2>1. b \div unit \in Int
    OBVIOUS
  <2> QED BY <2>1
<1>5. At(bytes[layout.register], Unit(layout), Size(layout)) = bits
  BY <1>1, <1>2, <1>3, <1>4 DEF At
<1>6. BitsAt(bytes, layout) = bits
  BY <1>5 DEF BitsAt, At, Unit, Size
<1>7. \A x \in 0 .. size - 1 : x % size = x
  OBVIOUS
<1>8. size - 1 - bits \in 0 .. size - 1
  OBVIOUS
<1>9. CASE layout.down
  <2>1. Unpacked(bytes, layout) = (size - 1 - bits) % size
    BY <1>2, <1>6, <1>9 DEF Unpacked, Turned, GreatestOf, Size
  <2> QED BY <1>2, <1>5, <1>7, <1>8, <1>9, <2>1
<1>10. CASE ~layout.down
  <2>1. Unpacked(bytes, layout) = bits % size
    BY <1>2, <1>6, <1>10 DEF Unpacked, Turned, Size
  <2> QED BY <1>5, <1>7, <1>10, <2>1
<1> QED BY <1>9, <1>10

\* A field counted down and down again is as it was.
LEMMA TurnedTwice ==
    ASSUME NEW layout, IsField(layout), NEW value \in 0 .. GreatestOf(layout)
    PROVE  /\ Turned(layout, value) \in 0 .. Size(layout) - 1
           /\ Turned(layout, Turned(layout, value)) = value
<1>1. PICK size \in Nat \ {0} : size = Size(layout)
  BY DEF IsField
<1>2. value \in 0 .. size - 1
  BY <1>1 DEF GreatestOf, Size
<1>3. \A x \in 0 .. size - 1 : x % size = x
  OBVIOUS
<1>4. CASE layout.down
  <2>1. PICK x \in 0 .. size - 1 : x = size - 1 - value
    BY <1>2
  <2>2. Turned(layout, value) = x
    BY <1>1, <1>3, <1>4, <2>1 DEF Turned, GreatestOf, Size
  <2>3. size - 1 - x = value
    BY <1>2, <2>1
  <2>4. Turned(layout, x) = value
    BY <1>1, <1>2, <1>3, <1>4, <2>3 DEF Turned, GreatestOf, Size
  <2> QED BY <1>1, <2>2, <2>4
<1>5. CASE ~layout.down
  <2>1. Turned(layout, value) = value
    BY <1>1, <1>2, <1>3, <1>5 DEF Turned, Size
  <2> QED BY <1>1, <1>2, <2>1
<1> QED BY <1>4, <1>5

\* What set() does to the bytes.
LEMMA PackedByte ==
    ASSUME NEW bytes, NEW layout, layout.register \in DOMAIN bytes, NEW value
    PROVE  /\ DOMAIN Packed(bytes, layout, value) = DOMAIN bytes
           /\ \A r \in DOMAIN bytes \ {layout.register} :
                 Packed(bytes, layout, value)[r] = bytes[r]
           /\ Packed(bytes, layout, value)[layout.register] =
                 SetTo(bytes[layout.register], Unit(layout), Size(layout), Turned(layout,
                       value))
           /\ Packed(bytes, layout, value) =
                 [bytes EXCEPT ![layout.register] = Packed(bytes, layout,
                       value)[layout.register]]
<1>1. PICK n : n = bytes[layout.register]
                    + (Turned(layout, value) - BitsAt(bytes, layout)) * 2^layout.shift
  OBVIOUS
<1>2. Packed(bytes, layout, value) = [bytes EXCEPT ![layout.register] = n]
  BY ONLY <1>1 DEF Packed
<1>3. n = SetTo(bytes[layout.register], Unit(layout), Size(layout), Turned(layout, value))
  BY <1>1 DEF SetTo, At, Unit, Size, BitsAt
<1> QED BY <1>2, <1>3

\* set() sets the field, in eight bits.
LEMMA PackedSets ==
    ASSUME NEW bytes, NEW layout, IsField(layout), layout.register \in DOMAIN bytes,
           bytes[layout.register] \in 0 .. 255, NEW value \in 0 .. GreatestOf(layout)
    PROVE  /\ Packed(bytes, layout, value)[layout.register] \in 0 .. 255
           /\ Unpacked(Packed(bytes, layout, value), layout) = value
<1>1. PICK byte \in 0 .. 255 : byte = bytes[layout.register]
  OBVIOUS
<1>2. PICK bits \in 0 .. Size(layout) - 1 : bits = Turned(layout, value)
  BY TurnedTwice
<1>3. PICK new : new = SetTo(byte, Unit(layout), Size(layout), bits)
  OBVIOUS
<1>4. Packed(bytes, layout, value)[layout.register] = new
  BY <1>1, <1>2, <1>3, PackedByte
<1>5. new \in 0 .. 255 /\ At(new, Unit(layout), Size(layout)) = bits
  BY <1>3 DEF IsField, Settable
<1>6. Unpacked(Packed(bytes, layout, value), layout) = Turned(layout, bits)
  BY <1>4, <1>5 DEF Unpacked, BitsAt, At, Unit, Size
<1>7. Turned(layout, bits) = value
  BY <1>2, TurnedTwice
<1> QED BY <1>4, <1>5, <1>6, <1>7

\* And leaves the fields that are apart from it.
LEMMA PackedLeaves ==
    ASSUME NEW bytes, NEW layout, IsField(layout), layout.register \in DOMAIN bytes,
           bytes[layout.register] \in 0 .. 255, NEW value \in 0 .. GreatestOf(layout),
           NEW other, other.register \in DOMAIN bytes, Apart(layout, other)
    PROVE  Unpacked(Packed(bytes, layout, value), other) = Unpacked(bytes, other)
<1>1. PICK new : new = Packed(bytes, layout, value)
  OBVIOUS
<1>2. CASE other.register = layout.register
  <2>1. PICK byte \in 0 .. 255 : byte = bytes[layout.register]
    OBVIOUS
  <2>2. PICK bits \in 0 .. Size(layout) - 1 : bits = Turned(layout, value)
    BY TurnedTwice
  <2>3. new[layout.register] = SetTo(byte, Unit(layout), Size(layout), bits)
    BY <1>1, <2>1, <2>2, PackedByte
  <2>4. At(new[layout.register], Unit(other), Size(other)) = At(byte, Unit(other), Size(other))
    BY <1>2, <2>3 DEF Apart, Leaves
  <2>5. BitsAt(new, other) = BitsAt(bytes, other)
    BY <1>2, <2>1, <2>4 DEF BitsAt, At, Unit, Size
  <2> QED BY <1>1, <2>5 DEF Unpacked
<1>3. CASE other.register # layout.register
  <2>1. new[other.register] = bytes[other.register]
    BY <1>1, <1>3, PackedByte
  <2> QED BY <1>1, <2>1 DEF Unpacked, BitsAt
<1> QED BY <1>2, <1>3

(***************************************************************************)
(* The fields of a byte that there are.                                    *)
(***************************************************************************)

\* The powers of two of a byte.
LEMMA Powers ==
    /\ 2^0 = 1 /\ 2^1 = 2 /\ 2^2 = 4 /\ 2^3 = 8 /\ 2^4 = 16
    /\ 2^5 = 32 /\ 2^6 = 64 /\ 2^7 = 128
OBVIOUS

\* The units and the sizes there are are among them,
PowersOf2 == {1, 2, 4, 8, 16, 32, 64, 128, 256}

\* each of which divides the greater ones.
LEMMA PowersDivide == \A a, b \in PowersOf2 : a <= b => Divides(a, b)
<1> SUFFICES ASSUME NEW a \in PowersOf2, NEW b \in PowersOf2, a <= b PROVE Divides(a, b)
  OBVIOUS
<1>1. CASE b = 1
  BY <1>1 DEF Divides, PowersOf2
<1>2. CASE b = 2
  BY <1>2 DEF Divides, PowersOf2
<1>3. CASE b = 4
  BY <1>3 DEF Divides, PowersOf2
<1>4. CASE b = 8
  BY <1>4 DEF Divides, PowersOf2
<1>5. CASE b = 16
  BY <1>5 DEF Divides, PowersOf2
<1>6. CASE b = 32
  BY <1>6 DEF Divides, PowersOf2
<1>7. CASE b = 64
  BY <1>7 DEF Divides, PowersOf2
<1>8. CASE b = 128
  BY <1>8 DEF Divides, PowersOf2
<1>9. CASE b = 256
  BY <1>9 DEF Divides, PowersOf2
<1> QED BY <1>1, <1>2, <1>3, <1>4, <1>5, <1>6, <1>7, <1>8, <1>9 DEF PowersOf2

\* The bits of the fields of either chip, and those that share a byte.
LEMMA AllSettable ==
    /\ Settable(1, 2) /\ Settable(1, 8) /\ Settable(1, 16) /\ Settable(1, 32)
    /\ Settable(1, 64) /\ Settable(1, 128) /\ Settable(2, 2) /\ Settable(2, 8)
    /\ Settable(4, 2) /\ Settable(8, 2) /\ Settable(8, 8) /\ Settable(16, 2)
    /\ Settable(16, 4) /\ Settable(16, 8) /\ Settable(16, 16) /\ Settable(32, 2)
    /\ Settable(64, 2) /\ Settable(64, 4) /\ Settable(128, 2)
<1>1. Settable(1, 2)
  BY FitsIsSettable, PowersDivide DEF PowersOf2
<1>2. Settable(1, 8)
  BY FitsIsSettable, PowersDivide DEF PowersOf2
<1>3. Settable(1, 16)
  BY FitsIsSettable, PowersDivide DEF PowersOf2
<1>4. Settable(1, 32)
  BY FitsIsSettable, PowersDivide DEF PowersOf2
<1>5. Settable(1, 64)
  BY FitsIsSettable, PowersDivide DEF PowersOf2
<1>6. Settable(1, 128)
  BY FitsIsSettable, PowersDivide DEF PowersOf2
<1>7. Settable(2, 2)
  BY FitsIsSettable, PowersDivide DEF PowersOf2
<1>8. Settable(2, 8)
  BY FitsIsSettable, PowersDivide DEF PowersOf2
<1>9. Settable(4, 2)
  BY FitsIsSettable, PowersDivide DEF PowersOf2
<1>10. Settable(8, 2)
  BY FitsIsSettable, PowersDivide DEF PowersOf2
<1>11. Settable(8, 8)
  BY FitsIsSettable, PowersDivide DEF PowersOf2
<1>12. Settable(16, 2)
  BY FitsIsSettable, PowersDivide DEF PowersOf2
<1>13. Settable(16, 4)
  BY FitsIsSettable, PowersDivide DEF PowersOf2
<1>14. Settable(16, 8)
  BY FitsIsSettable, PowersDivide DEF PowersOf2
<1>15. Settable(16, 16)
  BY FitsIsSettable, PowersDivide DEF PowersOf2
<1>16. Settable(32, 2)
  BY FitsIsSettable, PowersDivide DEF PowersOf2
<1>17. Settable(64, 2)
  BY FitsIsSettable, PowersDivide DEF PowersOf2
<1>18. Settable(64, 4)
  BY FitsIsSettable, PowersDivide DEF PowersOf2
<1>19. Settable(128, 2)
  BY FitsIsSettable, PowersDivide DEF PowersOf2
<1> QED BY <1>1, <1>2, <1>3, <1>4, <1>5, <1>6, <1>7, <1>8, <1>9, <1>10, <1>11, <1>12, <1>13,
           <1>14, <1>15, <1>16, <1>17, <1>18, <1>19

\* They leave each other as they are.
LEMMA AllLeave ==
    /\ Leaves(1, 2, 2, 2) /\ Leaves(1, 2, 2, 8) /\ Leaves(1, 8, 8, 2)
    /\ Leaves(1, 8, 8, 8) /\ Leaves(1, 8, 16, 4) /\ Leaves(1, 16, 16, 2)
    /\ Leaves(1, 16, 16, 8) /\ Leaves(1, 16, 16, 16) /\ Leaves(1, 16, 32, 2)
    /\ Leaves(1, 16, 64, 2) /\ Leaves(1, 16, 128, 2) /\ Leaves(1, 32, 64, 4)
    /\ Leaves(1, 32, 128, 2) /\ Leaves(1, 64, 64, 4) /\ Leaves(2, 2, 1, 2)
    /\ Leaves(2, 8, 1, 2) /\ Leaves(4, 2, 8, 8) /\ Leaves(4, 2, 64, 2)
    /\ Leaves(8, 2, 1, 8) /\ Leaves(8, 8, 1, 8) /\ Leaves(8, 8, 4, 2)
    /\ Leaves(8, 8, 64, 2) /\ Leaves(16, 2, 1, 16) /\ Leaves(16, 2, 32, 2)
    /\ Leaves(16, 2, 64, 2) /\ Leaves(16, 2, 128, 2) /\ Leaves(16, 4, 1, 8)
    /\ Leaves(16, 8, 1, 16) /\ Leaves(16, 16, 1, 16) /\ Leaves(32, 2, 1, 16)
    /\ Leaves(32, 2, 16, 2) /\ Leaves(32, 2, 64, 2) /\ Leaves(32, 2, 128, 2)
    /\ Leaves(64, 2, 1, 16) /\ Leaves(64, 2, 4, 2) /\ Leaves(64, 2, 8, 8)
    /\ Leaves(64, 2, 16, 2) /\ Leaves(64, 2, 32, 2) /\ Leaves(64, 2, 128, 2)
    /\ Leaves(64, 4, 1, 32) /\ Leaves(64, 4, 1, 64) /\ Leaves(128, 2, 1, 16)
    /\ Leaves(128, 2, 1, 32) /\ Leaves(128, 2, 16, 2) /\ Leaves(128, 2, 32, 2)
    /\ Leaves(128, 2, 64, 2)
<1>1. Leaves(1, 2, 2, 2)
  BY LeavesHigher, PowersDivide DEF PowersOf2
<1>2. Leaves(1, 2, 2, 8)
  BY LeavesHigher, PowersDivide DEF PowersOf2
<1>3. Leaves(1, 8, 8, 2)
  BY LeavesHigher, PowersDivide DEF PowersOf2
<1>4. Leaves(1, 8, 8, 8)
  BY LeavesHigher, PowersDivide DEF PowersOf2
<1>5. Leaves(1, 8, 16, 4)
  BY LeavesHigher, PowersDivide DEF PowersOf2
<1>6. Leaves(1, 16, 16, 2)
  BY LeavesHigher, PowersDivide DEF PowersOf2
<1>7. Leaves(1, 16, 16, 8)
  BY LeavesHigher, PowersDivide DEF PowersOf2
<1>8. Leaves(1, 16, 16, 16)
  BY LeavesHigher, PowersDivide DEF PowersOf2
<1>9. Leaves(1, 16, 32, 2)
  BY LeavesHigher, PowersDivide DEF PowersOf2
<1>10. Leaves(1, 16, 64, 2)
  BY LeavesHigher, PowersDivide DEF PowersOf2
<1>11. Leaves(1, 16, 128, 2)
  BY LeavesHigher, PowersDivide DEF PowersOf2
<1>12. Leaves(1, 32, 64, 4)
  BY LeavesHigher, PowersDivide DEF PowersOf2
<1>13. Leaves(1, 32, 128, 2)
  BY LeavesHigher, PowersDivide DEF PowersOf2
<1>14. Leaves(1, 64, 64, 4)
  BY LeavesHigher, PowersDivide DEF PowersOf2
<1>15. Leaves(2, 2, 1, 2)
  BY LeavesLower, PowersDivide DEF PowersOf2
<1>16. Leaves(2, 8, 1, 2)
  BY LeavesLower, PowersDivide DEF PowersOf2
<1>17. Leaves(4, 2, 8, 8)
  BY LeavesHigher, PowersDivide DEF PowersOf2
<1>18. Leaves(4, 2, 64, 2)
  BY LeavesHigher, PowersDivide DEF PowersOf2
<1>19. Leaves(8, 2, 1, 8)
  BY LeavesLower, PowersDivide DEF PowersOf2
<1>20. Leaves(8, 8, 1, 8)
  BY LeavesLower, PowersDivide DEF PowersOf2
<1>21. Leaves(8, 8, 4, 2)
  BY LeavesLower, PowersDivide DEF PowersOf2
<1>22. Leaves(8, 8, 64, 2)
  BY LeavesHigher, PowersDivide DEF PowersOf2
<1>23. Leaves(16, 2, 1, 16)
  BY LeavesLower, PowersDivide DEF PowersOf2
<1>24. Leaves(16, 2, 32, 2)
  BY LeavesHigher, PowersDivide DEF PowersOf2
<1>25. Leaves(16, 2, 64, 2)
  BY LeavesHigher, PowersDivide DEF PowersOf2
<1>26. Leaves(16, 2, 128, 2)
  BY LeavesHigher, PowersDivide DEF PowersOf2
<1>27. Leaves(16, 4, 1, 8)
  BY LeavesLower, PowersDivide DEF PowersOf2
<1>28. Leaves(16, 8, 1, 16)
  BY LeavesLower, PowersDivide DEF PowersOf2
<1>29. Leaves(16, 16, 1, 16)
  BY LeavesLower, PowersDivide DEF PowersOf2
<1>30. Leaves(32, 2, 1, 16)
  BY LeavesLower, PowersDivide DEF PowersOf2
<1>31. Leaves(32, 2, 16, 2)
  BY LeavesLower, PowersDivide DEF PowersOf2
<1>32. Leaves(32, 2, 64, 2)
  BY LeavesHigher, PowersDivide DEF PowersOf2
<1>33. Leaves(32, 2, 128, 2)
  BY LeavesHigher, PowersDivide DEF PowersOf2
<1>34. Leaves(64, 2, 1, 16)
  BY LeavesLower, PowersDivide DEF PowersOf2
<1>35. Leaves(64, 2, 4, 2)
  BY LeavesLower, PowersDivide DEF PowersOf2
<1>36. Leaves(64, 2, 8, 8)
  BY LeavesLower, PowersDivide DEF PowersOf2
<1>37. Leaves(64, 2, 16, 2)
  BY LeavesLower, PowersDivide DEF PowersOf2
<1>38. Leaves(64, 2, 32, 2)
  BY LeavesLower, PowersDivide DEF PowersOf2
<1>39. Leaves(64, 2, 128, 2)
  BY LeavesHigher, PowersDivide DEF PowersOf2
<1>40. Leaves(64, 4, 1, 32)
  BY LeavesLower, PowersDivide DEF PowersOf2
<1>41. Leaves(64, 4, 1, 64)
  BY LeavesLower, PowersDivide DEF PowersOf2
<1>42. Leaves(128, 2, 1, 16)
  BY LeavesLower, PowersDivide DEF PowersOf2
<1>43. Leaves(128, 2, 1, 32)
  BY LeavesLower, PowersDivide DEF PowersOf2
<1>44. Leaves(128, 2, 16, 2)
  BY LeavesLower, PowersDivide DEF PowersOf2
<1>45. Leaves(128, 2, 32, 2)
  BY LeavesLower, PowersDivide DEF PowersOf2
<1>46. Leaves(128, 2, 64, 2)
  BY LeavesLower, PowersDivide DEF PowersOf2
<1> QED BY <1>1, <1>2, <1>3, <1>4, <1>5, <1>6, <1>7, <1>8, <1>9, <1>10, <1>11, <1>12, <1>13,
           <1>14, <1>15, <1>16, <1>17, <1>18, <1>19, <1>20, <1>21, <1>22, <1>23, <1>24, <1>25,
                 <1>26, <1>27, <1>28, <1>29, <1>30, <1>31, <1>32, <1>33, <1>34, <1>35, <1>36,
                       <1>37, <1>38, <1>39, <1>40, <1>41, <1>42, <1>43, <1>44, <1>45, <1>46

(***************************************************************************)
(* The fields of an OPL3 instrument.                                       *)
(***************************************************************************)

\* Where a field is.
Is(f, register, unit, size, down) ==
    /\ Layout(f).register = register /\ Layout(f).down = down
    /\ Unit(Layout(f)) = unit /\ Size(Layout(f)) = size

\* Where the fields are.
LEMMA FieldTable ==
    /\ Is("blank", "flags", 4, 2, FALSE)
    /\ Is("rhythm_mode", "flags", 8, 8, FALSE)
    /\ Is("fixed_note", "flags", 64, 2, FALSE)
    /\ Is("con", "fb_conn", 1, 2, FALSE)
    /\ Is("fb", "fb_conn", 2, 8, FALSE)
    /\ Is("attack", "atdec", 16, 16, TRUE)
    /\ Is("decay", "atdec", 1, 16, TRUE)
    /\ Is("sustain", "susrel", 16, 16, TRUE)
    /\ Is("release", "susrel", 1, 16, TRUE)
    /\ Is("level", "ksl_l", 1, 64, TRUE)
    /\ Is("ksl", "ksl_l", 64, 4, FALSE)
    /\ Is("fmul", "avekf", 1, 16, FALSE)
    /\ Is("trem", "avekf", 128, 2, FALSE)
    /\ Is("vib", "avekf", 64, 2, FALSE)
    /\ Is("sus", "avekf", 32, 2, FALSE)
    /\ Is("env", "avekf", 16, 2, FALSE)
    /\ Is("wave", "wave", 1, 8, FALSE)
<1>1. Is("blank", "flags", 4, 2, FALSE)
  BY Powers DEF Is, Layout, Plain, Down, Unit, Size
<1>2. Is("rhythm_mode", "flags", 8, 8, FALSE)
  BY Powers DEF Is, Layout, Plain, Down, Unit, Size
<1>3. Is("fixed_note", "flags", 64, 2, FALSE)
  BY Powers DEF Is, Layout, Plain, Down, Unit, Size
<1>4. Is("con", "fb_conn", 1, 2, FALSE)
  BY Powers DEF Is, Layout, Plain, Down, Unit, Size
<1>5. Is("fb", "fb_conn", 2, 8, FALSE)
  BY Powers DEF Is, Layout, Plain, Down, Unit, Size
<1>6. Is("attack", "atdec", 16, 16, TRUE)
  BY Powers DEF Is, Layout, Plain, Down, Unit, Size
<1>7. Is("decay", "atdec", 1, 16, TRUE)
  BY Powers DEF Is, Layout, Plain, Down, Unit, Size
<1>8. Is("sustain", "susrel", 16, 16, TRUE)
  BY Powers DEF Is, Layout, Plain, Down, Unit, Size
<1>9. Is("release", "susrel", 1, 16, TRUE)
  BY Powers DEF Is, Layout, Plain, Down, Unit, Size
<1>10. Is("level", "ksl_l", 1, 64, TRUE)
  BY Powers DEF Is, Layout, Plain, Down, Unit, Size
<1>11. Is("ksl", "ksl_l", 64, 4, FALSE)
  BY Powers DEF Is, Layout, Plain, Down, Unit, Size
<1>12. Is("fmul", "avekf", 1, 16, FALSE)
  BY Powers DEF Is, Layout, Plain, Down, Unit, Size
<1>13. Is("trem", "avekf", 128, 2, FALSE)
  BY Powers DEF Is, Layout, Plain, Down, Unit, Size
<1>14. Is("vib", "avekf", 64, 2, FALSE)
  BY Powers DEF Is, Layout, Plain, Down, Unit, Size
<1>15. Is("sus", "avekf", 32, 2, FALSE)
  BY Powers DEF Is, Layout, Plain, Down, Unit, Size
<1>16. Is("env", "avekf", 16, 2, FALSE)
  BY Powers DEF Is, Layout, Plain, Down, Unit, Size
<1>17. Is("wave", "wave", 1, 8, FALSE)
  BY Powers DEF Is, Layout, Plain, Down, Unit, Size
<1> QED BY <1>1, <1>2, <1>3, <1>4, <1>5, <1>6, <1>7, <1>8, <1>9, <1>10, <1>11, <1>12, <1>13,
           <1>14, <1>15, <1>16, <1>17

\* Each is one of a byte of a register.
LEMMA EveryField ==
    \A f \in AllFields : IsField(Layout(f)) /\ Layout(f).register \in RegisterNames
<1> SUFFICES ASSUME NEW f \in AllFields
             PROVE  IsField(Layout(f)) /\ Layout(f).register \in RegisterNames
  OBVIOUS
<1>1. CASE f = "blank"
  BY <1>1, FieldTable, AllSettable DEF Is, IsField, RegisterNames
<1>2. CASE f = "rhythm_mode"
  BY <1>2, FieldTable, AllSettable DEF Is, IsField, RegisterNames
<1>3. CASE f = "fixed_note"
  BY <1>3, FieldTable, AllSettable DEF Is, IsField, RegisterNames
<1>4. CASE f = "con"
  BY <1>4, FieldTable, AllSettable DEF Is, IsField, RegisterNames
<1>5. CASE f = "fb"
  BY <1>5, FieldTable, AllSettable DEF Is, IsField, RegisterNames
<1>6. CASE f = "attack"
  BY <1>6, FieldTable, AllSettable DEF Is, IsField, RegisterNames
<1>7. CASE f = "decay"
  BY <1>7, FieldTable, AllSettable DEF Is, IsField, RegisterNames
<1>8. CASE f = "sustain"
  BY <1>8, FieldTable, AllSettable DEF Is, IsField, RegisterNames
<1>9. CASE f = "release"
  BY <1>9, FieldTable, AllSettable DEF Is, IsField, RegisterNames
<1>10. CASE f = "level"
  BY <1>10, FieldTable, AllSettable DEF Is, IsField, RegisterNames
<1>11. CASE f = "ksl"
  BY <1>11, FieldTable, AllSettable DEF Is, IsField, RegisterNames
<1>12. CASE f = "fmul"
  BY <1>12, FieldTable, AllSettable DEF Is, IsField, RegisterNames
<1>13. CASE f = "trem"
  BY <1>13, FieldTable, AllSettable DEF Is, IsField, RegisterNames
<1>14. CASE f = "vib"
  BY <1>14, FieldTable, AllSettable DEF Is, IsField, RegisterNames
<1>15. CASE f = "sus"
  BY <1>15, FieldTable, AllSettable DEF Is, IsField, RegisterNames
<1>16. CASE f = "env"
  BY <1>16, FieldTable, AllSettable DEF Is, IsField, RegisterNames
<1>17. CASE f = "wave"
  BY <1>17, FieldTable, AllSettable DEF Is, IsField, RegisterNames
<1> QED BY <1>1, <1>2, <1>3, <1>4, <1>5, <1>6, <1>7, <1>8, <1>9, <1>10, <1>11, <1>12, <1>13,
           <1>14, <1>15, <1>16, <1>17 DEF AllFields, KnobFields, OtherFields

\* The fields are apart from each other.
LEMMA FieldsApart == \A f, g \in AllFields : f # g => Apart(Layout(f), Layout(g))
<1> SUFFICES ASSUME NEW f \in AllFields, NEW g \in AllFields, f # g
             PROVE  Apart(Layout(f), Layout(g))
  OBVIOUS
<1>1. CASE f = "blank"
  BY <1>1, FieldTable, AllLeave DEF Is, Apart, AllFields, KnobFields, OtherFields
<1>2. CASE f = "rhythm_mode"
  BY <1>2, FieldTable, AllLeave DEF Is, Apart, AllFields, KnobFields, OtherFields
<1>3. CASE f = "fixed_note"
  BY <1>3, FieldTable, AllLeave DEF Is, Apart, AllFields, KnobFields, OtherFields
<1>4. CASE f = "con"
  BY <1>4, FieldTable, AllLeave DEF Is, Apart, AllFields, KnobFields, OtherFields
<1>5. CASE f = "fb"
  BY <1>5, FieldTable, AllLeave DEF Is, Apart, AllFields, KnobFields, OtherFields
<1>6. CASE f = "attack"
  BY <1>6, FieldTable, AllLeave DEF Is, Apart, AllFields, KnobFields, OtherFields
<1>7. CASE f = "decay"
  BY <1>7, FieldTable, AllLeave DEF Is, Apart, AllFields, KnobFields, OtherFields
<1>8. CASE f = "sustain"
  BY <1>8, FieldTable, AllLeave DEF Is, Apart, AllFields, KnobFields, OtherFields
<1>9. CASE f = "release"
  BY <1>9, FieldTable, AllLeave DEF Is, Apart, AllFields, KnobFields, OtherFields
<1>10. CASE f = "level"
  BY <1>10, FieldTable, AllLeave DEF Is, Apart, AllFields, KnobFields, OtherFields
<1>11. CASE f = "ksl"
  BY <1>11, FieldTable, AllLeave DEF Is, Apart, AllFields, KnobFields, OtherFields
<1>12. CASE f = "fmul"
  BY <1>12, FieldTable, AllLeave DEF Is, Apart, AllFields, KnobFields, OtherFields
<1>13. CASE f = "trem"
  BY <1>13, FieldTable, AllLeave DEF Is, Apart, AllFields, KnobFields, OtherFields
<1>14. CASE f = "vib"
  BY <1>14, FieldTable, AllLeave DEF Is, Apart, AllFields, KnobFields, OtherFields
<1>15. CASE f = "sus"
  BY <1>15, FieldTable, AllLeave DEF Is, Apart, AllFields, KnobFields, OtherFields
<1>16. CASE f = "env"
  BY <1>16, FieldTable, AllLeave DEF Is, Apart, AllFields, KnobFields, OtherFields
<1>17. CASE f = "wave"
  BY <1>17, FieldTable, AllLeave DEF Is, Apart, AllFields, KnobFields, OtherFields
<1> QED BY <1>1, <1>2, <1>3, <1>4, <1>5, <1>6, <1>7, <1>8, <1>9, <1>10, <1>11, <1>12, <1>13,
           <1>14, <1>15, <1>16, <1>17 DEF AllFields, KnobFields, OtherFields

(***************************************************************************)
(* The accessors, one after another.                                       *)
(***************************************************************************)

\* What was read is a value of its field.
LEMMA FieldType ==
    ASSUME NEW i, IsInstrument(i), NEW f \in AllFields
    PROVE  FieldOf(i, f) \in 0 .. Greatest(f)
BY EveryField, UnpackedType DEF IsInstrument, FieldOf, Greatest

\* An accessor sets its field and no other one.
LEMMA FieldIsSet ==
    ASSUME NEW i, IsInstrument(i), NEW f \in AllFields, NEW value \in 0 .. Greatest(f),
           NEW j, j = WithField(i, f, value)
    PROVE  /\ IsInstrument(j) /\ j.tune = i.tune /\ j.delay = i.delay
           /\ \A g \in AllFields : FieldOf(j, g) = IF g = f THEN value ELSE FieldOf(i, g)
<1>1. PICK layout : layout = Layout(f)
  OBVIOUS
<1>2. /\ IsField(layout) /\ layout.register \in RegisterNames
      /\ layout.register \in DOMAIN i /\ i[layout.register] \in 0 .. 255
      /\ value \in 0 .. GreatestOf(layout) /\ j = Packed(i, layout, value)
  BY <1>1, EveryField DEF IsInstrument, Greatest, WithField
<1>3. /\ DOMAIN j = DOMAIN i /\ j[layout.register] \in 0 .. 255
      /\ \A r \in DOMAIN i \ {layout.register} : j[r] = i[r]
      /\ Unpacked(j, layout) = value
  BY <1>2, PackedByte, PackedSets
<1>4. IsInstrument(j) /\ j.tune = i.tune /\ j.delay = i.delay
  <2>1. j.tune = i.tune /\ j.delay = i.delay
    BY <1>2, <1>3 DEF IsInstrument, RegisterNames
  <2>2. \A r \in RegisterNames : j[r] \in 0 .. 255
    BY <1>2, <1>3 DEF IsInstrument
  <2> QED BY <1>3, <2>1, <2>2 DEF IsInstrument
<1>5. ASSUME NEW g \in AllFields, g # f
      PROVE  FieldOf(j, g) = FieldOf(i, g)
  <2>1. PICK other : other = Layout(g)
    OBVIOUS
  <2>2. Apart(layout, other) /\ other.register \in DOMAIN i
    BY <1>1, <1>5, <2>1, FieldsApart, EveryField DEF IsInstrument
  <2>3. Unpacked(j, other) = Unpacked(i, other)
    BY <1>2, <2>2, PackedLeaves
  <2> QED BY <2>1, <2>3 DEF FieldOf
<1> QED BY <1>1, <1>3, <1>4, <1>5 DEF FieldOf

\* The instrument when those accessors were gone through that are done.
After(i, values, j, done) ==
    /\ IsInstrument(j) /\ j.tune = i.tune /\ j.delay = i.delay
    /\ \A g \in AllFields : FieldOf(j, g) = IF g \in done THEN values[g] ELSE FieldOf(i, g)

\* One more.
LEMMA OneMoreIsDone ==
    ASSUME NEW i, NEW values, NEW j, NEW done, After(i, values, j, done),
           NEW f \in AllFields, values[f] \in 0 .. Greatest(f),
           NEW k, k = Called(j, values, f)
    PROVE  After(i, values, k, done \cup {f})
<1>1. PICK value \in 0 .. Greatest(f) : value = values[f]
  OBVIOUS
<1>2. k = WithField(j, f, value)
  BY <1>1 DEF Called
<1>3. /\ IsInstrument(k) /\ k.tune = j.tune /\ k.delay = j.delay
      /\ \A g \in AllFields : FieldOf(k, g) = IF g = f THEN value ELSE FieldOf(j, g)
  BY <1>2, FieldIsSet DEF After
<1> QED BY <1>1, <1>3 DEF After

\* Those of the fields with a parameter: these are set, and nothing else is.
LEMMA KnobsAreSet ==
    ASSUME NEW i, IsInstrument(i), NEW values,
           \A f \in KnobFields : values[f] \in 0 .. Greatest(f)
    PROVE  After(i, values, WithKnobs(i, values), KnobFields)
<1>0. After(i, values, i, {})
  BY DEF After
<1>a. \A f \in KnobFields : f \in AllFields /\ values[f] \in 0 .. Greatest(f)
  BY DEF AllFields
<1>1. PICK j1 : j1 = Called(i, values, "blank")
  OBVIOUS
<1>2. After(i, values, j1,
             {"blank"})
  <2>1. After(i, values, j1,
               {} \cup {"blank"})
    BY <1>a, <1>1, <1>0, OneMoreIsDone DEF KnobFields
  <2> QED BY <2>1 DEF After
<1>3. PICK j2 : j2 = Called(j1, values, "con")
  OBVIOUS
<1>4. After(i, values, j2,
             {"blank", "con"})
  <2>1. After(i, values, j2,
               {"blank"} \cup {"con"})
    BY <1>a, <1>3, <1>2, OneMoreIsDone DEF KnobFields
  <2> QED BY <2>1 DEF After
<1>5. PICK j3 : j3 = Called(j2, values, "fb")
  OBVIOUS
<1>6. After(i, values, j3,
             {"blank", "con", "fb"})
  <2>1. After(i, values, j3,
               {"blank", "con"} \cup {"fb"})
    BY <1>a, <1>5, <1>4, OneMoreIsDone DEF KnobFields
  <2> QED BY <2>1 DEF After
<1>7. PICK j4 : j4 = Called(j3, values, "attack")
  OBVIOUS
<1>8. After(i, values, j4,
             {"blank", "con", "fb", "attack"})
  <2>1. After(i, values, j4,
               {"blank", "con", "fb"} \cup {"attack"})
    BY <1>a, <1>7, <1>6, OneMoreIsDone DEF KnobFields
  <2> QED BY <2>1 DEF After
<1>9. PICK j5 : j5 = Called(j4, values, "decay")
  OBVIOUS
<1>10. After(i, values, j5,
             {"blank", "con", "fb", "attack", "decay"})
  <2>1. After(i, values, j5,
               {"blank", "con", "fb", "attack"} \cup {"decay"})
    BY <1>a, <1>9, <1>8, OneMoreIsDone DEF KnobFields
  <2> QED BY <2>1 DEF After
<1>11. PICK j6 : j6 = Called(j5, values, "sustain")
  OBVIOUS
<1>12. After(i, values, j6,
             {"blank", "con", "fb", "attack", "decay", "sustain"})
  <2>1. After(i, values, j6,
               {"blank", "con", "fb", "attack", "decay"} \cup {"sustain"})
    BY <1>a, <1>11, <1>10, OneMoreIsDone DEF KnobFields
  <2> QED BY <2>1 DEF After
<1>13. PICK j7 : j7 = Called(j6, values, "release")
  OBVIOUS
<1>14. After(i, values, j7,
             {"blank", "con", "fb", "attack", "decay", "sustain", "release"})
  <2>1. After(i, values, j7,
               {"blank", "con", "fb", "attack", "decay", "sustain"} \cup {"release"})
    BY <1>a, <1>13, <1>12, OneMoreIsDone DEF KnobFields
  <2> QED BY <2>1 DEF After
<1>15. PICK j8 : j8 = Called(j7, values, "level")
  OBVIOUS
<1>16. After(i, values, j8,
             {"blank", "con", "fb", "attack", "decay", "sustain", "release", "level"})
  <2>1. After(i, values, j8,
               {"blank", "con", "fb", "attack", "decay", "sustain", "release"} \cup {"level"})
    BY <1>a, <1>15, <1>14, OneMoreIsDone DEF KnobFields
  <2> QED BY <2>1 DEF After
<1>17. PICK j9 : j9 = Called(j8, values, "ksl")
  OBVIOUS
<1>18. After(i, values, j9,
             {"blank", "con", "fb", "attack", "decay", "sustain", "release", "level",
              "ksl"})
  <2>1. After(i, values, j9,
               {"blank", "con", "fb", "attack", "decay", "sustain", "release", "level"}
                  \cup {"ksl"})
    BY <1>a, <1>17, <1>16, OneMoreIsDone DEF KnobFields
  <2> QED BY <2>1 DEF After
<1>19. PICK j10 : j10 = Called(j9, values, "fmul")
  OBVIOUS
<1>20. After(i, values, j10,
             {"blank", "con", "fb", "attack", "decay", "sustain", "release", "level",
              "ksl", "fmul"})
  <2>1. After(i, values, j10,
               {"blank", "con", "fb", "attack", "decay", "sustain", "release", "level",
                "ksl"} \cup {"fmul"})
    BY <1>a, <1>19, <1>18, OneMoreIsDone DEF KnobFields
  <2> QED BY <2>1 DEF After
<1>21. PICK j11 : j11 = Called(j10, values, "trem")
  OBVIOUS
<1>22. After(i, values, j11,
             {"blank", "con", "fb", "attack", "decay", "sustain", "release", "level",
              "ksl", "fmul", "trem"})
  <2>1. After(i, values, j11,
               {"blank", "con", "fb", "attack", "decay", "sustain", "release", "level",
                "ksl", "fmul"} \cup {"trem"})
    BY <1>a, <1>21, <1>20, OneMoreIsDone DEF KnobFields
  <2> QED BY <2>1 DEF After
<1>23. PICK j12 : j12 = Called(j11, values, "vib")
  OBVIOUS
<1>24. After(i, values, j12,
             {"blank", "con", "fb", "attack", "decay", "sustain", "release", "level",
              "ksl", "fmul", "trem", "vib"})
  <2>1. After(i, values, j12,
               {"blank", "con", "fb", "attack", "decay", "sustain", "release", "level",
                "ksl", "fmul", "trem"} \cup {"vib"})
    BY <1>a, <1>23, <1>22, OneMoreIsDone DEF KnobFields
  <2> QED BY <2>1 DEF After
<1>25. PICK j13 : j13 = Called(j12, values, "sus")
  OBVIOUS
<1>26. After(i, values, j13,
             {"blank", "con", "fb", "attack", "decay", "sustain", "release", "level",
              "ksl", "fmul", "trem", "vib", "sus"})
  <2>1. After(i, values, j13,
               {"blank", "con", "fb", "attack", "decay", "sustain", "release", "level",
                "ksl", "fmul", "trem", "vib"} \cup {"sus"})
    BY <1>a, <1>25, <1>24, OneMoreIsDone DEF KnobFields
  <2> QED BY <2>1 DEF After
<1>27. PICK j14 : j14 = Called(j13, values, "env")
  OBVIOUS
<1>28. After(i, values, j14,
             {"blank", "con", "fb", "attack", "decay", "sustain", "release", "level",
              "ksl", "fmul", "trem", "vib", "sus", "env"})
  <2>1. After(i, values, j14,
               {"blank", "con", "fb", "attack", "decay", "sustain", "release", "level",
                "ksl", "fmul", "trem", "vib", "sus"} \cup {"env"})
    BY <1>a, <1>27, <1>26, OneMoreIsDone DEF KnobFields
  <2> QED BY <2>1 DEF After
<1>29. PICK j15 : j15 = Called(j14, values, "wave")
  OBVIOUS
<1>30. After(i, values, j15,
             {"blank", "con", "fb", "attack", "decay", "sustain", "release", "level",
              "ksl", "fmul", "trem", "vib", "sus", "env", "wave"})
  <2>1. After(i, values, j15,
               {"blank", "con", "fb", "attack", "decay", "sustain", "release", "level",
                "ksl", "fmul", "trem", "vib", "sus", "env"} \cup {"wave"})
    BY <1>a, <1>29, <1>28, OneMoreIsDone DEF KnobFields
  <2> QED BY <2>1 DEF After
<1>31. WithKnobs(i, values) = j15
  BY <1>1, <1>3, <1>5, <1>7, <1>9, <1>11, <1>13, <1>15, <1>17, <1>19,
     <1>21, <1>23, <1>25, <1>27, <1>29 DEF WithKnobs
<1> QED BY <1>30, <1>31 DEF After, KnobFields

\* Those of all fields.
LEMMA FieldsAreSet ==
    ASSUME NEW i, IsInstrument(i), NEW values,
           \A f \in AllFields : values[f] \in 0 .. Greatest(f)
    PROVE  After(i, values, WithFields(i, values), AllFields)
<1>1. PICK j : j = WithKnobs(i, values)
  OBVIOUS
<1>2. After(i, values, j, KnobFields)
  BY <1>1, KnobsAreSet DEF AllFields
<1>3. "rhythm_mode" \in AllFields /\ "fixed_note" \in AllFields
  BY DEF AllFields, OtherFields
<1>4. PICK k : k = Called(j, values, "rhythm_mode")
  OBVIOUS
<1>5. After(i, values, k, KnobFields \cup {"rhythm_mode"})
  BY <1>2, <1>3, <1>4, OneMoreIsDone
<1>6. PICK l : l = Called(k, values, "fixed_note")
  OBVIOUS
<1>7. After(i, values, l, (KnobFields \cup {"rhythm_mode"}) \cup {"fixed_note"})
  BY <1>3, <1>5, <1>6, OneMoreIsDone
<1>8. WithFields(i, values) = l
  BY <1>1, <1>4, <1>6 DEF WithFields
<1> QED BY <1>7, <1>8 DEF After, AllFields, OtherFields

(***************************************************************************)
(* The conversions.                                                        *)
(***************************************************************************)

\* What holds a value of every parameter.
AreKnobs(p) ==
    /\ p \in [KnobFields \cup {"tune"} -> Int]
    /\ \A f \in KnobFields : p[f] \in 0 .. Greatest(f)
    /\ p["tune"] \in -127 .. 127

\* set_instrument gives the parameters values of theirs.
LEMMA ParametersType ==
    ASSUME NEW i, IsInstrument(i)
    PROVE  AreKnobs(Parameters(i))
<1>1. ASSUME NEW f \in KnobFields
      PROVE  /\ Parameters(i)[f] = FieldOf(i, f) /\ Parameters(i)[f] \in 0 .. Greatest(f)
             /\ Parameters(i)[f] \in Int
  <2>1. f # "tune" /\ f \in AllFields
    BY DEF KnobFields, AllFields
  <2>2. Parameters(i)[f] = FieldOf(i, f)
    BY <2>1 DEF Parameters
  <2>3. FieldOf(i, f) \in 0 .. Greatest(f)
    BY <2>1, FieldType
  <2>4. FieldOf(i, f) \in Int
    BY <2>3
  <2> QED BY <2>2, <2>3, <2>4
<1>2. Parameters(i)["tune"] = Within(-127, 127, i.tune)
  BY DEF Parameters
<1>3. Within(-127, 127, i.tune) \in -127 .. 127
  BY DEF Within, IsInstrument
<1>4. Parameters(i)["tune"] \in Int
  BY <1>2, <1>3
<1>5. Parameters(i) \in [KnobFields \cup {"tune"} -> Int]
  BY <1>1, <1>4 DEF Parameters
<1> QED BY <1>1, <1>2, <1>3, <1>5 DEF AreKnobs

\* The fields are in the bytes, and not in the numbers beside them.
LEMMA NumbersApart ==
    ASSUME NEW i, IsInstrument(i), NEW j, IsInstrument(j), \A r \in RegisterNames : j[r] = i[r],
           NEW f \in AllFields
    PROVE  FieldOf(j, f) = FieldOf(i, f)
<1>1. Layout(f).register \in RegisterNames
  BY EveryField
<1> QED BY <1>1 DEF FieldOf, Unpacked, BitsAt

\* instrument() makes an instrument of the parameters: set_instrument finds them in it
\* again, and there is the same as before where there is no parameter.
LEMMA ParametersAreApplied ==
    ASSUME NEW i, IsInstrument(i), NEW p, AreKnobs(p), NEW j, j = FromParameters(i, p)
    PROVE  IsInstrument(j) /\ KeptOf(j) = KeptOf(i) /\ Parameters(j) = p
<1>1. PICK k : k = WithKnobs(i, p)
  OBVIOUS
<1>2. After(i, p, k, KnobFields)
  BY <1>1, KnobsAreSet DEF AreKnobs
<1>3. j = [k EXCEPT !.tune = p.tune]
  BY <1>1 DEF FromParameters
<1>4. p.tune \in Int /\ -127 <= p.tune /\ p.tune <= 127
  BY DEF AreKnobs
<1>5. /\ DOMAIN j = DOMAIN k /\ j.tune = p.tune /\ j.delay = k.delay
      /\ \A r \in RegisterNames : j[r] = k[r]
  BY <1>2, <1>3 DEF After, IsInstrument, RegisterNames
<1>6. IsInstrument(j)
  BY <1>2, <1>4, <1>5 DEF After, IsInstrument
<1>7. \A f \in AllFields : FieldOf(j, f) = IF f \in KnobFields THEN p[f] ELSE FieldOf(i, f)
  BY <1>2, <1>5, <1>6, NumbersApart DEF After
<1>8. KeptOf(j) = KeptOf(i)
  <2>1. \A f \in OtherFields : FieldOf(j, f) = FieldOf(i, f)
    BY <1>7 DEF AllFields, OtherFields, KnobFields
  <2>2. FieldsOf(j, OtherFields) = FieldsOf(i, OtherFields)
    BY <2>1 DEF FieldsOf
  <2>3. j.delay = i.delay
    BY <1>2, <1>5 DEF After
  <2> QED BY <2>2, <2>3 DEF KeptOf
<1>9. Parameters(j) = p
  <2>1. ASSUME NEW f \in KnobFields PROVE Parameters(j)[f] = p[f]
    <3>1. f # "tune" /\ f \in AllFields
      BY DEF KnobFields, AllFields
    <3> QED BY <1>7, <3>1 DEF Parameters
  <2>2. Parameters(j)["tune"] = p["tune"]
    <3>1. Parameters(j)["tune"] = Within(-127, 127, p.tune)
      BY <1>5 DEF Parameters
    <3> QED BY <1>4, <3>1 DEF Within
  <2>3. /\ Parameters(j) \in [KnobFields \cup {"tune"} -> Int]
        /\ p \in [KnobFields \cup {"tune"} -> Int]
    BY <1>6, ParametersType DEF AreKnobs
  <2> QED BY <2>1, <2>2, <2>3
<1> QED BY <1>6, <1>8, <1>9

\* A project keeps what there is no parameter for: to_properties writes those fields too,
\* and from_properties finds all of them in their ranges.
LEMMA PropertiesKeep ==
    ASSUME NEW i, IsInstrument(i), NEW j, j = FromProperties(Properties(i))
    PROVE  IsInstrument(j) /\ KeptOf(j) = KeptOf(i)
<1>1. IsInstrument(NewInstrument)
  <2>1. /\ DOMAIN NewInstrument = RegisterNames \cup {"tune", "delay"}
        /\ NewInstrument.tune = 0 /\ NewInstrument.delay = 0
        /\ \A r \in RegisterNames : NewInstrument[r] = 0 \/ NewInstrument[r] = 4
    BY DEF NewInstrument
  <2> QED BY <2>1 DEF IsInstrument
<1>2. PICK values : values = FieldsOf(i, AllFields)
  OBVIOUS
<1>3. \A f \in AllFields : values[f] = FieldOf(i, f) /\ values[f] \in 0 .. Greatest(f)
  BY <1>2, FieldType DEF FieldsOf
<1>4. values.rhythm_mode \in 0 .. 7
  <2>1. Greatest("rhythm_mode") = 7
    BY FieldTable DEF Is, Size, Greatest, GreatestOf
  <2>2. "rhythm_mode" \in AllFields
    BY DEF AllFields, OtherFields
  <2> QED BY <1>3, <2>1, <2>2
<1>5. [values EXCEPT !.rhythm_mode = IF values.rhythm_mode \in 0 .. 7
                                     THEN values.rhythm_mode ELSE 0] = values
  BY <1>2, <1>4 DEF FieldsOf
<1>6. PICK k : k = WithFields(NewInstrument, values)
  OBVIOUS
<1>7. After(NewInstrument, values, k, AllFields)
  BY <1>1, <1>3, <1>6, FieldsAreSet
<1>8. Within(-32768, 32767, i.tune) = i.tune /\ Within(0, 65535, i.delay) = i.delay
  BY DEF IsInstrument, Within
<1>9. j = [k EXCEPT !.tune = i.tune, !.delay = i.delay]
  <2>1. PICK set : set = Properties(i)
    OBVIOUS
  <2>2. set.fields = values /\ set.tune = i.tune /\ set.delay = i.delay
    BY <1>2, <2>1 DEF Properties
  <2>3. PICK fields : fields = [set.fields EXCEPT !.rhythm_mode =
                                   IF set.fields.rhythm_mode \in 0 .. 7
                                   THEN set.fields.rhythm_mode ELSE 0]
    OBVIOUS
  <2>4. fields = values
    BY <1>5, <2>2, <2>3
  <2>5. PICK tune, delay : /\ tune = Within(-32768, 32767, set.tune)
                           /\ delay = Within(0, 65535, set.delay)
    OBVIOUS
  <2>6. FromProperties(set) = [WithFields(NewInstrument, fields) EXCEPT
                                  !.tune = tune, !.delay = delay]
    BY <2>3, <2>5 DEF FromProperties
  <2>7. tune = i.tune /\ delay = i.delay
    BY <1>8, <2>2, <2>5
  <2> QED BY <1>6, <2>1, <2>4, <2>6, <2>7
<1>10. /\ DOMAIN j = DOMAIN k /\ j.tune = i.tune /\ j.delay = i.delay
       /\ \A r \in RegisterNames : j[r] = k[r]
  BY <1>7, <1>9 DEF After, IsInstrument, RegisterNames
<1>11. IsInstrument(j)
  BY <1>7, <1>10 DEF After, IsInstrument
<1>12. \A f \in AllFields : FieldOf(j, f) = FieldOf(i, f)
  BY <1>3, <1>7, <1>10, <1>11, NumbersApart DEF After
<1>13. FieldsOf(j, OtherFields) = FieldsOf(i, OtherFields)
  BY <1>12 DEF FieldsOf, AllFields
<1> QED BY <1>10, <1>11, <1>13 DEF KeptOf

(***************************************************************************)
(* What the chip takes.                                                    *)
(***************************************************************************)

\* What is read of a field, by its place.
LEMMA ReadFrom ==
    ASSUME NEW i, IsInstrument(i), NEW f \in AllFields, NEW layout, layout = Layout(f)
    PROVE  FieldOf(i, f) = IF layout.down
                           THEN Size(layout) - 1
                                  - At(i[layout.register], Unit(layout), Size(layout))
                           ELSE At(i[layout.register], Unit(layout), Size(layout))
BY EveryField, UnpackedByte DEF IsInstrument, FieldOf

\* The fields as the chip has them.
LEMMA FieldsByBits ==
    ASSUME NEW i, IsInstrument(i)
    PROVE  /\ FieldOf(i, "attack") = 15 - (i.atdec \div 16)
           /\ FieldOf(i, "decay") = 15 - (i.atdec % 16)
           /\ FieldOf(i, "sustain") = 15 - (i.susrel \div 16)
           /\ FieldOf(i, "release") = 15 - (i.susrel % 16)
           /\ FieldOf(i, "level") = 63 - (i.ksl_l % 64)
           /\ FieldOf(i, "ksl") = i.ksl_l \div 64
           /\ FieldOf(i, "fmul") = i.avekf % 16
           /\ FieldOf(i, "env") = (i.avekf \div 16) % 2
           /\ FieldOf(i, "sus") = (i.avekf \div 32) % 2
           /\ FieldOf(i, "vib") = (i.avekf \div 64) % 2
           /\ FieldOf(i, "trem") = i.avekf \div 128
           /\ FieldOf(i, "wave") = i.wave % 8
           /\ FieldOf(i, "con") = i.fb_conn % 2
           /\ FieldOf(i, "fb") = (i.fb_conn \div 2) % 8
<1>0. /\ IsInstrument(i)
      /\ {"attack", "decay", "sustain", "release", "level", "ksl", "fmul", "env", "sus", "vib",
          "trem", "wave", "con", "fb"} \subseteq AllFields
  BY DEF AllFields, KnobFields
<1>1. /\ i["atdec"] \in 0 .. 255 /\ i["susrel"] \in 0 .. 255 /\ i["ksl_l"] \in 0 .. 255
      /\ i["avekf"] \in 0 .. 255 /\ i["wave"] \in 0 .. 255 /\ i["fb_conn"] \in 0 .. 255
  BY DEF IsInstrument, RegisterNames
<1>2. ASSUME NEW b \in 0 .. 255
      PROVE  /\ At(b, 16, 16) = b \div 16 /\ At(b, 1, 16) = b % 16
             /\ At(b, 1, 64) = b % 64 /\ At(b, 64, 4) = b \div 64
             /\ At(b, 16, 2) = (b \div 16) % 2 /\ At(b, 32, 2) = (b \div 32) % 2
             /\ At(b, 64, 2) = (b \div 64) % 2 /\ At(b, 128, 2) = b \div 128
             /\ At(b, 1, 8) = b % 8 /\ At(b, 1, 2) = b % 2 /\ At(b, 2, 8) = (b \div 2) % 8
  BY DEF At
<1>3. FieldOf(i, "attack") = 15 - (i.atdec \div 16)
  <2>1. FieldOf(i, "attack") = 15 - At(i["atdec"], 16, 16)
    BY <1>0, FieldTable, ReadFrom DEF Is
  <2> QED BY <1>1, <1>2, <2>1
<1>4. FieldOf(i, "decay") = 15 - (i.atdec % 16)
  <2>1. FieldOf(i, "decay") = 15 - At(i["atdec"], 1, 16)
    BY <1>0, FieldTable, ReadFrom DEF Is
  <2> QED BY <1>1, <1>2, <2>1
<1>5. FieldOf(i, "sustain") = 15 - (i.susrel \div 16)
  <2>1. FieldOf(i, "sustain") = 15 - At(i["susrel"], 16, 16)
    BY <1>0, FieldTable, ReadFrom DEF Is
  <2> QED BY <1>1, <1>2, <2>1
<1>6. FieldOf(i, "release") = 15 - (i.susrel % 16)
  <2>1. FieldOf(i, "release") = 15 - At(i["susrel"], 1, 16)
    BY <1>0, FieldTable, ReadFrom DEF Is
  <2> QED BY <1>1, <1>2, <2>1
<1>7. FieldOf(i, "level") = 63 - (i.ksl_l % 64)
  <2>1. FieldOf(i, "level") = 63 - At(i["ksl_l"], 1, 64)
    BY <1>0, FieldTable, ReadFrom DEF Is
  <2> QED BY <1>1, <1>2, <2>1
<1>8. FieldOf(i, "ksl") = i.ksl_l \div 64
  <2>1. FieldOf(i, "ksl") = At(i["ksl_l"], 64, 4)
    BY <1>0, FieldTable, ReadFrom DEF Is
  <2> QED BY <1>1, <1>2, <2>1
<1>9. FieldOf(i, "fmul") = i.avekf % 16
  <2>1. FieldOf(i, "fmul") = At(i["avekf"], 1, 16)
    BY <1>0, FieldTable, ReadFrom DEF Is
  <2> QED BY <1>1, <1>2, <2>1
<1>10. FieldOf(i, "env") = (i.avekf \div 16) % 2
  <2>1. FieldOf(i, "env") = At(i["avekf"], 16, 2)
    BY <1>0, FieldTable, ReadFrom DEF Is
  <2> QED BY <1>1, <1>2, <2>1
<1>11. FieldOf(i, "sus") = (i.avekf \div 32) % 2
  <2>1. FieldOf(i, "sus") = At(i["avekf"], 32, 2)
    BY <1>0, FieldTable, ReadFrom DEF Is
  <2> QED BY <1>1, <1>2, <2>1
<1>12. FieldOf(i, "vib") = (i.avekf \div 64) % 2
  <2>1. FieldOf(i, "vib") = At(i["avekf"], 64, 2)
    BY <1>0, FieldTable, ReadFrom DEF Is
  <2> QED BY <1>1, <1>2, <2>1
<1>13. FieldOf(i, "trem") = i.avekf \div 128
  <2>1. FieldOf(i, "trem") = At(i["avekf"], 128, 2)
    BY <1>0, FieldTable, ReadFrom DEF Is
  <2> QED BY <1>1, <1>2, <2>1
<1>14. FieldOf(i, "wave") = i.wave % 8
  <2>1. FieldOf(i, "wave") = At(i["wave"], 1, 8)
    BY <1>0, FieldTable, ReadFrom DEF Is
  <2> QED BY <1>1, <1>2, <2>1
<1>15. FieldOf(i, "con") = i.fb_conn % 2
  <2>1. FieldOf(i, "con") = At(i["fb_conn"], 1, 2)
    BY <1>0, FieldTable, ReadFrom DEF Is
  <2> QED BY <1>1, <1>2, <2>1
<1>16. FieldOf(i, "fb") = (i.fb_conn \div 2) % 8
  <2>1. FieldOf(i, "fb") = At(i["fb_conn"], 2, 8)
    BY <1>0, FieldTable, ReadFrom DEF Is
  <2> QED BY <1>1, <1>2, <2>1
<1> QED BY <1>3, <1>4, <1>5, <1>6, <1>7, <1>8, <1>9, <1>10, <1>11, <1>12, <1>13, <1>14, <1>15,
           <1>16

(***************************************************************************)
(* The steps of a part.                                                    *)
(***************************************************************************)

\* The values of every field can be 0 and 1.
LEMMA GreatestIsOne == \A f \in AllFields : Greatest(f) \in Nat \ {0}
<1> SUFFICES ASSUME NEW f \in AllFields PROVE Greatest(f) \in Nat \ {0}
  OBVIOUS
<1>1. Size(Layout(f)) \in {2, 4, 8, 16, 64}
  BY FieldTable DEF Is, AllFields, KnobFields, OtherFields
<1>2. Greatest(f) = Size(Layout(f)) - 1
  BY DEF Greatest, GreatestOf, Size
<1> QED BY <1>1, <1>2

\* A parameter is set to a value of it by the host, and by its control, which for the key
\* scaling swaps two of them.
LEMMA ChoicesAreValues ==
    ASSUME NEW p, AreKnobs(p), NEW f \in KnobFields \cup {"tune"}, NEW value \in KnobChoices(f)
    PROVE  AreKnobs([p EXCEPT ![f] = value]) /\ AreKnobs([p EXCEPT ![f] = FromControl(f,
          value)])
<1>1. ASSUME NEW x, f = "tune" => x \in -127 .. 127, f # "tune" => x \in 0 .. Greatest(f)
      PROVE  AreKnobs([p EXCEPT ![f] = x])
  <2>1. PICK q : q = [p EXCEPT ![f] = x]
    OBVIOUS
  <2>2. x \in Int
    <3>1. CASE f = "tune"
      BY <1>1, <3>1
    <3>2. CASE f # "tune"
      BY <1>1, <3>2
    <3> QED BY <3>1, <3>2
  <2>3. q \in [KnobFields \cup {"tune"} -> Int]
    BY <2>1, <2>2 DEF AreKnobs
  <2>4. \A g \in KnobFields : g # "tune"
    BY DEF KnobFields
  <2>5. \A g \in KnobFields : q[g] \in 0 .. Greatest(g)
    BY <1>1, <2>1, <2>4 DEF AreKnobs
  <2>6. q["tune"] \in -127 .. 127
    BY <1>1, <2>1 DEF AreKnobs
  <2> QED BY <2>1, <2>3, <2>5, <2>6 DEF AreKnobs
<1>2. CASE f = "tune"
  <2>1. value \in {-127, 127}
    BY <1>2 DEF KnobChoices
  <2>2. value \in -127 .. 127 /\ FromControl(f, value) = value
    BY <1>2, <2>1 DEF FromControl
  <2> QED BY <1>1, <1>2, <2>2
<1>3. CASE f # "tune"
  <2>1. f \in AllFields
    BY <1>3 DEF AllFields
  <2>2. PICK greatest \in Nat \ {0} : greatest = Greatest(f)
    BY <2>1, GreatestIsOne
  <2>3. value \in {0, 1, greatest}
    BY <1>3, <2>2 DEF KnobChoices
  <2>4. value \in 0 .. Greatest(f)
    BY <2>2, <2>3
  <2>5. FromControl(f, value) \in 0 .. Greatest(f)
    <3>1. CASE f = "ksl"
      <4>1. Greatest(f) = 3
        BY <3>1, FieldTable DEF Is, Size, Greatest, GreatestOf
      <4>2. SwapKsl(value) \in 0 .. 3
        BY <2>4, <4>1 DEF SwapKsl
      <4> QED BY <3>1, <4>1, <4>2 DEF FromControl
    <3>2. CASE f # "ksl"
      BY <2>4, <3>2 DEF FromControl
    <3> QED BY <3>1, <3>2
  <2> QED BY <1>1, <1>3, <2>4, <2>5
<1> QED BY <1>2, <1>3

\* The instrument of a part is one, its parameters have values, what there is no parameter
\* for is as it was loaded, and unless there are changes to apply the parameters and the
\* controls are those of the instrument.
InstrumentIInv ==
    /\ IsInstrument(instrument) /\ AreKnobs(knobs) /\ unapplied \in BOOLEAN
    /\ DOMAIN controls = KnobFields \ {"blank"}
    /\ kept = KeptOf(instrument)
    /\ ~unapplied => knobs = Parameters(instrument) /\ controls = Controls(instrument)

\* Of every file there is an instrument.
LEMMA FilesAreInstruments == \A file \in Files : IsInstrument(file)
BY InstrumentAssumption

\* When the instrument is shown, the parameters and the controls are those of it.
LEMMA ShownInstrument ==
    ASSUME NEW i, IsInstrument(i), Shows(i), kept' = KeptOf(i)
    PROVE  InstrumentIInv'
<1>1. AreKnobs(Parameters(i))
  BY ParametersType
<1>2. DOMAIN Controls(i) = KnobFields \ {"blank"}
  BY DEF Controls
<1>3. instrument' = i /\ knobs' = Parameters(i) /\ controls' = Controls(i) /\ unapplied' = FALSE
  BY DEF Shows
<1> QED BY <1>1, <1>2, <1>3 DEF InstrumentIInv

\* When a parameter is set, by its control or by the host, the changes are not applied.
LEMMA KnobTurned ==
    ASSUME InstrumentIInv, NEW f, NEW value, SetKnob(f, value),
           AreKnobs([knobs EXCEPT ![f] = value]), DOMAIN controls' = DOMAIN controls
    PROVE  InstrumentIInv'
BY DEF InstrumentIInv, SetKnob

\* The invariant holds at first and after every step.
LEMMA InstrumentInductive ==
    /\ InstrumentInit => InstrumentIInv
    /\ InstrumentIInv /\ [InstrumentNext]_instrumentVars => InstrumentIInv'
<1>1. ASSUME InstrumentInit PROVE InstrumentIInv
  <2>1. IsInstrument(instrument)
    BY <1>1, FilesAreInstruments DEF InstrumentInit, FromWopl
  <2>2. AreKnobs(Parameters(instrument)) /\ DOMAIN Controls(instrument) = KnobFields \ {"blank"}
    BY <2>1, ParametersType DEF Controls
  <2> QED BY <1>1, <2>1, <2>2 DEF InstrumentInit, InstrumentIInv
<1>2. ASSUME InstrumentIInv, NEW file \in Files, LoadInstrument(file)
      PROVE  InstrumentIInv'
  BY <1>2, FilesAreInstruments, ShownInstrument DEF LoadInstrument, FromWopl
<1>3. ASSUME InstrumentIInv, NEW f \in DOMAIN controls, NEW value \in KnobChoices(f),
             TurnControl(f, value)
      PROVE  InstrumentIInv'
  <2>1. f \in KnobFields
    BY <1>3 DEF InstrumentIInv
  <2>2. AreKnobs([knobs EXCEPT ![f] = FromControl(f, value)])
    BY <1>3, <2>1, ChoicesAreValues DEF InstrumentIInv
  <2>3. DOMAIN controls' = DOMAIN controls
    BY <1>3 DEF TurnControl
  <2> QED BY <1>3, <2>2, <2>3, KnobTurned DEF TurnControl
<1>4. ASSUME InstrumentIInv, NEW f \in {"blank", "tune", "level", "ksl"},
             NEW value \in KnobChoices(f), HostSets(f, value)
      PROVE  InstrumentIInv'
  <2>1. f \in KnobFields \cup {"tune"}
    BY DEF KnobFields
  <2>2. AreKnobs([knobs EXCEPT ![f] = value])
    BY <1>4, <2>1, ChoicesAreValues DEF InstrumentIInv
  <2>3. DOMAIN controls' = DOMAIN controls
    BY <1>4 DEF HostSets
  <2> QED BY <1>4, <2>2, <2>3, KnobTurned DEF HostSets
<1>5. ASSUME InstrumentIInv, ApplyKnobs
      PROVE  InstrumentIInv'
  <2>1. PICK j : j = FromParameters(instrument, knobs)
    OBVIOUS
  <2>2. IsInstrument(j) /\ KeptOf(j) = KeptOf(instrument) /\ Parameters(j) = knobs
    BY <1>5, <2>1, ParametersAreApplied DEF InstrumentIInv
  <2>3. /\ instrument' = j /\ knobs' = knobs /\ controls' = Controls(j) /\ unapplied' = FALSE
        /\ kept' = kept
    BY <1>5, <2>1 DEF ApplyKnobs
  <2>4. DOMAIN Controls(j) = KnobFields \ {"blank"}
    BY DEF Controls
  <2> QED BY <1>5, <2>2, <2>3, <2>4 DEF InstrumentIInv
<1>6. ASSUME InstrumentIInv, WriteAndRead
      PROVE  InstrumentIInv'
  <2>1. PICK j : j = FromProperties(Properties(instrument))
    OBVIOUS
  <2>2. IsInstrument(j) /\ KeptOf(j) = KeptOf(instrument)
    BY <1>6, <2>1, PropertiesKeep DEF InstrumentIInv
  <2>3. Shows(j) /\ kept' = KeptOf(j)
    BY <1>6, <2>1, <2>2 DEF WriteAndRead, InstrumentIInv
  <2> QED BY <2>2, <2>3, ShownInstrument
<1>7. ASSUME InstrumentIInv, UNCHANGED instrumentVars PROVE InstrumentIInv'
  BY <1>7 DEF InstrumentIInv, instrumentVars
<1> QED BY <1>1, <1>2, <1>3, <1>4, <1>5, <1>6, <1>7 DEF InstrumentNext

\* What the controls show of an instrument is what the chip takes of it, which has the two
\* middle key scalings the other way round.
LEMMA ShownIsTaken ==
    ASSUME NEW i, IsInstrument(i), NEW c, c = Controls(i)
    PROVE  ChipTakes(i) =
             [ar |-> 15 - c.attack, dr |-> 15 - c.decay,
              sl |-> 15 - c.sustain, rr |-> 15 - c.release,
              tl |-> 63 - c.level, scaling |-> <<31, 2, 1, 0>>[c.ksl + 1],
              multiple |-> c.fmul, ksr |-> c.env, egt |-> c.sus,
              vibrato |-> c.vib, tremolo |-> c.trem, wave |-> c.wave,
              con |-> c.con, fb |-> c.fb]
<1>1. ASSUME NEW f \in KnobFields \ {"blank", "ksl"} PROVE c[f] = FieldOf(i, f)
  BY DEF Controls
<1>2. c["ksl"] = SwapKsl(FieldOf(i, "ksl"))
  BY DEF Controls, KnobFields
<1>3. /\ i["atdec"] \in 0 .. 255 /\ i["susrel"] \in 0 .. 255 /\ i["ksl_l"] \in 0 .. 255
  BY DEF IsInstrument, RegisterNames
<1>4. ASSUME NEW b \in 0 .. 255
      PROVE  /\ 15 - (15 - (b \div 16)) = b \div 16 /\ 15 - (15 - (b % 16)) = b % 16
             /\ 63 - (63 - (b % 64)) = b % 64
  OBVIOUS
<1>5. /\ c.attack = 15 - (i.atdec \div 16) /\ c.decay = 15 - (i.atdec % 16)
      /\ c.sustain = 15 - (i.susrel \div 16) /\ c.release = 15 - (i.susrel % 16)
      /\ c.level = 63 - (i.ksl_l % 64)
  BY <1>1, FieldsByBits DEF KnobFields
<1>6. /\ 15 - c.attack = i.atdec \div 16 /\ 15 - c.decay = i.atdec % 16
      /\ 15 - c.sustain = i.susrel \div 16 /\ 15 - c.release = i.susrel % 16
      /\ 63 - c.level = i.ksl_l % 64
  BY <1>3, <1>4, <1>5
<1>7. /\ c.fmul = i.avekf % 16 /\ c.env = (i.avekf \div 16) % 2
      /\ c.sus = (i.avekf \div 32) % 2 /\ c.vib = (i.avekf \div 64) % 2
      /\ c.trem = i.avekf \div 128 /\ c.wave = i.wave % 8
      /\ c.con = i.fb_conn % 2 /\ c.fb = (i.fb_conn \div 2) % 8
  BY <1>1, FieldsByBits DEF KnobFields
<1>8. <<31, 2, 1, 0>>[c.ksl + 1] = KslShift(i.ksl_l \div 64)
  <2>1. PICK ksl \in 0 .. 3 : ksl = i.ksl_l \div 64
    BY <1>3
  <2>2. c.ksl = SwapKsl(ksl)
    BY <1>2, <2>1, FieldsByBits
  <2>3. CASE ksl = 0
    BY <2>1, <2>2, <2>3 DEF SwapKsl, KslShift
  <2>4. CASE ksl = 1
    BY <2>1, <2>2, <2>4 DEF SwapKsl, KslShift
  <2>5. CASE ksl = 2
    BY <2>1, <2>2, <2>5 DEF SwapKsl, KslShift
  <2>6. CASE ksl = 3
    BY <2>1, <2>2, <2>6 DEF SwapKsl, KslShift
  <2> QED BY <2>3, <2>4, <2>5, <2>6
<1> QED BY <1>6, <1>7, <1>8 DEF ChipTakes

\* InstrumentIInv implies what the chip runs at.
LEMMA ShownIsRun == InstrumentIInv => ChipRunsWhatIsShown
BY ShownIsTaken DEF InstrumentIInv, ChipRunsWhatIsShown

\* Once a part's changes are applied, the chip runs at what the editor shows, and what
\* there is no parameter for is as it was loaded, however often the parameters were set
\* and applied and the project was written and read (opl3/parameter_block.cc and adl).
THEOREM InstrumentCorrect == InstrumentSpec => []ChipRunsWhatIsShown
<1>1. InstrumentSpec => []InstrumentIInv
  BY InstrumentInductive, PTL DEF InstrumentSpec
<1> QED BY <1>1, ShownIsRun, PTL

\* The instrument of a part keeps to the widths of its fields, its parameters keep to their
\* ranges, and once applied they are those of the instrument.
THEOREM InstrumentKept == InstrumentSpec => []InstrumentIInv
BY InstrumentInductive, PTL DEF InstrumentSpec

(***************************************************************************)
(* The fields of an OPN2 instrument.                                       *)
(***************************************************************************)

\* All the fields of a place, with or without a parameter.
HeldAt(place) ==
    IF place = Whole THEN WholeFields \cup {"pseudo_eight_op"} ELSE OperatorFields

\* Where a field of a place is.
IsAt(f, place, register, unit, size, down) ==
    /\ OpnLayout(f, place).register = <<place, register>>
    /\ OpnLayout(f, place).register[1] = place /\ OpnLayout(f, place).register[2] = register
    /\ OpnLayout(f, place).down = down
    /\ Unit(OpnLayout(f, place)) = unit /\ Size(OpnLayout(f, place)) = size

\* Where the fields of the whole and of an operator are.
OpnTableOf(place) ==
    /\ IsAt("pseudo_eight_op", place, "inst_flags", 1, 2, FALSE)
    /\ IsAt("blank", place, "inst_flags", 2, 2, FALSE)
    /\ IsAt("feedback", place, "fbalg", 8, 8, FALSE)
    /\ IsAt("algorithm", place, "fbalg", 1, 8, FALSE)
    /\ IsAt("ams", place, "lfosens", 16, 4, FALSE)
    /\ IsAt("fms", place, "lfosens", 1, 8, FALSE)
    /\ IsAt("detune", place, "dtfm_30", 16, 8, FALSE)
    /\ IsAt("fmul", place, "dtfm_30", 1, 16, FALSE)
    /\ IsAt("level", place, "level_40", 1, 128, TRUE)
    /\ IsAt("ratescale", place, "rsatk_50", 64, 4, FALSE)
    /\ IsAt("attack", place, "rsatk_50", 1, 32, FALSE)
    /\ IsAt("am", place, "amdecay1_60", 128, 2, FALSE)
    /\ IsAt("decay1", place, "amdecay1_60", 1, 32, FALSE)
    /\ IsAt("decay2", place, "decay2_70", 1, 32, FALSE)
    /\ IsAt("sustain", place, "susrel_80", 16, 16, FALSE)
    /\ IsAt("release", place, "susrel_80", 1, 16, FALSE)
    /\ IsAt("ssgenable", place, "ssgeg_90", 8, 2, FALSE)
    /\ IsAt("ssgwave", place, "ssgeg_90", 1, 8, FALSE)

\* Which they are for every place.
LEMMA OpnTable == \A place : OpnTableOf(place)
<1> SUFFICES ASSUME NEW place PROVE OpnTableOf(place)
  OBVIOUS
<1>1. IsAt("pseudo_eight_op", place, "inst_flags", 1, 2, FALSE)
  BY Powers DEF IsAt, OpnLayout, Plain, Down, Unit, Size
<1>2. IsAt("blank", place, "inst_flags", 2, 2, FALSE)
  BY Powers DEF IsAt, OpnLayout, Plain, Down, Unit, Size
<1>3. IsAt("feedback", place, "fbalg", 8, 8, FALSE)
  BY Powers DEF IsAt, OpnLayout, Plain, Down, Unit, Size
<1>4. IsAt("algorithm", place, "fbalg", 1, 8, FALSE)
  BY Powers DEF IsAt, OpnLayout, Plain, Down, Unit, Size
<1>5. IsAt("ams", place, "lfosens", 16, 4, FALSE)
  BY Powers DEF IsAt, OpnLayout, Plain, Down, Unit, Size
<1>6. IsAt("fms", place, "lfosens", 1, 8, FALSE)
  BY Powers DEF IsAt, OpnLayout, Plain, Down, Unit, Size
<1>7. IsAt("detune", place, "dtfm_30", 16, 8, FALSE)
  BY Powers DEF IsAt, OpnLayout, Plain, Down, Unit, Size
<1>8. IsAt("fmul", place, "dtfm_30", 1, 16, FALSE)
  BY Powers DEF IsAt, OpnLayout, Plain, Down, Unit, Size
<1>9. IsAt("level", place, "level_40", 1, 128, TRUE)
  BY Powers DEF IsAt, OpnLayout, Plain, Down, Unit, Size
<1>10. IsAt("ratescale", place, "rsatk_50", 64, 4, FALSE)
  BY Powers DEF IsAt, OpnLayout, Plain, Down, Unit, Size
<1>11. IsAt("attack", place, "rsatk_50", 1, 32, FALSE)
  BY Powers DEF IsAt, OpnLayout, Plain, Down, Unit, Size
<1>12. IsAt("am", place, "amdecay1_60", 128, 2, FALSE)
  BY Powers DEF IsAt, OpnLayout, Plain, Down, Unit, Size
<1>13. IsAt("decay1", place, "amdecay1_60", 1, 32, FALSE)
  BY Powers DEF IsAt, OpnLayout, Plain, Down, Unit, Size
<1>14. IsAt("decay2", place, "decay2_70", 1, 32, FALSE)
  BY Powers DEF IsAt, OpnLayout, Plain, Down, Unit, Size
<1>15. IsAt("sustain", place, "susrel_80", 16, 16, FALSE)
  BY Powers DEF IsAt, OpnLayout, Plain, Down, Unit, Size
<1>16. IsAt("release", place, "susrel_80", 1, 16, FALSE)
  BY Powers DEF IsAt, OpnLayout, Plain, Down, Unit, Size
<1>17. IsAt("ssgenable", place, "ssgeg_90", 8, 2, FALSE)
  BY Powers DEF IsAt, OpnLayout, Plain, Down, Unit, Size
<1>18. IsAt("ssgwave", place, "ssgeg_90", 1, 8, FALSE)
  BY Powers DEF IsAt, OpnLayout, Plain, Down, Unit, Size
<1> QED BY <1>1, <1>2, <1>3, <1>4, <1>5, <1>6, <1>7, <1>8, <1>9, <1>10, <1>11, <1>12, <1>13,
           <1>14, <1>15, <1>16, <1>17, <1>18 DEF OpnTableOf

\* Every field is one of a byte of its place.
LEMMA OpnEveryField ==
    ASSUME NEW place \in OpnPlaces, NEW f \in HeldAt(place), NEW layout, layout = OpnLayout(f,
          place)
    PROVE  /\ IsField(layout) /\ layout.register \in OpnRegisters
           /\ layout.register[1] = place
<1>0. OpnTableOf(place)
  BY OpnTable
<1>a. /\ place = Whole => \A r \in WholeRegisters : <<place, r>> \in OpnRegisters
      /\ place # Whole => \A r \in OperatorRegisters : <<place, r>> \in OpnRegisters
  BY DEF OpnRegisters, OpnPlaces
<1>1. CASE place = Whole
  <2>1. CASE f = "pseudo_eight_op"
    <3>1. /\ layout.register = <<place, "inst_flags">> /\ layout.register[1] = place
          /\ Unit(layout) = 1 /\ Size(layout) = 2
      BY <1>0, <2>1 DEF OpnTableOf, IsAt
    <3>2. IsField(layout)
      BY <3>1, AllSettable DEF IsField
    <3>3. layout.register \in OpnRegisters
      BY <1>a, <1>1, <3>1 DEF WholeRegisters
    <3> QED BY <3>1, <3>2, <3>3
  <2>2. CASE f = "blank"
    <3>1. /\ layout.register = <<place, "inst_flags">> /\ layout.register[1] = place
          /\ Unit(layout) = 2 /\ Size(layout) = 2
      BY <1>0, <2>2 DEF OpnTableOf, IsAt
    <3>2. IsField(layout)
      BY <3>1, AllSettable DEF IsField
    <3>3. layout.register \in OpnRegisters
      BY <1>a, <1>1, <3>1 DEF WholeRegisters
    <3> QED BY <3>1, <3>2, <3>3
  <2>3. CASE f = "feedback"
    <3>1. /\ layout.register = <<place, "fbalg">> /\ layout.register[1] = place
          /\ Unit(layout) = 8 /\ Size(layout) = 8
      BY <1>0, <2>3 DEF OpnTableOf, IsAt
    <3>2. IsField(layout)
      BY <3>1, AllSettable DEF IsField
    <3>3. layout.register \in OpnRegisters
      BY <1>a, <1>1, <3>1 DEF WholeRegisters
    <3> QED BY <3>1, <3>2, <3>3
  <2>4. CASE f = "algorithm"
    <3>1. /\ layout.register = <<place, "fbalg">> /\ layout.register[1] = place
          /\ Unit(layout) = 1 /\ Size(layout) = 8
      BY <1>0, <2>4 DEF OpnTableOf, IsAt
    <3>2. IsField(layout)
      BY <3>1, AllSettable DEF IsField
    <3>3. layout.register \in OpnRegisters
      BY <1>a, <1>1, <3>1 DEF WholeRegisters
    <3> QED BY <3>1, <3>2, <3>3
  <2>5. CASE f = "ams"
    <3>1. /\ layout.register = <<place, "lfosens">> /\ layout.register[1] = place
          /\ Unit(layout) = 16 /\ Size(layout) = 4
      BY <1>0, <2>5 DEF OpnTableOf, IsAt
    <3>2. IsField(layout)
      BY <3>1, AllSettable DEF IsField
    <3>3. layout.register \in OpnRegisters
      BY <1>a, <1>1, <3>1 DEF WholeRegisters
    <3> QED BY <3>1, <3>2, <3>3
  <2>6. CASE f = "fms"
    <3>1. /\ layout.register = <<place, "lfosens">> /\ layout.register[1] = place
          /\ Unit(layout) = 1 /\ Size(layout) = 8
      BY <1>0, <2>6 DEF OpnTableOf, IsAt
    <3>2. IsField(layout)
      BY <3>1, AllSettable DEF IsField
    <3>3. layout.register \in OpnRegisters
      BY <1>a, <1>1, <3>1 DEF WholeRegisters
    <3> QED BY <3>1, <3>2, <3>3
  <2> QED BY <1>1, <2>1, <2>2, <2>3, <2>4, <2>5, <2>6 DEF HeldAt, WholeFields
<1>2. CASE place # Whole
  <2>1. CASE f = "detune"
    <3>1. /\ layout.register = <<place, "dtfm_30">> /\ layout.register[1] = place
          /\ Unit(layout) = 16 /\ Size(layout) = 8
      BY <1>0, <2>1 DEF OpnTableOf, IsAt
    <3>2. IsField(layout)
      BY <3>1, AllSettable DEF IsField
    <3>3. layout.register \in OpnRegisters
      BY <1>a, <1>2, <3>1 DEF OperatorRegisters
    <3> QED BY <3>1, <3>2, <3>3
  <2>2. CASE f = "fmul"
    <3>1. /\ layout.register = <<place, "dtfm_30">> /\ layout.register[1] = place
          /\ Unit(layout) = 1 /\ Size(layout) = 16
      BY <1>0, <2>2 DEF OpnTableOf, IsAt
    <3>2. IsField(layout)
      BY <3>1, AllSettable DEF IsField
    <3>3. layout.register \in OpnRegisters
      BY <1>a, <1>2, <3>1 DEF OperatorRegisters
    <3> QED BY <3>1, <3>2, <3>3
  <2>3. CASE f = "level"
    <3>1. /\ layout.register = <<place, "level_40">> /\ layout.register[1] = place
          /\ Unit(layout) = 1 /\ Size(layout) = 128
      BY <1>0, <2>3 DEF OpnTableOf, IsAt
    <3>2. IsField(layout)
      BY <3>1, AllSettable DEF IsField
    <3>3. layout.register \in OpnRegisters
      BY <1>a, <1>2, <3>1 DEF OperatorRegisters
    <3> QED BY <3>1, <3>2, <3>3
  <2>4. CASE f = "ratescale"
    <3>1. /\ layout.register = <<place, "rsatk_50">> /\ layout.register[1] = place
          /\ Unit(layout) = 64 /\ Size(layout) = 4
      BY <1>0, <2>4 DEF OpnTableOf, IsAt
    <3>2. IsField(layout)
      BY <3>1, AllSettable DEF IsField
    <3>3. layout.register \in OpnRegisters
      BY <1>a, <1>2, <3>1 DEF OperatorRegisters
    <3> QED BY <3>1, <3>2, <3>3
  <2>5. CASE f = "attack"
    <3>1. /\ layout.register = <<place, "rsatk_50">> /\ layout.register[1] = place
          /\ Unit(layout) = 1 /\ Size(layout) = 32
      BY <1>0, <2>5 DEF OpnTableOf, IsAt
    <3>2. IsField(layout)
      BY <3>1, AllSettable DEF IsField
    <3>3. layout.register \in OpnRegisters
      BY <1>a, <1>2, <3>1 DEF OperatorRegisters
    <3> QED BY <3>1, <3>2, <3>3
  <2>6. CASE f = "am"
    <3>1. /\ layout.register = <<place, "amdecay1_60">> /\ layout.register[1] = place
          /\ Unit(layout) = 128 /\ Size(layout) = 2
      BY <1>0, <2>6 DEF OpnTableOf, IsAt
    <3>2. IsField(layout)
      BY <3>1, AllSettable DEF IsField
    <3>3. layout.register \in OpnRegisters
      BY <1>a, <1>2, <3>1 DEF OperatorRegisters
    <3> QED BY <3>1, <3>2, <3>3
  <2>7. CASE f = "decay1"
    <3>1. /\ layout.register = <<place, "amdecay1_60">> /\ layout.register[1] = place
          /\ Unit(layout) = 1 /\ Size(layout) = 32
      BY <1>0, <2>7 DEF OpnTableOf, IsAt
    <3>2. IsField(layout)
      BY <3>1, AllSettable DEF IsField
    <3>3. layout.register \in OpnRegisters
      BY <1>a, <1>2, <3>1 DEF OperatorRegisters
    <3> QED BY <3>1, <3>2, <3>3
  <2>8. CASE f = "decay2"
    <3>1. /\ layout.register = <<place, "decay2_70">> /\ layout.register[1] = place
          /\ Unit(layout) = 1 /\ Size(layout) = 32
      BY <1>0, <2>8 DEF OpnTableOf, IsAt
    <3>2. IsField(layout)
      BY <3>1, AllSettable DEF IsField
    <3>3. layout.register \in OpnRegisters
      BY <1>a, <1>2, <3>1 DEF OperatorRegisters
    <3> QED BY <3>1, <3>2, <3>3
  <2>9. CASE f = "sustain"
    <3>1. /\ layout.register = <<place, "susrel_80">> /\ layout.register[1] = place
          /\ Unit(layout) = 16 /\ Size(layout) = 16
      BY <1>0, <2>9 DEF OpnTableOf, IsAt
    <3>2. IsField(layout)
      BY <3>1, AllSettable DEF IsField
    <3>3. layout.register \in OpnRegisters
      BY <1>a, <1>2, <3>1 DEF OperatorRegisters
    <3> QED BY <3>1, <3>2, <3>3
  <2>10. CASE f = "release"
    <3>1. /\ layout.register = <<place, "susrel_80">> /\ layout.register[1] = place
          /\ Unit(layout) = 1 /\ Size(layout) = 16
      BY <1>0, <2>10 DEF OpnTableOf, IsAt
    <3>2. IsField(layout)
      BY <3>1, AllSettable DEF IsField
    <3>3. layout.register \in OpnRegisters
      BY <1>a, <1>2, <3>1 DEF OperatorRegisters
    <3> QED BY <3>1, <3>2, <3>3
  <2>11. CASE f = "ssgenable"
    <3>1. /\ layout.register = <<place, "ssgeg_90">> /\ layout.register[1] = place
          /\ Unit(layout) = 8 /\ Size(layout) = 2
      BY <1>0, <2>11 DEF OpnTableOf, IsAt
    <3>2. IsField(layout)
      BY <3>1, AllSettable DEF IsField
    <3>3. layout.register \in OpnRegisters
      BY <1>a, <1>2, <3>1 DEF OperatorRegisters
    <3> QED BY <3>1, <3>2, <3>3
  <2>12. CASE f = "ssgwave"
    <3>1. /\ layout.register = <<place, "ssgeg_90">> /\ layout.register[1] = place
          /\ Unit(layout) = 1 /\ Size(layout) = 8
      BY <1>0, <2>12 DEF OpnTableOf, IsAt
    <3>2. IsField(layout)
      BY <3>1, AllSettable DEF IsField
    <3>3. layout.register \in OpnRegisters
      BY <1>a, <1>2, <3>1 DEF OperatorRegisters
    <3> QED BY <3>1, <3>2, <3>3
  <2> QED BY <1>2, <2>1, <2>2, <2>3, <2>4, <2>5, <2>6, <2>7, <2>8, <2>9, <2>10, <2>11,
             <2>12 DEF HeldAt, OperatorFields
<1> QED BY <1>1, <1>2

\* The fields of a place are apart from each other.
LEMMA OpnFieldsApart ==
    ASSUME NEW place \in OpnPlaces, NEW f \in HeldAt(place), NEW g \in HeldAt(place), f # g
    PROVE  Apart(OpnLayout(f, place), OpnLayout(g, place))
<1>0. OpnTableOf(place)
  BY OpnTable
<1>1. CASE place = Whole
  <2>1. CASE f = "pseudo_eight_op"
    BY <1>0, <1>1, <2>1, AllLeave DEF OpnTableOf, IsAt, Apart, HeldAt, WholeFields
  <2>2. CASE f = "blank"
    BY <1>0, <1>1, <2>2, AllLeave DEF OpnTableOf, IsAt, Apart, HeldAt, WholeFields
  <2>3. CASE f = "feedback"
    BY <1>0, <1>1, <2>3, AllLeave DEF OpnTableOf, IsAt, Apart, HeldAt, WholeFields
  <2>4. CASE f = "algorithm"
    BY <1>0, <1>1, <2>4, AllLeave DEF OpnTableOf, IsAt, Apart, HeldAt, WholeFields
  <2>5. CASE f = "ams"
    BY <1>0, <1>1, <2>5, AllLeave DEF OpnTableOf, IsAt, Apart, HeldAt, WholeFields
  <2>6. CASE f = "fms"
    BY <1>0, <1>1, <2>6, AllLeave DEF OpnTableOf, IsAt, Apart, HeldAt, WholeFields
  <2> QED BY <1>1, <2>1, <2>2, <2>3, <2>4, <2>5, <2>6 DEF HeldAt, WholeFields
<1>2. CASE place # Whole
  <2>1. CASE f = "detune"
    BY <1>0, <1>2, <2>1, AllLeave DEF OpnTableOf, IsAt, Apart, HeldAt, OperatorFields
  <2>2. CASE f = "fmul"
    BY <1>0, <1>2, <2>2, AllLeave DEF OpnTableOf, IsAt, Apart, HeldAt, OperatorFields
  <2>3. CASE f = "level"
    BY <1>0, <1>2, <2>3, AllLeave DEF OpnTableOf, IsAt, Apart, HeldAt, OperatorFields
  <2>4. CASE f = "ratescale"
    BY <1>0, <1>2, <2>4, AllLeave DEF OpnTableOf, IsAt, Apart, HeldAt, OperatorFields
  <2>5. CASE f = "attack"
    BY <1>0, <1>2, <2>5, AllLeave DEF OpnTableOf, IsAt, Apart, HeldAt, OperatorFields
  <2>6. CASE f = "am"
    BY <1>0, <1>2, <2>6, AllLeave DEF OpnTableOf, IsAt, Apart, HeldAt, OperatorFields
  <2>7. CASE f = "decay1"
    BY <1>0, <1>2, <2>7, AllLeave DEF OpnTableOf, IsAt, Apart, HeldAt, OperatorFields
  <2>8. CASE f = "decay2"
    BY <1>0, <1>2, <2>8, AllLeave DEF OpnTableOf, IsAt, Apart, HeldAt, OperatorFields
  <2>9. CASE f = "sustain"
    BY <1>0, <1>2, <2>9, AllLeave DEF OpnTableOf, IsAt, Apart, HeldAt, OperatorFields
  <2>10. CASE f = "release"
    BY <1>0, <1>2, <2>10, AllLeave DEF OpnTableOf, IsAt, Apart, HeldAt, OperatorFields
  <2>11. CASE f = "ssgenable"
    BY <1>0, <1>2, <2>11, AllLeave DEF OpnTableOf, IsAt, Apart, HeldAt, OperatorFields
  <2>12. CASE f = "ssgwave"
    BY <1>0, <1>2, <2>12, AllLeave DEF OpnTableOf, IsAt, Apart, HeldAt, OperatorFields
  <2> QED BY <1>2, <2>1, <2>2, <2>3, <2>4, <2>5, <2>6, <2>7, <2>8, <2>9, <2>10, <2>11,
             <2>12 DEF HeldAt, OperatorFields
<1> QED BY <1>1, <1>2

(***************************************************************************)
(* The accessors of a place, one after another.                            *)
(***************************************************************************)

\* The bytes of an instrument.
AreBytes(bytes) == bytes \in [OpnRegisters -> 0 .. 255]

\* What was read is a value of its field.
LEMMA OpnFieldType ==
    ASSUME NEW bytes, AreBytes(bytes), NEW place \in OpnPlaces, NEW f \in HeldAt(place)
    PROVE  Unpacked(bytes, OpnLayout(f, place)) \in 0 .. GreatestOf(OpnLayout(f, place))
BY OpnEveryField, UnpackedType DEF AreBytes

\* An accessor sets its field and no other one of its place, and no byte of another.
LEMMA OpnFieldIsSet ==
    ASSUME NEW bytes, AreBytes(bytes), NEW place \in OpnPlaces, NEW f \in HeldAt(place),
           NEW value \in 0 .. GreatestOf(OpnLayout(f, place)),
           NEW new, new = Packed(bytes, OpnLayout(f, place), value)
    PROVE  /\ AreBytes(new)
           /\ \A g \in HeldAt(place) :
                 Unpacked(new, OpnLayout(g, place)) =
                    IF g = f THEN value ELSE Unpacked(bytes, OpnLayout(g, place))
           /\ \A r \in OpnRegisters : r[1] # place => new[r] = bytes[r]
<1>1. PICK layout : layout = OpnLayout(f, place)
  OBVIOUS
<1>2. /\ IsField(layout) /\ layout.register \in OpnRegisters /\ layout.register \in DOMAIN bytes
      /\ bytes[layout.register] \in 0 .. 255 /\ value \in 0 .. GreatestOf(layout)
      /\ new = Packed(bytes, layout, value)
  BY <1>1, OpnEveryField DEF AreBytes
<1>3. /\ DOMAIN new = DOMAIN bytes /\ new[layout.register] \in 0 .. 255
      /\ \A r \in DOMAIN bytes \ {layout.register} : new[r] = bytes[r]
      /\ Unpacked(new, layout) = value
  BY <1>2, PackedByte, PackedSets
<1>4. AreBytes(new)
  <2>1. \A r \in OpnRegisters : new[r] \in 0 .. 255
    BY <1>3 DEF AreBytes
  <2>2. new = [bytes EXCEPT ![layout.register] = new[layout.register]]
    BY <1>2, PackedByte
  <2> QED BY <2>1, <2>2 DEF AreBytes
<1>5. ASSUME NEW g \in HeldAt(place), g # f
      PROVE  Unpacked(new, OpnLayout(g, place)) = Unpacked(bytes, OpnLayout(g, place))
  <2>1. PICK other : other = OpnLayout(g, place)
    OBVIOUS
  <2>2. Apart(layout, other) /\ other.register \in DOMAIN bytes
    BY <1>1, <1>5, <2>1, OpnFieldsApart, OpnEveryField DEF AreBytes
  <2> QED BY <1>2, <2>1, <2>2, PackedLeaves
<1>6. ASSUME NEW r \in OpnRegisters, r[1] # place PROVE new[r] = bytes[r]
  <2>1. layout.register[1] = place
    BY <1>1, OpnEveryField
  <2>2. r # layout.register /\ r \in DOMAIN bytes
    BY <1>6, <2>1 DEF AreBytes
  <2> QED BY <1>3, <2>2
<1> QED BY <1>1, <1>3, <1>4, <1>5, <1>6

\* The bytes when those accessors of a place were gone through that are done.
AfterAt(bytes, place, values, new, done) ==
    /\ AreBytes(new)
    /\ \A r \in OpnRegisters : r[1] # place => new[r] = bytes[r]
    /\ \A g \in HeldAt(place) :
          Unpacked(new, OpnLayout(g, place)) =
             IF g \in done THEN values[g] ELSE Unpacked(bytes, OpnLayout(g, place))

\* One more.
LEMMA OneMoreAt ==
    ASSUME NEW bytes, NEW place \in OpnPlaces, NEW values, NEW new, NEW done,
           AfterAt(bytes, place, values, new, done), NEW f \in HeldAt(place),
           values[f] \in 0 .. GreatestOf(OpnLayout(f, place)),
           NEW next, next = WithFieldAt(new, place, values, f)
    PROVE  AfterAt(bytes, place, values, next, done \cup {f})
<1>1. PICK value \in 0 .. GreatestOf(OpnLayout(f, place)) : value = values[f]
  OBVIOUS
<1>2. /\ AreBytes(next)
      /\ \A r \in OpnRegisters : r[1] # place => next[r] = new[r]
      /\ \A g \in HeldAt(place) :
            Unpacked(next, OpnLayout(g, place)) =
               IF g = f THEN value ELSE Unpacked(new, OpnLayout(g, place))
  BY <1>1, OpnFieldIsSet DEF AfterAt, WithFieldAt
<1> QED BY <1>1, <1>2 DEF AfterAt

\* All of those with a parameter: these are set, and nothing else is.
LEMMA FieldsAtAreSet ==
    ASSUME NEW bytes, AreBytes(bytes), NEW place \in OpnPlaces, NEW values,
           \A f \in FieldsAt(place) : values[f] \in 0 .. GreatestOf(OpnLayout(f, place))
    PROVE  AfterAt(bytes, place, values, WithFieldsAt(bytes, place, values), FieldsAt(place))
<1>0. AfterAt(bytes, place, values, bytes, {})
  BY DEF AfterAt
<1>1. CASE place = Whole
  <2>0. \A f \in FieldsAt(place) :
           f \in HeldAt(place) /\ values[f] \in 0 .. GreatestOf(OpnLayout(f, place))
    BY <1>1 DEF HeldAt, FieldsAt
  <2>1. PICK b1 : b1 = WithFieldAt(bytes, place, values, "blank")
    OBVIOUS
  <2>2. AfterAt(bytes, place, values, b1,
             {"blank"})
    <3>1. AfterAt(bytes, place, values, b1, {} \cup {"blank"})
      BY <1>0, <1>1, <2>0, <2>1, OneMoreAt DEF FieldsAt, WholeFields
    <3> QED BY <3>1 DEF AfterAt
  <2>3. PICK b2 : b2 = WithFieldAt(b1, place, values, "feedback")
    OBVIOUS
  <2>4. AfterAt(bytes, place, values, b2,
             {"blank", "feedback"})
    <3>1. AfterAt(bytes, place, values, b2,
                  {"blank"} \cup {"feedback"})
      BY <1>0, <1>1, <2>0, <2>3, <2>2, OneMoreAt DEF FieldsAt, WholeFields
    <3> QED BY <3>1 DEF AfterAt
  <2>5. PICK b3 : b3 = WithFieldAt(b2, place, values, "algorithm")
    OBVIOUS
  <2>6. AfterAt(bytes, place, values, b3,
             {"blank", "feedback", "algorithm"})
    <3>1. AfterAt(bytes, place, values, b3,
                  {"blank", "feedback"} \cup {"algorithm"})
      BY <1>0, <1>1, <2>0, <2>5, <2>4, OneMoreAt DEF FieldsAt, WholeFields
    <3> QED BY <3>1 DEF AfterAt
  <2>7. PICK b4 : b4 = WithFieldAt(b3, place, values, "ams")
    OBVIOUS
  <2>8. AfterAt(bytes, place, values, b4,
             {"blank", "feedback", "algorithm", "ams"})
    <3>1. AfterAt(bytes, place, values, b4,
                  {"blank", "feedback", "algorithm"} \cup {"ams"})
      BY <1>0, <1>1, <2>0, <2>7, <2>6, OneMoreAt DEF FieldsAt, WholeFields
    <3> QED BY <3>1 DEF AfterAt
  <2>9. PICK b5 : b5 = WithFieldAt(b4, place, values, "fms")
    OBVIOUS
  <2>10. AfterAt(bytes, place, values, b5,
             {"blank", "feedback", "algorithm", "ams", "fms"})
    <3>1. AfterAt(bytes, place, values, b5,
                  {"blank", "feedback", "algorithm", "ams"} \cup {"fms"})
      BY <1>0, <1>1, <2>0, <2>9, <2>8, OneMoreAt DEF FieldsAt, WholeFields
    <3> QED BY <3>1 DEF AfterAt
  <2>11. WithFieldsAt(bytes, place, values) = b5
    BY <1>1, <2>1, <2>3, <2>5, <2>7, <2>9 DEF WithFieldsAt
  <2> QED BY <1>1, <2>10, <2>11 DEF AfterAt, FieldsAt, WholeFields
<1>2. CASE place # Whole
  <2>0. \A f \in FieldsAt(place) :
           f \in HeldAt(place) /\ values[f] \in 0 .. GreatestOf(OpnLayout(f, place))
    BY <1>2 DEF HeldAt, FieldsAt
  <2>1. PICK b1 : b1 = WithFieldAt(bytes, place, values, "detune")
    OBVIOUS
  <2>2. AfterAt(bytes, place, values, b1,
             {"detune"})
    <3>1. AfterAt(bytes, place, values, b1, {} \cup {"detune"})
      BY <1>0, <1>2, <2>0, <2>1, OneMoreAt DEF FieldsAt, OperatorFields
    <3> QED BY <3>1 DEF AfterAt
  <2>3. PICK b2 : b2 = WithFieldAt(b1, place, values, "fmul")
    OBVIOUS
  <2>4. AfterAt(bytes, place, values, b2,
             {"detune", "fmul"})
    <3>1. AfterAt(bytes, place, values, b2,
                  {"detune"} \cup {"fmul"})
      BY <1>0, <1>2, <2>0, <2>3, <2>2, OneMoreAt DEF FieldsAt, OperatorFields
    <3> QED BY <3>1 DEF AfterAt
  <2>5. PICK b3 : b3 = WithFieldAt(b2, place, values, "level")
    OBVIOUS
  <2>6. AfterAt(bytes, place, values, b3,
             {"detune", "fmul", "level"})
    <3>1. AfterAt(bytes, place, values, b3,
                  {"detune", "fmul"} \cup {"level"})
      BY <1>0, <1>2, <2>0, <2>5, <2>4, OneMoreAt DEF FieldsAt, OperatorFields
    <3> QED BY <3>1 DEF AfterAt
  <2>7. PICK b4 : b4 = WithFieldAt(b3, place, values, "ratescale")
    OBVIOUS
  <2>8. AfterAt(bytes, place, values, b4,
             {"detune", "fmul", "level", "ratescale"})
    <3>1. AfterAt(bytes, place, values, b4,
                  {"detune", "fmul", "level"} \cup {"ratescale"})
      BY <1>0, <1>2, <2>0, <2>7, <2>6, OneMoreAt DEF FieldsAt, OperatorFields
    <3> QED BY <3>1 DEF AfterAt
  <2>9. PICK b5 : b5 = WithFieldAt(b4, place, values, "attack")
    OBVIOUS
  <2>10. AfterAt(bytes, place, values, b5,
             {"detune", "fmul", "level", "ratescale", "attack"})
    <3>1. AfterAt(bytes, place, values, b5,
                  {"detune", "fmul", "level", "ratescale"} \cup {"attack"})
      BY <1>0, <1>2, <2>0, <2>9, <2>8, OneMoreAt DEF FieldsAt, OperatorFields
    <3> QED BY <3>1 DEF AfterAt
  <2>11. PICK b6 : b6 = WithFieldAt(b5, place, values, "am")
    OBVIOUS
  <2>12. AfterAt(bytes, place, values, b6,
             {"detune", "fmul", "level", "ratescale", "attack", "am"})
    <3>1. AfterAt(bytes, place, values, b6,
                  {"detune", "fmul", "level", "ratescale", "attack"} \cup {"am"})
      BY <1>0, <1>2, <2>0, <2>11, <2>10, OneMoreAt DEF FieldsAt, OperatorFields
    <3> QED BY <3>1 DEF AfterAt
  <2>13. PICK b7 : b7 = WithFieldAt(b6, place, values, "decay1")
    OBVIOUS
  <2>14. AfterAt(bytes, place, values, b7,
             {"detune", "fmul", "level", "ratescale", "attack", "am", "decay1"})
    <3>1. AfterAt(bytes, place, values, b7,
                  {"detune", "fmul", "level", "ratescale", "attack", "am"} \cup {"decay1"})
      BY <1>0, <1>2, <2>0, <2>13, <2>12, OneMoreAt DEF FieldsAt, OperatorFields
    <3> QED BY <3>1 DEF AfterAt
  <2>15. PICK b8 : b8 = WithFieldAt(b7, place, values, "decay2")
    OBVIOUS
  <2>16. AfterAt(bytes, place, values, b8,
             {"detune", "fmul", "level", "ratescale", "attack", "am", "decay1", "decay2"})
    <3>1. AfterAt(bytes, place, values, b8,
                  {"detune", "fmul", "level", "ratescale", "attack", "am", "decay1"}
                   \cup {"decay2"})
      BY <1>0, <1>2, <2>0, <2>15, <2>14, OneMoreAt DEF FieldsAt, OperatorFields
    <3> QED BY <3>1 DEF AfterAt
  <2>17. PICK b9 : b9 = WithFieldAt(b8, place, values, "sustain")
    OBVIOUS
  <2>18. AfterAt(bytes, place, values, b9,
             {"detune", "fmul", "level", "ratescale", "attack", "am", "decay1", "decay2",
              "sustain"})
    <3>1. AfterAt(bytes, place, values, b9,
                  {"detune", "fmul", "level", "ratescale", "attack", "am", "decay1",
                   "decay2"} \cup {"sustain"})
      BY <1>0, <1>2, <2>0, <2>17, <2>16, OneMoreAt DEF FieldsAt, OperatorFields
    <3> QED BY <3>1 DEF AfterAt
  <2>19. PICK b10 : b10 = WithFieldAt(b9, place, values, "release")
    OBVIOUS
  <2>20. AfterAt(bytes, place, values, b10,
             {"detune", "fmul", "level", "ratescale", "attack", "am", "decay1", "decay2",
              "sustain", "release"})
    <3>1. AfterAt(bytes, place, values, b10,
                  {"detune", "fmul", "level", "ratescale", "attack", "am", "decay1", "decay2",
                   "sustain"} \cup {"release"})
      BY <1>0, <1>2, <2>0, <2>19, <2>18, OneMoreAt DEF FieldsAt, OperatorFields
    <3> QED BY <3>1 DEF AfterAt
  <2>21. PICK b11 : b11 = WithFieldAt(b10, place, values, "ssgenable")
    OBVIOUS
  <2>22. AfterAt(bytes, place, values, b11,
             {"detune", "fmul", "level", "ratescale", "attack", "am", "decay1", "decay2",
              "sustain", "release", "ssgenable"})
    <3>1. AfterAt(bytes, place, values, b11,
                  {"detune", "fmul", "level", "ratescale", "attack", "am", "decay1", "decay2",
                   "sustain", "release"} \cup {"ssgenable"})
      BY <1>0, <1>2, <2>0, <2>21, <2>20, OneMoreAt DEF FieldsAt, OperatorFields
    <3> QED BY <3>1 DEF AfterAt
  <2>23. PICK b12 : b12 = WithFieldAt(b11, place, values, "ssgwave")
    OBVIOUS
  <2>24. AfterAt(bytes, place, values, b12,
             {"detune", "fmul", "level", "ratescale", "attack", "am", "decay1", "decay2",
              "sustain", "release", "ssgenable", "ssgwave"})
    <3>1. AfterAt(bytes, place, values, b12,
                  {"detune", "fmul", "level", "ratescale", "attack", "am", "decay1", "decay2",
                   "sustain", "release", "ssgenable"} \cup {"ssgwave"})
      BY <1>0, <1>2, <2>0, <2>23, <2>22, OneMoreAt DEF FieldsAt, OperatorFields
    <3> QED BY <3>1 DEF AfterAt
  <2>25. WithFieldsAt(bytes, place, values) = b12
    BY <1>2, <2>1, <2>3, <2>5, <2>7, <2>9, <2>11, <2>13, <2>15, <2>17, <2>19, <2>21, <2>23
       DEF WithFieldsAt
  <2> QED BY <1>2, <2>24, <2>25 DEF AfterAt, FieldsAt, OperatorFields
<1> QED BY <1>1, <1>2

(***************************************************************************)
(* Names, places and parameters.                                           *)
(***************************************************************************)

\* The places there are.
LEMMA PlacesThereAre ==
    /\ OpnPlaces \subseteq 0 .. 4 /\ Whole \in OpnPlaces /\ Whole = 4
    /\ \A n \in OpnOperators : n \in OpnPlaces /\ n # Whole /\ n \in 0 .. 3
    /\ \A r \in OpnRegisters : r[1] \in OpnPlaces
<1>1. OpnOperators \subseteq 0 .. 3
  BY OpnAssumption
<1>2. \A r \in OpnRegisters : r[1] \in OpnPlaces
  BY DEF OpnRegisters, OpnPlaces
<1> QED BY <1>1, <1>2 DEF OpnPlaces, Whole

\* The names of the operators, and the numbers of the panels.
LEMMA Names ==
    /\ OperatorName(0) = "op1" /\ OperatorName(1) = "op3" /\ OperatorName(2) = "op2"
    /\ OperatorName(3) = "op4" /\ OperatorName(4) = "whole"
    /\ PanelOf(0) = "op1" /\ PanelOf(1) = "op3" /\ PanelOf(2) = "op2"
    /\ PanelOf(3) = "op4" /\ PanelOf(4) = "whole"
    /\ ChipOperator(0) = "op1" /\ ChipOperator(1) = "op3" /\ ChipOperator(2) = "op2"
    /\ ChipOperator(3) = "op4"
    /\ NumberOf("op1") = 0 /\ NumberOf("op2") = 2 /\ NumberOf("op3") = 1
    /\ NumberOf("op4") = 3 /\ NumberOf("whole") = 4
<1>1. /\ OperatorName(0) = "op1" /\ OperatorName(1) = "op3" /\ OperatorName(2) = "op2"
      /\ OperatorName(3) = "op4" /\ OperatorName(4) = "whole"
  BY DEF OperatorName
<1>2. /\ PanelOf(0) = "op1" /\ PanelOf(1) = "op3" /\ PanelOf(2) = "op2"
      /\ PanelOf(3) = "op4" /\ PanelOf(4) = "whole"
  BY DEF PanelOf
<1>3. /\ ChipOperator(0) = "op1" /\ ChipOperator(1) = "op3" /\ ChipOperator(2) = "op2"
      /\ ChipOperator(3) = "op4"
  BY DEF ChipOperator
<1>4. /\ NumberOf("op1") = 0 /\ NumberOf("op2") = 2 /\ NumberOf("op3") = 1
      /\ NumberOf("op4") = 3 /\ NumberOf("whole") = 4
  BY DEF NumberOf, Whole
<1> QED BY <1>1, <1>2, <1>3, <1>4

\* A panel is of the operator it was made for, and every operator has a name of its own.
LEMMA NamesAreOfPlaces ==
    ASSUME NEW n \in OpnPlaces, NEW m \in OpnPlaces
    PROVE  /\ OperatorName(n) = OperatorName(m) => n = m
           /\ PanelOf(n) = PanelOf(m) => n = m
           /\ NumberOf(PanelOf(n)) = n
           /\ OperatorName(n) = "whole" <=> n = Whole
           /\ PanelOf(n) = "whole" <=> n = Whole
           /\ n # Whole => ChipOperator(n) = PanelOf(n)
<1>1. n \in 0 .. 4 /\ m \in 0 .. 4 /\ Whole = 4
  BY PlacesThereAre
<1>2. \A x \in 0 .. 4 : /\ NumberOf(PanelOf(x)) = x
                        /\ OperatorName(x) = "whole" <=> x = 4
                        /\ PanelOf(x) = "whole" <=> x = 4
                        /\ x # 4 => ChipOperator(x) = PanelOf(x)
  BY Names
<1>3. \A x \in 0 .. 4, y \in 0 .. 4 : PanelOf(x) = PanelOf(y) => x = y
  BY Names
<1>4. \A x \in 0 .. 4, y \in 0 .. 4 : OperatorName(x) = OperatorName(y) => x = y
  BY Names
<1> QED BY <1>1, <1>2, <1>3, <1>4

\* The names of the places that have parameters.
ParameterNames == {OperatorName(n) : n \in OpnPlaces}
\* The names of the panels.
PanelNames == {PanelOf(n) : n \in OpnPlaces}

\* The parameters of a place are those of its name,
LEMMA ParametersAt ==
    ASSUME NEW i, NEW n \in OpnPlaces
    PROVE  OpnParameters(i)[OperatorName(n)] = [f \in KnobsAt(n) |-> OpnKnob(i, f, n)]
<1>1. PICK name : name = OperatorName(n)
  OBVIOUS
<1>2. PICK m : m = CHOOSE k \in OpnPlaces : OperatorName(k) = name
  OBVIOUS
<1>3. m = n
  <2>1. m \in OpnPlaces /\ OperatorName(m) = name
    BY <1>1, <1>2
  <2> QED BY <1>1, <2>1, NamesAreOfPlaces
<1>4. name \in {OperatorName(k) : k \in OpnPlaces}
  BY <1>1
<1>5. OpnParameters(i)[name] = [f \in KnobsAt(m) |-> OpnKnob(i, f, m)]
  BY <1>2, <1>4 DEF OpnParameters
<1> QED BY <1>1, <1>3, <1>5

\* and so are the panels.
LEMMA ShownAt ==
    ASSUME NEW i, NEW n \in OpnPlaces
    PROVE  OpnShown(i)[PanelOf(n)] = [f \in KnobsAt(n) \ {"blank"} |-> OpnKnob(i, f, n)]
<1>1. PICK name : name = PanelOf(n)
  OBVIOUS
<1>2. PICK m : m = CHOOSE k \in OpnPlaces : PanelOf(k) = name
  OBVIOUS
<1>3. m = n
  <2>1. m \in OpnPlaces /\ PanelOf(m) = name
    BY <1>1, <1>2
  <2> QED BY <1>1, <2>1, NamesAreOfPlaces
<1>4. name \in {PanelOf(k) : k \in OpnPlaces}
  BY <1>1
<1>5. OpnShown(i)[name] = [f \in KnobsAt(m) \ {"blank"} |-> OpnKnob(i, f, m)]
  BY <1>2, <1>4 DEF OpnShown
<1> QED BY <1>1, <1>3, <1>5

\* A field has as many values in one place as in the other, of those it is in.
LEMMA SameEverywhere ==
    ASSUME NEW n, NEW m, NEW f \in WholeFields \cup OperatorFields
    PROVE  /\ GreatestOf(OpnLayout(f, n)) = GreatestOf(OpnLayout(f, m))
           /\ GreatestOf(OpnLayout(f, n)) \in Nat \ {0}
<1>1. OpnTableOf(n) /\ OpnTableOf(m)
  BY OpnTable
<1>2. Size(OpnLayout(f, n)) = Size(OpnLayout(f, m))
  BY <1>1 DEF OpnTableOf, IsAt, WholeFields, OperatorFields
<1>3. Size(OpnLayout(f, n)) \in {2, 4, 8, 16, 32, 128}
  BY <1>1 DEF OpnTableOf, IsAt, WholeFields, OperatorFields
<1>4. /\ GreatestOf(OpnLayout(f, n)) = Size(OpnLayout(f, n)) - 1
      /\ GreatestOf(OpnLayout(f, m)) = Size(OpnLayout(f, m)) - 1
  BY DEF GreatestOf, Size
<1> QED BY <1>2, <1>3, <1>4

\* The range of a parameter.
RangeOf(f, n) ==
    CASE f \in {"tune", "veloffset"} -> -127 .. 127
      [] f = "drumnote" -> 0 .. 255
      [] OTHER -> 0 .. GreatestOf(OpnLayout(f, n))

\* What holds a value of every parameter of a place.
AreKnobsAt(q, n) == q \in [KnobsAt(n) -> Int] /\ \A f \in KnobsAt(n) : q[f] \in RangeOf(f, n)
\* And of every place.
AreOpnKnobs(p) ==
    /\ DOMAIN p = ParameterNames /\ p = [name \in ParameterNames |-> p[name]]
    /\ \A n \in OpnPlaces : AreKnobsAt(p[OperatorName(n)], n)

\* The fields of registers, and the others.
LEMMA KnobsByKind ==
    ASSUME NEW n \in OpnPlaces, NEW f \in KnobsAt(n)
    PROVE  /\ f \in ValueFields => n = Whole
           /\ f \notin ValueFields => /\ f \in FieldsAt(n) /\ f \in HeldAt(n)
                                      /\ RangeOf(f, n) = 0 .. GreatestOf(OpnLayout(f, n))
                                      /\ \A i : OpnKnob(i, f, n) = OpnField(i, f, n)
           /\ \A g \in FieldsAt(n) : g \in KnobsAt(n) /\ g \in HeldAt(n) /\ g \notin ValueFields
<1>1. \A g \in WholeFields \cup OperatorFields : g \notin ValueFields
  BY DEF WholeFields, OperatorFields, ValueFields
<1>2. f \in ValueFields => n = Whole
  BY <1>1 DEF KnobsAt
<1>3. f \notin ValueFields => f \in FieldsAt(n) /\ f \in HeldAt(n)
  BY DEF KnobsAt, FieldsAt, HeldAt
<1>4. f \notin ValueFields => RangeOf(f, n) = 0 .. GreatestOf(OpnLayout(f, n))
  BY DEF RangeOf, ValueFields
<1>5. f \notin ValueFields => \A i : OpnKnob(i, f, n) = OpnField(i, f, n)
  BY DEF OpnKnob, ValueFields
<1>6. \A g \in FieldsAt(n) : g \in KnobsAt(n) /\ g \in HeldAt(n) /\ g \notin ValueFields
  BY <1>1 DEF KnobsAt, FieldsAt, HeldAt
<1> QED BY <1>2, <1>3, <1>4, <1>5, <1>6

\* The parameters are of integers.
LEMMA RangesAreOfIntegers ==
    ASSUME NEW n \in OpnPlaces, NEW f \in KnobsAt(n), NEW x \in RangeOf(f, n)
    PROVE  x \in Int
<1>1. CASE f \in {"tune", "veloffset"}
  BY <1>1 DEF RangeOf
<1>2. CASE f = "drumnote"
  BY <1>2 DEF RangeOf
<1>3. CASE f \notin ValueFields
  <2>1. x \in 0 .. GreatestOf(OpnLayout(f, n))
    BY <1>3, KnobsByKind
  <2> QED BY <2>1
<1> QED BY <1>1, <1>2, <1>3 DEF ValueFields

\* set_instrument gives the parameters values of theirs.
LEMMA OpnParametersType ==
    ASSUME NEW i, IsOpnInstrument(i)
    PROVE  AreOpnKnobs(OpnParameters(i))
<1>1. ASSUME NEW n \in OpnPlaces, NEW f \in KnobsAt(n)
      PROVE  OpnKnob(i, f, n) \in RangeOf(f, n)
  <2>1. CASE f = "tune"
    <3>1. OpnKnob(i, f, n) = OpnWithin(-127, 127, i.note_offset)
      BY <2>1 DEF OpnKnob
    <3>2. OpnWithin(-127, 127, i.note_offset) \in -127 .. 127
      BY DEF OpnWithin, IsOpnInstrument
    <3> QED BY <2>1, <3>1, <3>2 DEF RangeOf
  <2>2. CASE f = "veloffset"
    <3>1. OpnKnob(i, f, n) = OpnWithin(-127, 127, i.velocity)
      BY <2>2 DEF OpnKnob
    <3>2. i.velocity \in Int
      BY DEF IsOpnInstrument
    <3>3. OpnWithin(-127, 127, i.velocity) \in -127 .. 127
      BY <3>2 DEF OpnWithin
    <3> QED BY <2>2, <3>1, <3>3 DEF RangeOf
  <2>3. CASE f = "drumnote"
    BY <2>3 DEF OpnKnob, RangeOf, IsOpnInstrument
  <2>4. CASE f \notin ValueFields
    <3>1. f \in HeldAt(n) /\ OpnKnob(i, f, n) = OpnField(i, f, n)
      BY <2>4, KnobsByKind
    <3>2. AreBytes(i.bytes)
      BY DEF AreBytes, IsOpnInstrument
    <3>3. OpnField(i, f, n) \in 0 .. GreatestOf(OpnLayout(f, n))
      BY <3>1, <3>2, OpnFieldType DEF OpnField
    <3> QED BY <2>4, <3>1, <3>3, KnobsByKind
  <2> QED BY <2>1, <2>2, <2>3, <2>4 DEF ValueFields
<1>2. ASSUME NEW n \in OpnPlaces
      PROVE  AreKnobsAt(OpnParameters(i)[OperatorName(n)], n)
  <2>1. PICK q : q = [f \in KnobsAt(n) |-> OpnKnob(i, f, n)]
    OBVIOUS
  <2>2. \A f \in KnobsAt(n) : q[f] \in RangeOf(f, n) /\ q[f] \in Int
    BY <1>1, <2>1, RangesAreOfIntegers
  <2>3. q \in [KnobsAt(n) -> Int]
    BY <2>1, <2>2
  <2> QED BY <2>1, <2>2, <2>3, ParametersAt DEF AreKnobsAt
<1>3. /\ DOMAIN OpnParameters(i) = ParameterNames
      /\ OpnParameters(i) = [name \in ParameterNames |-> OpnParameters(i)[name]]
  BY DEF OpnParameters, ParameterNames
<1> QED BY <1>2, <1>3 DEF AreOpnKnobs

(***************************************************************************)
(* The conversions.                                                        *)
(***************************************************************************)

\* Values of every field, for the accessors of every place.
AreValues(values) ==
    \A n \in OpnPlaces : \A f \in FieldsAt(n) :
        values[n][f] \in 0 .. GreatestOf(OpnLayout(f, n))

\* The bytes when the accessors of those places were gone through that are done.
AfterPlaces(bytes, values, new, done) ==
    /\ AreBytes(new)
    /\ \A n \in OpnPlaces : \A f \in HeldAt(n) :
          Unpacked(new, OpnLayout(f, n)) =
             IF n \in done /\ f \in FieldsAt(n) THEN values[n][f]
                                             ELSE Unpacked(bytes, OpnLayout(f, n))

\* One more: each place has bytes of its own.
LEMMA OneMorePlace ==
    ASSUME NEW bytes, NEW values, AreValues(values), NEW new, NEW done,
           AfterPlaces(bytes, values, new, done),
           NEW place, NEW next, next = WithPlace(new, place, values)
    PROVE  AfterPlaces(bytes, values, next, done \cup {place})
<1>1. CASE place \notin OpnPlaces
  <2>1. next = new
    BY <1>1 DEF WithPlace
  <2>2. \A n \in OpnPlaces : n \in done \cup {place} <=> n \in done
    BY <1>1
  <2> QED BY <2>1, <2>2 DEF AfterPlaces
<1>2. CASE place \in OpnPlaces
  <2>1. next = WithFieldsAt(new, place, values[place])
    BY <1>2 DEF WithPlace
  <2>2. AfterAt(new, place, values[place], next, FieldsAt(place))
    BY <1>2, <2>1, FieldsAtAreSet DEF AfterPlaces, AreValues
  <2>3. ASSUME NEW n \in OpnPlaces, NEW f \in HeldAt(n)
        PROVE  Unpacked(next, OpnLayout(f, n)) =
                  IF n \in done \cup {place} /\ f \in FieldsAt(n) THEN values[n][f]
                                                       ELSE Unpacked(bytes, OpnLayout(f, n))
    <3>1. PICK layout : layout = OpnLayout(f, n)
      OBVIOUS
    <3>2. Unpacked(new, layout) =
             IF n \in done /\ f \in FieldsAt(n) THEN values[n][f] ELSE Unpacked(bytes, layout)
      BY <3>1 DEF AfterPlaces
    <3>3. CASE n = place
      <4>1. Unpacked(next, layout) =
               IF f \in FieldsAt(n) THEN values[n][f] ELSE Unpacked(new, layout)
        BY <2>2, <3>1, <3>3 DEF AfterAt
      <4> QED BY <3>1, <3>2, <3>3, <4>1
    <3>4. CASE n # place
      <4>1. layout.register \in OpnRegisters /\ layout.register[1] = n
        BY <3>1, OpnEveryField
      <4>2. next[layout.register] = new[layout.register]
        BY <2>2, <3>4, <4>1 DEF AfterAt
      <4>3. Unpacked(next, layout) = Unpacked(new, layout)
        BY <4>2 DEF Unpacked, BitsAt
      <4> QED BY <3>1, <3>2, <3>4, <4>3
    <3> QED BY <3>3, <3>4
  <2> QED BY <2>2, <2>3 DEF AfterPlaces, AfterAt
<1> QED BY <1>1, <1>2

\* The accessors of every place set their fields, and leave the others as they were.
LEMMA PlacesAreSet ==
    ASSUME NEW i, IsOpnInstrument(i), NEW values, AreValues(values),
           NEW j, j = WithOpnFields(i, values)
    PROVE  /\ IsOpnInstrument(j) /\ j.note_offset = i.note_offset /\ j.velocity = i.velocity
           /\ j.key = i.key /\ j.delay = i.delay
           /\ \A n \in OpnPlaces : \A f \in HeldAt(n) :
                 OpnField(j, f, n) =
                    IF f \in FieldsAt(n) THEN values[n][f] ELSE OpnField(i, f, n)
<1>1. PICK bytes : bytes = i.bytes
  OBVIOUS
<1>2. AfterPlaces(bytes, values, bytes, {})
  BY <1>1 DEF AfterPlaces, AreBytes, IsOpnInstrument
<1>3. PICK b1 : b1 = WithPlace(bytes, Whole, values)
  OBVIOUS
<1>4. AfterPlaces(bytes, values, b1, {} \cup {Whole})
  BY <1>2, <1>3, OneMorePlace
<1>5. PICK b2 : b2 = WithPlace(b1, 0, values)
  OBVIOUS
<1>6. AfterPlaces(bytes, values, b2, ({} \cup {Whole}) \cup {0})
  BY <1>4, <1>5, OneMorePlace
<1>7. PICK b3 : b3 = WithPlace(b2, 1, values)
  OBVIOUS
<1>8. AfterPlaces(bytes, values, b3, (({} \cup {Whole}) \cup {0}) \cup {1})
  BY <1>6, <1>7, OneMorePlace
<1>9. PICK b4 : b4 = WithPlace(b3, 2, values)
  OBVIOUS
<1>10. AfterPlaces(bytes, values, b4, ((({} \cup {Whole}) \cup {0}) \cup {1}) \cup {2})
  BY <1>8, <1>9, OneMorePlace
<1>11. PICK new : new = WithPlace(b4, 3, values)
  OBVIOUS
<1>12. AfterPlaces(bytes, values, new, (((({} \cup {Whole}) \cup {0}) \cup {1}) \cup {2}) \cup {3})
  BY <1>10, <1>11, OneMorePlace
<1>13. OpnPlaces \subseteq (((({} \cup {Whole}) \cup {0}) \cup {1}) \cup {2}) \cup {3}
  BY PlacesThereAre
<1>14. j = [i EXCEPT !.bytes = new]
  BY <1>1, <1>3, <1>5, <1>7, <1>9, <1>11 DEF WithOpnFields
<1>15. /\ j.bytes = new /\ DOMAIN j = DOMAIN i /\ j.note_offset = i.note_offset
       /\ j.velocity = i.velocity /\ j.key = i.key /\ j.delay = i.delay
  BY <1>14 DEF IsOpnInstrument
<1>16. IsOpnInstrument(j)
  BY <1>12, <1>15 DEF AfterPlaces, AreBytes, IsOpnInstrument
<1>17. ASSUME NEW n \in OpnPlaces, NEW f \in HeldAt(n)
       PROVE  OpnField(j, f, n) = IF f \in FieldsAt(n) THEN values[n][f] ELSE OpnField(i, f, n)
  BY <1>1, <1>12, <1>13, <1>15 DEF AfterPlaces, OpnField
<1> QED BY <1>15, <1>16, <1>17

\* instrument() makes an instrument of the parameters: set_instrument finds them in it
\* again, and there is the same as before where there is no parameter.
LEMMA OpnParametersAreApplied ==
    ASSUME NEW i, IsOpnInstrument(i), NEW p, AreOpnKnobs(p),
           NEW j, j = FromOpnParameters(i, p)
    PROVE  IsOpnInstrument(j) /\ OpnKeptOf(j) = OpnKeptOf(i) /\ OpnParameters(j) = p
<1>1. PICK values : values = [place \in OpnPlaces |-> p[OperatorName(place)]]
  OBVIOUS
<1>2. PICK k : k = WithOpnFields(i, values)
  OBVIOUS
<1>3. AreValues(values)
  <2>1. ASSUME NEW n \in OpnPlaces, NEW f \in FieldsAt(n)
        PROVE  values[n][f] \in 0 .. GreatestOf(OpnLayout(f, n))
    <3>1. f \in KnobsAt(n) /\ f \notin ValueFields
      BY DEF FieldsAt, KnobsAt, WholeFields, OperatorFields, ValueFields
    <3>2. p[OperatorName(n)][f] \in RangeOf(f, n)
      BY <3>1 DEF AreOpnKnobs, AreKnobsAt
    <3> QED BY <1>1, <3>1, <3>2, KnobsByKind
  <2> QED BY <2>1 DEF AreValues
<1>4. /\ IsOpnInstrument(k) /\ k.delay = i.delay
      /\ \A n \in OpnPlaces : \A f \in HeldAt(n) :
            OpnField(k, f, n) = IF f \in FieldsAt(n) THEN values[n][f] ELSE OpnField(i, f, n)
  BY <1>2, <1>3, PlacesAreSet
<1>5. PICK q : q = p["whole"]
  OBVIOUS
<1>6. OperatorName(Whole) = "whole" /\ Whole \in OpnPlaces
  BY Names, PlacesThereAre
<1>7. AreKnobsAt(q, Whole)
  BY <1>5, <1>6 DEF AreOpnKnobs
<1>8. q.tune \in -127 .. 127 /\ q.veloffset \in -127 .. 127 /\ q.drumnote \in 0 .. 255
  <2>1. {"tune", "veloffset", "drumnote"} \subseteq KnobsAt(Whole)
    BY DEF KnobsAt, ValueFields
  <2>2. /\ RangeOf("tune", Whole) = -127 .. 127 /\ RangeOf("veloffset", Whole) = -127 .. 127
        /\ RangeOf("drumnote", Whole) = 0 .. 255
    BY DEF RangeOf
  <2> QED BY <1>7, <2>1, <2>2 DEF AreKnobsAt
<1>9. j = [k EXCEPT !.note_offset = q.tune, !.velocity = q.veloffset, !.key = q.drumnote]
  BY <1>1, <1>2, <1>5 DEF FromOpnParameters
<1>10. /\ DOMAIN j = DOMAIN k /\ j.bytes = k.bytes /\ j.delay = k.delay
       /\ j.note_offset = q.tune /\ j.velocity = q.veloffset /\ j.key = q.drumnote
  BY <1>4, <1>9 DEF IsOpnInstrument
<1>11. IsOpnInstrument(j)
  <2>1. q.tune \in Int /\ -32768 <= q.tune /\ q.tune <= 32767
    BY <1>8
  <2>2. q.veloffset \in -128 .. 127
    BY <1>8
  <2> QED BY <1>4, <1>8, <1>10, <2>1, <2>2 DEF IsOpnInstrument
<1>12. \A f, n : OpnField(j, f, n) = OpnField(k, f, n)
  BY <1>10 DEF OpnField
<1>13. OpnKeptOf(j) = OpnKeptOf(i)
  <2>1. "pseudo_eight_op" \in HeldAt(Whole) /\ "pseudo_eight_op" \notin FieldsAt(Whole)
    BY DEF HeldAt, FieldsAt, WholeFields
  <2>2. OpnField(j, "pseudo_eight_op", Whole) = OpnField(i, "pseudo_eight_op", Whole)
    BY <1>4, <1>6, <1>12, <2>1
  <2> QED BY <1>4, <1>10, <2>2 DEF OpnKeptOf
<1>14. ASSUME NEW n \in OpnPlaces, NEW f \in KnobsAt(n)
       PROVE  OpnKnob(j, f, n) = p[OperatorName(n)][f]
  <2>1. CASE f \in ValueFields
    <3>1. n = Whole
      BY <2>1, KnobsByKind
    <3>2. p[OperatorName(n)] = q
      BY <1>5, <1>6, <3>1
    <3>3. CASE f = "tune"
      <4>1. OpnKnob(j, f, n) = OpnWithin(-127, 127, q.tune)
        BY <1>10, <3>3 DEF OpnKnob
      <4> QED BY <1>8, <3>2, <3>3, <4>1 DEF OpnWithin
    <3>4. CASE f = "veloffset"
      <4>1. OpnKnob(j, f, n) = OpnWithin(-127, 127, q.veloffset)
        BY <1>10, <3>4 DEF OpnKnob
      <4> QED BY <1>8, <3>2, <3>4, <4>1 DEF OpnWithin
    <3>5. CASE f = "drumnote"
      BY <1>10, <3>2, <3>5 DEF OpnKnob
    <3> QED BY <2>1, <3>3, <3>4, <3>5 DEF ValueFields
  <2>2. CASE f \notin ValueFields
    <3>1. f \in FieldsAt(n) /\ f \in HeldAt(n) /\ OpnKnob(j, f, n) = OpnField(j, f, n)
      BY <2>2, KnobsByKind
    <3> QED BY <1>1, <1>4, <1>12, <3>1
  <2> QED BY <2>1, <2>2
<1>15. OpnParameters(j) = p
  <2>1. ASSUME NEW n \in OpnPlaces PROVE OpnParameters(j)[OperatorName(n)] = p[OperatorName(n)]
    <3>1. p[OperatorName(n)] \in [KnobsAt(n) -> Int]
      BY DEF AreOpnKnobs, AreKnobsAt
    <3>2. OpnParameters(j)[OperatorName(n)] = [f \in KnobsAt(n) |-> p[OperatorName(n)][f]]
      BY <1>14, ParametersAt
    <3> QED BY <3>1, <3>2
  <2>2. \A name \in ParameterNames : OpnParameters(j)[name] = p[name]
    BY <2>1 DEF ParameterNames
  <2>3. /\ OpnParameters(j) = [name \in ParameterNames |-> OpnParameters(j)[name]]
        /\ p = [name \in ParameterNames |-> p[name]]
    BY <1>11, OpnParametersType DEF AreOpnKnobs
  <2> QED BY <2>2, <2>3
<1> QED BY <1>11, <1>13, <1>15

\* A blank instrument is one.
LEMMA NewIsOpnInstrument == IsOpnInstrument(NewOpnInstrument)
<1>1. PICK bytes : bytes = [r \in OpnRegisters |-> IF r[2] = "inst_flags" THEN 2 ELSE 0]
  OBVIOUS
<1>2. bytes \in [OpnRegisters -> 0 .. 255]
  BY <1>1
<1>3. NewOpnInstrument = [bytes |-> bytes, note_offset |-> 0, velocity |-> 0, key |-> 0,
                          delay |-> 0]
  BY <1>1 DEF NewOpnInstrument
<1> QED BY <1>2, <1>3 DEF IsOpnInstrument

\* A project keeps what there is no parameter for: to_properties writes the pseudo 8-op
\* flag too, and from_properties finds all of it in its ranges.
LEMMA OpnPropertiesKeep ==
    ASSUME NEW i, IsOpnInstrument(i), NEW j, j = FromOpnProperties(OpnProperties(i))
    PROVE  IsOpnInstrument(j) /\ OpnKeptOf(j) = OpnKeptOf(i)
<1>1. PICK values : values = [place \in OpnPlaces |->
                                 [f \in FieldsAt(place) |-> OpnField(i, f, place)]]
  OBVIOUS
<1>2. AreBytes(i.bytes)
  BY DEF IsOpnInstrument, AreBytes
<1>3. AreValues(values)
  <2>1. ASSUME NEW n \in OpnPlaces, NEW f \in FieldsAt(n)
        PROVE  values[n][f] \in 0 .. GreatestOf(OpnLayout(f, n))
    <3>1. f \in HeldAt(n)
      BY DEF FieldsAt, HeldAt
    <3>2. values[n][f] = OpnField(i, f, n)
      BY <1>1
    <3> QED BY <1>2, <3>1, <3>2, OpnFieldType DEF OpnField
  <2> QED BY <2>1 DEF AreValues
<1>4. PICK k : k = WithOpnFields(NewOpnInstrument, values)
  OBVIOUS
<1>5. IsOpnInstrument(k)
  BY <1>3, <1>4, NewIsOpnInstrument, PlacesAreSet
<1>6. PICK layout : layout = OpnLayout("pseudo_eight_op", Whole)
  OBVIOUS
<1>7. "pseudo_eight_op" \in HeldAt(Whole) /\ Whole \in OpnPlaces
  BY PlacesThereAre DEF HeldAt
<1>8. PICK eight \in 0 .. GreatestOf(layout) : eight = OpnField(i, "pseudo_eight_op", Whole)
  BY <1>2, <1>6, <1>7, OpnFieldType DEF OpnField
<1>9. PICK bytes : bytes = Packed(k.bytes, layout, eight)
  OBVIOUS
<1>10. AreBytes(k.bytes)
  BY <1>5 DEF IsOpnInstrument, AreBytes
<1>11. AreBytes(bytes) /\ Unpacked(bytes, layout) = eight
  BY <1>6, <1>7, <1>9, <1>10, OpnFieldIsSet
<1>12. PICK set : set = OpnProperties(i)
  OBVIOUS
<1>13. /\ set.fields = values /\ set.pseudo_eight_op = eight /\ set.note_offset = i.note_offset
       /\ set.velocity = i.velocity /\ set.key = i.key /\ set.delay = i.delay
  BY <1>1, <1>8, <1>12 DEF OpnProperties
<1>14. PICK offset, velocity, key, delay :
          /\ offset = OpnWithin(-32768, 32767, set.note_offset)
          /\ velocity = OpnWithin(-128, 127, set.velocity)
          /\ key = OpnWithin(0, 255, set.key) /\ delay = OpnWithin(0, 65535, set.delay)
  OBVIOUS
<1>15. FromOpnProperties(set) =
          [WithOpnFields(NewOpnInstrument, set.fields) EXCEPT
              !.bytes = Packed(WithOpnFields(NewOpnInstrument, set.fields).bytes,
                               OpnLayout("pseudo_eight_op", Whole), set.pseudo_eight_op),
              !.note_offset = offset, !.velocity = velocity, !.key = key, !.delay = delay]
  BY <1>14 DEF FromOpnProperties
<1>16. j = [k EXCEPT !.bytes = bytes, !.note_offset = offset, !.velocity = velocity,
                     !.key = key, !.delay = delay]
  BY <1>4, <1>6, <1>9, <1>12, <1>13, <1>15
<1>17. /\ offset = i.note_offset /\ velocity = i.velocity /\ key = i.key /\ delay = i.delay
  <2>1. i.velocity \in -128 .. 127 /\ i.key \in 0 .. 255
    BY DEF IsOpnInstrument
  <2>2. OpnWithin(-128, 127, i.velocity) = i.velocity /\ OpnWithin(0, 255, i.key) = i.key
    BY <2>1 DEF OpnWithin
  <2>3. /\ OpnWithin(-32768, 32767, i.note_offset) = i.note_offset
        /\ OpnWithin(0, 65535, i.delay) = i.delay
    BY DEF IsOpnInstrument, OpnWithin
  <2> QED BY <1>13, <1>14, <2>2, <2>3
<1>18. /\ DOMAIN j = DOMAIN k /\ j.bytes = bytes /\ j.note_offset = offset
       /\ j.velocity = velocity /\ j.key = key /\ j.delay = delay
  BY <1>5, <1>16 DEF IsOpnInstrument
<1>19. IsOpnInstrument(j)
  BY <1>5, <1>11, <1>17, <1>18 DEF IsOpnInstrument, AreBytes
<1> QED BY <1>6, <1>8, <1>11, <1>17, <1>18, <1>19 DEF OpnKeptOf, OpnField

\* A file is loaded as it is, and what is written to one is an instrument of a file.
LEMMA OpnFilesKeep ==
    ASSUME NEW i, IsOpnInstrument(i)
    PROVE  /\ IsOpnInstrument(FromWopn(i)) /\ OpnKeptOf(FromWopn(i)) = OpnKeptOf(i)
           /\ IsOpnInstrument(ToWopn(i)) /\ OpnKeptOf(ToWopn(i)) = OpnKeptOf(i)
<1>1. DOMAIN NewOpnInstrument = {"bytes", "note_offset", "velocity", "key", "delay"}
  BY DEF NewOpnInstrument
<1>2. PICK j : j = FromWopn(i)
  OBVIOUS
<1>3. /\ DOMAIN j = DOMAIN i /\ j.bytes = i.bytes /\ j.note_offset = i.note_offset
      /\ j.velocity = i.velocity /\ j.key = i.key /\ j.delay = i.delay
  BY <1>1, <1>2 DEF FromWopn, IsOpnInstrument
<1>4. PICK k : k = ToWopn(i)
  OBVIOUS
<1>5. /\ DOMAIN k = DOMAIN i /\ k.bytes = i.bytes /\ k.note_offset = i.note_offset
      /\ k.velocity = i.velocity /\ k.key = i.key /\ k.delay = i.delay
  BY <1>4 DEF ToWopn, IsOpnInstrument
<1>6. IsOpnInstrument(j) /\ IsOpnInstrument(k)
  <2>1. IsOpnInstrument(j)
    BY <1>3 DEF IsOpnInstrument
  <2>2. IsOpnInstrument(k)
    BY <1>5 DEF IsOpnInstrument
  <2> QED BY <2>1, <2>2
<1>7. OpnKeptOf(j) = OpnKeptOf(i) /\ OpnKeptOf(k) = OpnKeptOf(i)
  BY <1>3, <1>5 DEF OpnKeptOf, OpnField
<1> QED BY <1>2, <1>4, <1>6, <1>7

(***************************************************************************)
(* The steps of a part.                                                    *)
(***************************************************************************)

\* The instrument of a part is one, its parameters have values, every panel shows what it is
\* for, what there is no parameter for is as it was loaded, and unless there are changes to
\* apply the parameters and the panels are those of the instrument.
OpnIInv ==
    /\ IsOpnInstrument(opnIns) /\ AreOpnKnobs(opnParams) /\ opnUnapplied \in BOOLEAN
    /\ DOMAIN opnPanels = PanelNames
    /\ \A n \in OpnPlaces : DOMAIN opnPanels[PanelOf(n)] = KnobsAt(n) \ {"blank"}
    /\ opnKept = OpnKeptOf(opnIns)
    /\ ~opnUnapplied => opnParams = OpnParameters(opnIns) /\ opnPanels = OpnShown(opnIns)

\* Of every file there is an instrument.
LEMMA OpnFilesAreInstruments == \A file \in OpnFiles : IsOpnInstrument(file)
BY OpnAssumption

\* Every panel of an instrument is there, with its controls.
LEMMA ShownPanels ==
    ASSUME NEW i
    PROVE  /\ DOMAIN OpnShown(i) = PanelNames
           /\ \A n \in OpnPlaces : DOMAIN OpnShown(i)[PanelOf(n)] = KnobsAt(n) \ {"blank"}
<1>1. DOMAIN OpnShown(i) = PanelNames
  BY DEF OpnShown, PanelNames
<1>2. ASSUME NEW n \in OpnPlaces
      PROVE  DOMAIN OpnShown(i)[PanelOf(n)] = KnobsAt(n) \ {"blank"}
  <2>1. OpnShown(i)[PanelOf(n)] = [f \in KnobsAt(n) \ {"blank"} |-> OpnKnob(i, f, n)]
    BY ShownAt
  <2> QED BY <2>1
<1> QED BY <1>1, <1>2

\* When the instrument is shown, the parameters and the panels are those of it.
LEMMA OpnShownInstrument ==
    ASSUME NEW i, IsOpnInstrument(i), OpnShows(i), opnKept' = OpnKeptOf(i)
    PROVE  OpnIInv'
<1>1. AreOpnKnobs(OpnParameters(i))
  BY OpnParametersType
<1>2. /\ opnIns' = i /\ opnParams' = OpnParameters(i) /\ opnPanels' = OpnShown(i)
      /\ opnUnapplied' = FALSE
  BY DEF OpnShows
<1> QED BY <1>1, <1>2, ShownPanels DEF OpnIInv

\* A parameter that is set to a value of it still has one.
LEMMA OpnKnobIsSet ==
    ASSUME NEW p, AreOpnKnobs(p), NEW n \in OpnPlaces, NEW f \in KnobsAt(n),
           NEW value \in RangeOf(f, n), NEW name, name = OperatorName(n)
    PROVE  AreOpnKnobs([p EXCEPT ![name][f] = value])
<1>1. PICK q : q = [p[name] EXCEPT ![f] = value]
  OBVIOUS
<1>2. PICK r : r = [p EXCEPT ![name] = q]
  OBVIOUS
<1>3. r = [p EXCEPT ![name][f] = value]
  BY <1>1, <1>2
<1>4. name \in ParameterNames
  BY DEF ParameterNames
<1>5. AreKnobsAt(q, n)
  <2>1. AreKnobsAt(p[name], n)
    BY DEF AreOpnKnobs
  <2>2. value \in Int
    BY RangesAreOfIntegers
  <2> QED BY <1>1, <2>1, <2>2 DEF AreKnobsAt
<1>6. /\ DOMAIN r = ParameterNames /\ r[name] = q
      /\ \A other \in ParameterNames : other # name => r[other] = p[other]
  BY <1>2, <1>4 DEF AreOpnKnobs
<1>7. r = [other \in ParameterNames |-> r[other]]
  BY <1>2, <1>4, <1>6 DEF AreOpnKnobs
<1>8. ASSUME NEW m \in OpnPlaces PROVE AreKnobsAt(r[OperatorName(m)], m)
  <2>1. CASE m = n
    BY <1>5, <1>6, <2>1
  <2>2. CASE m # n
    <3>1. OperatorName(m) # name
      BY <2>2, NamesAreOfPlaces
    <3>2. r[OperatorName(m)] = p[OperatorName(m)]
      BY <1>6, <3>1 DEF ParameterNames
    <3> QED BY <3>2 DEF AreOpnKnobs
  <2> QED BY <2>1, <2>2
<1> QED BY <1>3, <1>6, <1>7, <1>8 DEF AreOpnKnobs

\* The values a control or the host sets are values of the parameter.
LEMMA OpnChoicesAreValues ==
    ASSUME NEW n \in OpnPlaces, NEW f \in KnobsAt(n), NEW value \in OpnChoices(f)
    PROVE  value \in RangeOf(f, n)
<1>1. CASE f \in {"tune", "veloffset"}
  BY <1>1 DEF OpnChoices, RangeOf
<1>2. CASE f = "drumnote"
  BY <1>2 DEF OpnChoices, RangeOf
<1>3. CASE f \notin ValueFields
  <2>1. f \in WholeFields \cup OperatorFields
    BY <1>3 DEF KnobsAt, ValueFields
  <2>2. PICK greatest \in Nat \ {0} : /\ greatest = GreatestOf(OpnLayout(f, n))
                                      /\ greatest = GreatestOf(OpnLayout(f, Whole))
    BY <2>1, SameEverywhere
  <2>3. value \in {0, greatest}
    BY <1>3, <2>2 DEF OpnChoices, ValueFields
  <2>4. value \in 0 .. greatest
    BY <2>3
  <2> QED BY <1>3, <2>2, <2>4, KnobsByKind
<1> QED BY <1>1, <1>2, <1>3 DEF ValueFields

\* When a parameter is set, by a panel or by the host, the changes are not applied.
LEMMA OpnKnobTurned ==
    ASSUME OpnIInv, NEW n \in OpnPlaces, NEW f \in KnobsAt(n), NEW value \in RangeOf(f, n),
           NEW name, name = OperatorName(n), OpnSet(name, f, value),
           opnPanels' = opnPanels \/ opnPanels' = [opnPanels EXCEPT ![PanelOf(n)][f] = value]
    PROVE  OpnIInv'
<1>1. AreOpnKnobs([opnParams EXCEPT ![name][f] = value])
  BY OpnKnobIsSet DEF OpnIInv
<1>2. /\ opnParams' = [opnParams EXCEPT ![name][f] = value] /\ opnUnapplied' = TRUE
      /\ opnIns' = opnIns /\ opnKept' = opnKept
  BY DEF OpnSet
<1>3. /\ DOMAIN opnPanels' = DOMAIN opnPanels
      /\ \A panel \in DOMAIN opnPanels : DOMAIN opnPanels'[panel] = DOMAIN opnPanels[panel]
  OBVIOUS
<1>4. \A m \in OpnPlaces : PanelOf(m) \in DOMAIN opnPanels
  BY DEF OpnIInv, PanelNames
<1>5. \A m \in OpnPlaces : DOMAIN opnPanels'[PanelOf(m)] = KnobsAt(m) \ {"blank"}
  BY <1>3, <1>4 DEF OpnIInv
<1> QED BY <1>1, <1>2, <1>3, <1>5 DEF OpnIInv

\* A control of a panel sets the parameter of the same name of the panel's operator.
LEMMA OpnPanelTurned ==
    ASSUME OpnIInv, NEW panel \in DOMAIN opnPanels, NEW f, NEW value, OpnTurn(panel, f, value),
           \A n \in OpnPlaces : PanelOf(n) = panel => f \in KnobsAt(n) /\ value \in RangeOf(f,
                 n)
    PROVE  OpnIInv'
<1>1. PICK n \in OpnPlaces : PanelOf(n) = panel
  BY DEF OpnIInv, PanelNames
<1>2. NumberOf(panel) = n
  BY <1>1, NamesAreOfPlaces
<1>3. PICK name : name = OperatorName(n)
  OBVIOUS
<1>4. OpnSet(name, f, value) /\ opnPanels' = [opnPanels EXCEPT ![PanelOf(n)][f] = value]
  BY <1>1, <1>2, <1>3 DEF OpnTurn
<1>5. f \in KnobsAt(n) /\ value \in RangeOf(f, n)
  BY <1>1
<1> QED BY <1>3, <1>4, <1>5, OpnKnobTurned

\* The invariant holds at first and after every step.
LEMMA OpnInductive ==
    /\ OpnInit => OpnIInv
    /\ OpnIInv /\ [OpnNext]_opnVars => OpnIInv'
<1>1. ASSUME OpnInit PROVE OpnIInv
  <2>1. IsOpnInstrument(opnIns)
    BY <1>1, OpnFilesAreInstruments, OpnFilesKeep DEF OpnInit
  <2>2. AreOpnKnobs(OpnParameters(opnIns))
    BY <2>1, OpnParametersType
  <2> QED BY <1>1, <2>1, <2>2, ShownPanels DEF OpnInit, OpnIInv
<1>2. ASSUME OpnIInv, NEW file \in OpnFiles, OpnLoad(file)
      PROVE  OpnIInv'
  <2>1. PICK j : j = FromWopn(file)
    OBVIOUS
  <2>2. IsOpnInstrument(j) /\ OpnKeptOf(j) = OpnKeptOf(file)
    BY <2>1, OpnFilesAreInstruments, OpnFilesKeep
  <2>3. OpnShows(j) /\ opnKept' = OpnKeptOf(j)
    BY <1>2, <2>1, <2>2 DEF OpnLoad
  <2> QED BY <2>2, <2>3, OpnShownInstrument
<1>3. ASSUME OpnIInv, NEW panel \in DOMAIN opnPanels,
             NEW f \in (DOMAIN opnPanels[panel]) \ {"ssgwave"}, NEW value \in OpnChoices(f),
             OpnTurn(panel, f, value)
      PROVE  OpnIInv'
  <2>1. ASSUME NEW n \in OpnPlaces, PanelOf(n) = panel
        PROVE  f \in KnobsAt(n) /\ value \in RangeOf(f, n)
    <3>1. f \in KnobsAt(n)
      BY <1>3, <2>1 DEF OpnIInv
    <3> QED BY <3>1, OpnChoicesAreValues
  <2> QED BY <1>3, <2>1, OpnPanelTurned
<1>4. ASSUME OpnIInv, NEW panel \in (DOMAIN opnPanels) \ {"whole"}, NEW step \in {-1, 1},
             OpnNextWave(panel, step)
      PROVE  OpnIInv'
  <2>1. PICK n \in OpnPlaces : PanelOf(n) = panel
    BY <1>4 DEF OpnIInv, PanelNames
  <2>2. NumberOf(panel) = n /\ n # Whole
    BY <2>1, NamesAreOfPlaces
  <2>3. "ssgwave" \in KnobsAt(n) /\ "ssgwave" \in OperatorFields
    BY <2>2 DEF KnobsAt, OperatorFields
  <2>4. RangeOf("ssgwave", n) = 0 .. 7
    <3>1. OpnTableOf(n)
      BY OpnTable
    <3>2. GreatestOf(OpnLayout("ssgwave", n)) = 7
      BY <3>1 DEF OpnTableOf, IsAt, Size, GreatestOf
    <3> QED BY <3>2 DEF RangeOf
  <2>5. PICK wave : wave = opnParams[OperatorName(n)].ssgwave
    OBVIOUS
  <2>6. wave \in 0 .. 7
    BY <1>4, <2>3, <2>4, <2>5 DEF OpnIInv, AreOpnKnobs, AreKnobsAt
  <2>7. PICK value : value = OpnWithin(0, 7, wave + step)
    OBVIOUS
  <2>8. value \in 0 .. 7
    BY <2>6, <2>7 DEF OpnWithin
  <2>9. OpnTurn(panel, "ssgwave", value)
    BY <1>4, <2>2, <2>5, <2>7 DEF OpnNextWave
  <2>10. \A m \in OpnPlaces : PanelOf(m) = panel => m = n
    BY <2>1, NamesAreOfPlaces
  <2> QED BY <1>4, <2>3, <2>4, <2>8, <2>9, <2>10, OpnPanelTurned
<1>5. ASSUME OpnIInv, NEW name \in DOMAIN opnParams,
             NEW f \in (DOMAIN opnParams[name]) \cap {"level", "blank"},
             NEW value \in OpnChoices(f), OpnHostSets(name, f, value)
      PROVE  OpnIInv'
  <2>1. PICK n \in OpnPlaces : name = OperatorName(n)
    BY <1>5 DEF OpnIInv, AreOpnKnobs, ParameterNames
  <2>2. f \in KnobsAt(n)
    BY <1>5, <2>1 DEF OpnIInv, AreOpnKnobs, AreKnobsAt
  <2>3. value \in RangeOf(f, n)
    BY <2>2, OpnChoicesAreValues
  <2>4. OpnSet(name, f, value) /\ opnPanels' = opnPanels
    BY <1>5 DEF OpnHostSets
  <2> QED BY <1>5, <2>1, <2>2, <2>3, <2>4, OpnKnobTurned
<1>6. ASSUME OpnIInv, OpnApply
      PROVE  OpnIInv'
  <2>1. PICK j : j = FromOpnParameters(opnIns, opnParams)
    OBVIOUS
  <2>2. IsOpnInstrument(j) /\ OpnKeptOf(j) = OpnKeptOf(opnIns) /\ OpnParameters(j) = opnParams
    BY <1>6, <2>1, OpnParametersAreApplied DEF OpnIInv
  <2>3. /\ opnIns' = j /\ opnParams' = opnParams /\ opnPanels' = OpnShown(j)
        /\ opnUnapplied' = FALSE /\ opnKept' = opnKept
    BY <1>6, <2>1 DEF OpnApply
  <2> QED BY <1>6, <2>2, <2>3, ShownPanels DEF OpnIInv
<1>7. ASSUME OpnIInv, OpnWriteAndRead
      PROVE  OpnIInv'
  <2>1. PICK j : j = FromOpnProperties(OpnProperties(opnIns))
    OBVIOUS
  <2>2. IsOpnInstrument(j) /\ OpnKeptOf(j) = OpnKeptOf(opnIns)
    BY <1>7, <2>1, OpnPropertiesKeep DEF OpnIInv
  <2>3. OpnShows(j) /\ opnKept' = OpnKeptOf(j)
    BY <1>7, <2>1, <2>2 DEF OpnWriteAndRead, OpnIInv
  <2> QED BY <2>2, <2>3, OpnShownInstrument
<1>8. ASSUME OpnIInv, OpnSaveAndLoad
      PROVE  OpnIInv'
  <2>1. PICK j : j = FromWopn(ToWopn(opnIns))
    OBVIOUS
  <2>2. IsOpnInstrument(j) /\ OpnKeptOf(j) = OpnKeptOf(opnIns)
    BY <1>8, <2>1, OpnFilesKeep DEF OpnIInv
  <2>3. OpnShows(j) /\ opnKept' = OpnKeptOf(j)
    BY <1>8, <2>1, <2>2 DEF OpnSaveAndLoad, OpnIInv
  <2> QED BY <2>2, <2>3, OpnShownInstrument
<1>9. ASSUME OpnIInv, UNCHANGED opnVars PROVE OpnIInv'
  BY <1>9 DEF OpnIInv, opnVars
<1> QED BY <1>1, <1>2, <1>3, <1>4, <1>5, <1>6, <1>7, <1>8, <1>9 DEF OpnNext

(***************************************************************************)
(* What the chip takes.                                                    *)
(***************************************************************************)

\* What is read of a field, by its place.
LEMMA OpnReadFrom ==
    ASSUME NEW i, IsOpnInstrument(i), NEW n \in OpnPlaces, NEW f \in HeldAt(n),
           NEW layout, layout = OpnLayout(f, n)
    PROVE  OpnField(i, f, n) = IF layout.down
                               THEN Size(layout) - 1
                                      - At(i.bytes[layout.register], Unit(layout), Size(layout))
                               ELSE At(i.bytes[layout.register], Unit(layout), Size(layout))
<1>1. IsField(layout) /\ layout.register \in OpnRegisters
  BY OpnEveryField
<1>2. PICK bytes : bytes = i.bytes
  OBVIOUS
<1>3. layout.register \in DOMAIN bytes /\ bytes[layout.register] \in 0 .. 255
  BY <1>1, <1>2 DEF IsOpnInstrument
<1>4. OpnField(i, f, n) = Unpacked(bytes, layout)
  BY <1>2 DEF OpnField
<1> QED BY <1>1, <1>2, <1>3, <1>4, UnpackedByte

\* Two fields of which the one ends where the other starts, read as one.
LEMMA ReadTogether ==
    ASSUME NEW unit \in Nat \ {0}, NEW size \in Nat \ {0}, NEW p \in Nat \ {0},
           p = size * unit, NEW b \in Nat
    PROVE  b % p = unit * ((b \div unit) % size) + (b % unit)
<1>1. PICK q \in Nat, l \in 0 .. unit - 1 : b = q * unit + l
  BY Divided
<1>2. PICK g \in Nat, m \in 0 .. size - 1 : q = g * size + m
  BY Divided
<1>3. b \div unit = q /\ b % unit = l
  BY <1>1, Quotient
<1>4. q % size = m
  BY <1>2, Quotient
<1>5. PICK r : r = unit * m + l
  OBVIOUS
<1>6. r \in 0 .. p - 1
  <2>1. m * unit <= (size - 1) * unit /\ m * unit \in Nat
    OBVIOUS
  <2>2. (size - 1) * unit = p - unit
    OBVIOUS
  <2>3. r = m * unit + l
    BY <1>5
  <2> QED BY <2>1, <2>2, <2>3
<1>7. b = g * p + r
  BY <1>1, <1>2, <1>5
<1>8. b % p = r
  <2>1. p \in Nat \ {0} /\ g \in Int
    OBVIOUS
  <2>2. (g * p + r) % p = r
    BY ONLY <1>6, <2>1, Quotient
  <2> QED BY <1>7, <2>2
<1> QED BY <1>3, <1>4, <1>5, <1>8

\* The fields of an operator as the chip has them.
LEMMA OperatorByBits ==
    ASSUME NEW i, IsOpnInstrument(i), NEW n \in OpnOperators
    PROVE  /\ OpnField(i, "detune", n) = (i.bytes[<<n, "dtfm_30">>] \div 16) % 8
           /\ OpnField(i, "fmul", n) = i.bytes[<<n, "dtfm_30">>] % 16
           /\ OpnField(i, "level", n) = 127 - (i.bytes[<<n, "level_40">>] % 128)
           /\ OpnField(i, "ratescale", n) = i.bytes[<<n, "rsatk_50">>] \div 64
           /\ OpnField(i, "attack", n) = i.bytes[<<n, "rsatk_50">>] % 32
           /\ OpnField(i, "am", n) = i.bytes[<<n, "amdecay1_60">>] \div 128
           /\ OpnField(i, "decay1", n) = i.bytes[<<n, "amdecay1_60">>] % 32
           /\ OpnField(i, "decay2", n) = i.bytes[<<n, "decay2_70">>] % 32
           /\ OpnField(i, "sustain", n) = i.bytes[<<n, "susrel_80">>] \div 16
           /\ OpnField(i, "release", n) = i.bytes[<<n, "susrel_80">>] % 16
           /\ OpnField(i, "ssgenable", n) = (i.bytes[<<n, "ssgeg_90">>] \div 8) % 2
           /\ OpnField(i, "ssgwave", n) = i.bytes[<<n, "ssgeg_90">>] % 8
<1>0. /\ n \in OpnPlaces /\ IsOpnInstrument(i) /\ OpnTableOf(n)
      /\ OperatorFields = HeldAt(n)
  BY PlacesThereAre, OpnTable DEF HeldAt
<1>1. \A r \in OperatorRegisters : i.bytes[<<n, r>>] \in 0 .. 255
  <2>1. \A r \in OperatorRegisters : <<n, r>> \in OpnRegisters
    BY DEF OpnRegisters
  <2> QED BY <2>1 DEF IsOpnInstrument
<1>2. ASSUME NEW b \in 0 .. 255
      PROVE  /\ At(b, 1, 8) = b % 8
             /\ At(b, 1, 16) = b % 16
             /\ At(b, 1, 32) = b % 32
             /\ At(b, 1, 128) = b % 128
             /\ At(b, 8, 2) = (b \div 8) % 2
             /\ At(b, 16, 8) = (b \div 16) % 8
             /\ At(b, 16, 16) = b \div 16
             /\ At(b, 64, 4) = b \div 64
             /\ At(b, 128, 2) = b \div 128
  BY DEF At
<1>3. OpnField(i, "detune", n) = (i.bytes[<<n, "dtfm_30">>] \div 16) % 8
  <2>1. "detune" \in HeldAt(n) /\ "dtfm_30" \in OperatorRegisters
    BY <1>0 DEF OperatorFields, OperatorRegisters
  <2>2. PICK b \in 0 .. 255 : b = i.bytes[<<n, "dtfm_30">>]
    BY <1>1, <2>1
  <2>3. PICK layout : layout = OpnLayout("detune", n)
    OBVIOUS
  <2>4. /\ layout.register = <<n, "dtfm_30">> /\ layout.down = FALSE
        /\ Unit(layout) = 16 /\ Size(layout) = 8
    BY <1>0, <2>3 DEF OpnTableOf, IsAt
  <2>5. OpnField(i, "detune", n) = At(b, 16, 8)
    BY <1>0, <2>1, <2>2, <2>3, <2>4, OpnReadFrom
  <2> QED BY <1>2, <2>2, <2>5
<1>4. OpnField(i, "fmul", n) = i.bytes[<<n, "dtfm_30">>] % 16
  <2>1. "fmul" \in HeldAt(n) /\ "dtfm_30" \in OperatorRegisters
    BY <1>0 DEF OperatorFields, OperatorRegisters
  <2>2. PICK b \in 0 .. 255 : b = i.bytes[<<n, "dtfm_30">>]
    BY <1>1, <2>1
  <2>3. PICK layout : layout = OpnLayout("fmul", n)
    OBVIOUS
  <2>4. /\ layout.register = <<n, "dtfm_30">> /\ layout.down = FALSE
        /\ Unit(layout) = 1 /\ Size(layout) = 16
    BY <1>0, <2>3 DEF OpnTableOf, IsAt
  <2>5. OpnField(i, "fmul", n) = At(b, 1, 16)
    BY <1>0, <2>1, <2>2, <2>3, <2>4, OpnReadFrom
  <2> QED BY <1>2, <2>2, <2>5
<1>5. OpnField(i, "level", n) = 127 - (i.bytes[<<n, "level_40">>] % 128)
  <2>1. "level" \in HeldAt(n) /\ "level_40" \in OperatorRegisters
    BY <1>0 DEF OperatorFields, OperatorRegisters
  <2>2. PICK b \in 0 .. 255 : b = i.bytes[<<n, "level_40">>]
    BY <1>1, <2>1
  <2>3. PICK layout : layout = OpnLayout("level", n)
    OBVIOUS
  <2>4. /\ layout.register = <<n, "level_40">> /\ layout.down = TRUE
        /\ Unit(layout) = 1 /\ Size(layout) = 128
    BY <1>0, <2>3 DEF OpnTableOf, IsAt
  <2>5. OpnField(i, "level", n) = 127 - At(b, 1, 128)
    BY <1>0, <2>1, <2>2, <2>3, <2>4, OpnReadFrom
  <2> QED BY <1>2, <2>2, <2>5
<1>6. OpnField(i, "ratescale", n) = i.bytes[<<n, "rsatk_50">>] \div 64
  <2>1. "ratescale" \in HeldAt(n) /\ "rsatk_50" \in OperatorRegisters
    BY <1>0 DEF OperatorFields, OperatorRegisters
  <2>2. PICK b \in 0 .. 255 : b = i.bytes[<<n, "rsatk_50">>]
    BY <1>1, <2>1
  <2>3. PICK layout : layout = OpnLayout("ratescale", n)
    OBVIOUS
  <2>4. /\ layout.register = <<n, "rsatk_50">> /\ layout.down = FALSE
        /\ Unit(layout) = 64 /\ Size(layout) = 4
    BY <1>0, <2>3 DEF OpnTableOf, IsAt
  <2>5. OpnField(i, "ratescale", n) = At(b, 64, 4)
    BY <1>0, <2>1, <2>2, <2>3, <2>4, OpnReadFrom
  <2> QED BY <1>2, <2>2, <2>5
<1>7. OpnField(i, "attack", n) = i.bytes[<<n, "rsatk_50">>] % 32
  <2>1. "attack" \in HeldAt(n) /\ "rsatk_50" \in OperatorRegisters
    BY <1>0 DEF OperatorFields, OperatorRegisters
  <2>2. PICK b \in 0 .. 255 : b = i.bytes[<<n, "rsatk_50">>]
    BY <1>1, <2>1
  <2>3. PICK layout : layout = OpnLayout("attack", n)
    OBVIOUS
  <2>4. /\ layout.register = <<n, "rsatk_50">> /\ layout.down = FALSE
        /\ Unit(layout) = 1 /\ Size(layout) = 32
    BY <1>0, <2>3 DEF OpnTableOf, IsAt
  <2>5. OpnField(i, "attack", n) = At(b, 1, 32)
    BY <1>0, <2>1, <2>2, <2>3, <2>4, OpnReadFrom
  <2> QED BY <1>2, <2>2, <2>5
<1>8. OpnField(i, "am", n) = i.bytes[<<n, "amdecay1_60">>] \div 128
  <2>1. "am" \in HeldAt(n) /\ "amdecay1_60" \in OperatorRegisters
    BY <1>0 DEF OperatorFields, OperatorRegisters
  <2>2. PICK b \in 0 .. 255 : b = i.bytes[<<n, "amdecay1_60">>]
    BY <1>1, <2>1
  <2>3. PICK layout : layout = OpnLayout("am", n)
    OBVIOUS
  <2>4. /\ layout.register = <<n, "amdecay1_60">> /\ layout.down = FALSE
        /\ Unit(layout) = 128 /\ Size(layout) = 2
    BY <1>0, <2>3 DEF OpnTableOf, IsAt
  <2>5. OpnField(i, "am", n) = At(b, 128, 2)
    BY <1>0, <2>1, <2>2, <2>3, <2>4, OpnReadFrom
  <2> QED BY <1>2, <2>2, <2>5
<1>9. OpnField(i, "decay1", n) = i.bytes[<<n, "amdecay1_60">>] % 32
  <2>1. "decay1" \in HeldAt(n) /\ "amdecay1_60" \in OperatorRegisters
    BY <1>0 DEF OperatorFields, OperatorRegisters
  <2>2. PICK b \in 0 .. 255 : b = i.bytes[<<n, "amdecay1_60">>]
    BY <1>1, <2>1
  <2>3. PICK layout : layout = OpnLayout("decay1", n)
    OBVIOUS
  <2>4. /\ layout.register = <<n, "amdecay1_60">> /\ layout.down = FALSE
        /\ Unit(layout) = 1 /\ Size(layout) = 32
    BY <1>0, <2>3 DEF OpnTableOf, IsAt
  <2>5. OpnField(i, "decay1", n) = At(b, 1, 32)
    BY <1>0, <2>1, <2>2, <2>3, <2>4, OpnReadFrom
  <2> QED BY <1>2, <2>2, <2>5
<1>10. OpnField(i, "decay2", n) = i.bytes[<<n, "decay2_70">>] % 32
  <2>1. "decay2" \in HeldAt(n) /\ "decay2_70" \in OperatorRegisters
    BY <1>0 DEF OperatorFields, OperatorRegisters
  <2>2. PICK b \in 0 .. 255 : b = i.bytes[<<n, "decay2_70">>]
    BY <1>1, <2>1
  <2>3. PICK layout : layout = OpnLayout("decay2", n)
    OBVIOUS
  <2>4. /\ layout.register = <<n, "decay2_70">> /\ layout.down = FALSE
        /\ Unit(layout) = 1 /\ Size(layout) = 32
    BY <1>0, <2>3 DEF OpnTableOf, IsAt
  <2>5. OpnField(i, "decay2", n) = At(b, 1, 32)
    BY <1>0, <2>1, <2>2, <2>3, <2>4, OpnReadFrom
  <2> QED BY <1>2, <2>2, <2>5
<1>11. OpnField(i, "sustain", n) = i.bytes[<<n, "susrel_80">>] \div 16
  <2>1. "sustain" \in HeldAt(n) /\ "susrel_80" \in OperatorRegisters
    BY <1>0 DEF OperatorFields, OperatorRegisters
  <2>2. PICK b \in 0 .. 255 : b = i.bytes[<<n, "susrel_80">>]
    BY <1>1, <2>1
  <2>3. PICK layout : layout = OpnLayout("sustain", n)
    OBVIOUS
  <2>4. /\ layout.register = <<n, "susrel_80">> /\ layout.down = FALSE
        /\ Unit(layout) = 16 /\ Size(layout) = 16
    BY <1>0, <2>3 DEF OpnTableOf, IsAt
  <2>5. OpnField(i, "sustain", n) = At(b, 16, 16)
    BY <1>0, <2>1, <2>2, <2>3, <2>4, OpnReadFrom
  <2> QED BY <1>2, <2>2, <2>5
<1>12. OpnField(i, "release", n) = i.bytes[<<n, "susrel_80">>] % 16
  <2>1. "release" \in HeldAt(n) /\ "susrel_80" \in OperatorRegisters
    BY <1>0 DEF OperatorFields, OperatorRegisters
  <2>2. PICK b \in 0 .. 255 : b = i.bytes[<<n, "susrel_80">>]
    BY <1>1, <2>1
  <2>3. PICK layout : layout = OpnLayout("release", n)
    OBVIOUS
  <2>4. /\ layout.register = <<n, "susrel_80">> /\ layout.down = FALSE
        /\ Unit(layout) = 1 /\ Size(layout) = 16
    BY <1>0, <2>3 DEF OpnTableOf, IsAt
  <2>5. OpnField(i, "release", n) = At(b, 1, 16)
    BY <1>0, <2>1, <2>2, <2>3, <2>4, OpnReadFrom
  <2> QED BY <1>2, <2>2, <2>5
<1>13. OpnField(i, "ssgenable", n) = (i.bytes[<<n, "ssgeg_90">>] \div 8) % 2
  <2>1. "ssgenable" \in HeldAt(n) /\ "ssgeg_90" \in OperatorRegisters
    BY <1>0 DEF OperatorFields, OperatorRegisters
  <2>2. PICK b \in 0 .. 255 : b = i.bytes[<<n, "ssgeg_90">>]
    BY <1>1, <2>1
  <2>3. PICK layout : layout = OpnLayout("ssgenable", n)
    OBVIOUS
  <2>4. /\ layout.register = <<n, "ssgeg_90">> /\ layout.down = FALSE
        /\ Unit(layout) = 8 /\ Size(layout) = 2
    BY <1>0, <2>3 DEF OpnTableOf, IsAt
  <2>5. OpnField(i, "ssgenable", n) = At(b, 8, 2)
    BY <1>0, <2>1, <2>2, <2>3, <2>4, OpnReadFrom
  <2> QED BY <1>2, <2>2, <2>5
<1>14. OpnField(i, "ssgwave", n) = i.bytes[<<n, "ssgeg_90">>] % 8
  <2>1. "ssgwave" \in HeldAt(n) /\ "ssgeg_90" \in OperatorRegisters
    BY <1>0 DEF OperatorFields, OperatorRegisters
  <2>2. PICK b \in 0 .. 255 : b = i.bytes[<<n, "ssgeg_90">>]
    BY <1>1, <2>1
  <2>3. PICK layout : layout = OpnLayout("ssgwave", n)
    OBVIOUS
  <2>4. /\ layout.register = <<n, "ssgeg_90">> /\ layout.down = FALSE
        /\ Unit(layout) = 1 /\ Size(layout) = 8
    BY <1>0, <2>3 DEF OpnTableOf, IsAt
  <2>5. OpnField(i, "ssgwave", n) = At(b, 1, 8)
    BY <1>0, <2>1, <2>2, <2>3, <2>4, OpnReadFrom
  <2> QED BY <1>2, <2>2, <2>5
<1> QED BY <1>3, <1>4, <1>5, <1>6, <1>7, <1>8, <1>9, <1>10, <1>11, <1>12, <1>13, <1>14

\* And the feedback and the algorithm.
LEMMA ChannelByBits ==
    ASSUME NEW i, IsOpnInstrument(i)
    PROVE  i.bytes[<<Whole, "fbalg">>] % 64 =
             8 * OpnField(i, "feedback", Whole) + OpnField(i, "algorithm", Whole)
<1>0. /\ Whole \in OpnPlaces /\ OpnTableOf(Whole)
      /\ "feedback" \in HeldAt(Whole) /\ "algorithm" \in HeldAt(Whole)
  BY PlacesThereAre, OpnTable DEF HeldAt, WholeFields
<1>1. PICK b \in 0 .. 255 : b = i.bytes[<<Whole, "fbalg">>]
  <2>1. <<Whole, "fbalg">> \in OpnRegisters
    BY DEF OpnRegisters, WholeRegisters
  <2> QED BY <2>1 DEF IsOpnInstrument
<1>2. OpnField(i, "feedback", Whole) = At(b, 8, 8)
  <2>1. PICK layout : layout = OpnLayout("feedback", Whole)
    OBVIOUS
  <2>2. /\ layout.register = <<Whole, "fbalg">> /\ layout.down = FALSE
        /\ Unit(layout) = 8 /\ Size(layout) = 8
    BY <1>0, <2>1 DEF OpnTableOf, IsAt
  <2> QED BY <1>0, <1>1, <2>1, <2>2, OpnReadFrom
<1>3. OpnField(i, "algorithm", Whole) = At(b, 1, 8)
  <2>1. PICK layout : layout = OpnLayout("algorithm", Whole)
    OBVIOUS
  <2>2. /\ layout.register = <<Whole, "fbalg">> /\ layout.down = FALSE
        /\ Unit(layout) = 1 /\ Size(layout) = 8
    BY <1>0, <2>1 DEF OpnTableOf, IsAt
  <2> QED BY <1>0, <1>1, <2>1, <2>2, OpnReadFrom
<1>4. b % 64 = 8 * ((b \div 8) % 8) + (b % 8)
  <2>1. b \in Nat /\ 64 = 8 * 8
    OBVIOUS
  <2> QED BY <2>1, ReadTogether
<1>5. At(b, 8, 8) = (b \div 8) % 8 /\ At(b, 1, 8) = b % 8
  BY DEF At
<1> QED BY <1>1, <1>2, <1>3, <1>4, <1>5

\* What the panels show of an instrument is what the chip takes of it, each panel of the
\* operator of its name.
LEMMA OpnShownIsTaken ==
    ASSUME NEW i, IsOpnInstrument(i), NEW panels, panels = OpnShown(i)
    PROVE  /\ \A n \in OpnOperators :
                 LET panel == panels[ChipOperator(n)]
                 IN  OpnChipTakes(i, n) =
                       [detune |-> panel.detune, fmul |-> panel.fmul, tl |-> 127 - panel.level,
                        ks |-> panel.ratescale, ar |-> panel.attack, am |-> panel.am,
                        d1r |-> panel.decay1, d2r |-> panel.decay2, sl |-> panel.sustain,
                        rr |-> panel.release, ssg |-> 8 * panel.ssgenable + panel.ssgwave]
           /\ i.bytes[<<Whole,
                 "fbalg">>] % 64 = 8 * panels.whole.feedback + panels.whole.algorithm
<1>1. ASSUME NEW n \in OpnOperators, NEW panel, panel = panels[ChipOperator(n)]
      PROVE  OpnChipTakes(i, n) =
               [detune |-> panel.detune, fmul |-> panel.fmul, tl |-> 127 - panel.level,
                ks |-> panel.ratescale, ar |-> panel.attack, am |-> panel.am,
                d1r |-> panel.decay1, d2r |-> panel.decay2, sl |-> panel.sustain,
                rr |-> panel.release, ssg |-> 8 * panel.ssgenable + panel.ssgwave]
  <2>1. n \in OpnPlaces /\ n # Whole /\ ChipOperator(n) = PanelOf(n)
    BY PlacesThereAre, NamesAreOfPlaces
  <2>2. panel = [f \in KnobsAt(n) \ {"blank"} |-> OpnKnob(i, f, n)]
    BY <1>1, <2>1, ShownAt
  <2>3. \A f \in OperatorFields : panel[f] = OpnField(i, f, n)
    <3>1. \A f \in OperatorFields : f \in KnobsAt(n) /\ f # "blank" /\ f \notin ValueFields
      BY <2>1 DEF KnobsAt, OperatorFields, ValueFields
    <3> QED BY <2>1, <2>2, <3>1, KnobsByKind
  <2>4. /\ panel.detune = OpnField(i, "detune", n) /\ panel.fmul = OpnField(i, "fmul", n)
        /\ panel.level = OpnField(i, "level", n)
        /\ panel.ratescale = OpnField(i, "ratescale", n)
        /\ panel.attack = OpnField(i, "attack", n) /\ panel.am = OpnField(i, "am", n)
        /\ panel.decay1 = OpnField(i, "decay1", n) /\ panel.decay2 = OpnField(i, "decay2", n)
        /\ panel.sustain = OpnField(i, "sustain", n)
        /\ panel.release = OpnField(i, "release", n)
        /\ panel.ssgenable = OpnField(i, "ssgenable", n)
        /\ panel.ssgwave = OpnField(i, "ssgwave", n)
    BY <2>3 DEF OperatorFields
  <2>5. /\ panel.detune = (i.bytes[<<n, "dtfm_30">>] \div 16) % 8
        /\ panel.fmul = i.bytes[<<n, "dtfm_30">>] % 16
        /\ panel.level = 127 - (i.bytes[<<n, "level_40">>] % 128)
        /\ panel.ratescale = i.bytes[<<n, "rsatk_50">>] \div 64
        /\ panel.attack = i.bytes[<<n, "rsatk_50">>] % 32
        /\ panel.am = i.bytes[<<n, "amdecay1_60">>] \div 128
        /\ panel.decay1 = i.bytes[<<n, "amdecay1_60">>] % 32
        /\ panel.decay2 = i.bytes[<<n, "decay2_70">>] % 32
        /\ panel.sustain = i.bytes[<<n, "susrel_80">>] \div 16
        /\ panel.release = i.bytes[<<n, "susrel_80">>] % 16
        /\ panel.ssgenable = (i.bytes[<<n, "ssgeg_90">>] \div 8) % 2
        /\ panel.ssgwave = i.bytes[<<n, "ssgeg_90">>] % 8
    <3>1. /\ OpnField(i, "detune", n) = (i.bytes[<<n, "dtfm_30">>] \div 16) % 8
          /\ OpnField(i, "fmul", n) = i.bytes[<<n, "dtfm_30">>] % 16
          /\ OpnField(i, "level", n) = 127 - (i.bytes[<<n, "level_40">>] % 128)
          /\ OpnField(i, "ratescale", n) = i.bytes[<<n, "rsatk_50">>] \div 64
          /\ OpnField(i, "attack", n) = i.bytes[<<n, "rsatk_50">>] % 32
          /\ OpnField(i, "am", n) = i.bytes[<<n, "amdecay1_60">>] \div 128
          /\ OpnField(i, "decay1", n) = i.bytes[<<n, "amdecay1_60">>] % 32
          /\ OpnField(i, "decay2", n) = i.bytes[<<n, "decay2_70">>] % 32
          /\ OpnField(i, "sustain", n) = i.bytes[<<n, "susrel_80">>] \div 16
          /\ OpnField(i, "release", n) = i.bytes[<<n, "susrel_80">>] % 16
          /\ OpnField(i, "ssgenable", n) = (i.bytes[<<n, "ssgeg_90">>] \div 8) % 2
          /\ OpnField(i, "ssgwave", n) = i.bytes[<<n, "ssgeg_90">>] % 8
      BY Zenon, OperatorByBits
    <3> QED BY ONLY <2>4, <3>1, Zenon
  <2>6. \A r \in OperatorRegisters : i.bytes[<<n, r>>] \in 0 .. 255
    <3>1. \A r \in OperatorRegisters : <<n, r>> \in OpnRegisters
      BY DEF OpnRegisters
    <3> QED BY <3>1 DEF IsOpnInstrument
  <2>7. PICK level \in 0 .. 255, ssg \in 0 .. 255 :
           level = i.bytes[<<n, "level_40">>] /\ ssg = i.bytes[<<n, "ssgeg_90">>]
    BY <2>6 DEF OperatorRegisters
  <2>8. 127 - panel.level = level % 128
    <3>1. panel.level = 127 - (level % 128)
      BY ONLY <2>5, <2>7, Zenon
    <3> QED BY <3>1
  <2>9. 8 * panel.ssgenable + panel.ssgwave = ssg % 16
    <3>1. panel.ssgenable = (ssg \div 8) % 2 /\ panel.ssgwave = ssg % 8
      BY ONLY <2>5, <2>7, Zenon
    <3>2. ssg % 16 = 8 * ((ssg \div 8) % 2) + (ssg % 8)
      <4>1. ssg \in Nat /\ 16 = 2 * 8
        OBVIOUS
      <4> QED BY <4>1, ReadTogether
    <3> QED BY <3>1, <3>2
  <2> QED BY <2>5, <2>7, <2>8, <2>9 DEF OpnChipTakes
<1>2. i.bytes[<<Whole, "fbalg">>] % 64 = 8 * panels.whole.feedback + panels.whole.algorithm
  <2>1. Whole \in OpnPlaces /\ PanelOf(Whole) = "whole"
    BY PlacesThereAre, Names
  <2>2. panels["whole"] = [f \in KnobsAt(Whole) \ {"blank"} |-> OpnKnob(i, f, Whole)]
    BY <2>1, ShownAt
  <2>3. {"feedback", "algorithm"} \subseteq (KnobsAt(Whole) \ {"blank"}) \ ValueFields
    BY DEF KnobsAt, WholeFields, ValueFields
  <2>4. /\ panels.whole.feedback = OpnField(i, "feedback", Whole)
        /\ panels.whole.algorithm = OpnField(i, "algorithm", Whole)
    BY <2>1, <2>2, <2>3, KnobsByKind
  <2> QED BY <2>4, ChannelByBits
<1> QED BY <1>1, <1>2

\* OpnIInv implies what the chip runs at.
LEMMA OpnShownIsRun == OpnIInv => OpnRunsWhatIsShown
BY OpnShownIsTaken DEF OpnIInv, OpnRunsWhatIsShown

\* Once a part's changes are applied, every operator of the chip runs at what the panel of
\* its name shows, and what there is no parameter for is as it was loaded, however often
\* parameters were set and applied and projects and files were written and read
\* (op_editors of opn2/ui/main_component.cc, nth_operator of opn2/parameter_block.h).
THEOREM OpnCorrect == OpnSpec => []OpnRunsWhatIsShown
<1>1. OpnSpec => []OpnIInv
  BY OpnInductive, PTL DEF OpnSpec
<1> QED BY <1>1, OpnShownIsRun, PTL

\* The bytes of a part's instrument stay bytes, its parameters keep to their ranges, and
\* once applied they are those of the instrument, operator by operator.
THEOREM OpnKept == OpnSpec => []OpnIInv
BY OpnInductive, PTL DEF OpnSpec
==============================================================================
