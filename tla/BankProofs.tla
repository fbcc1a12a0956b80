----------------------------- MODULE BankProofs -----------------------------
(* That the bookkeeping of the bank manager is right for every number of   *)
(* slots, banks, programs and voices, and that its clients keep up with    *)
(* it: every program has the delays that were measured of it, or they are  *)
(* on their way; and the editor shows the banks as they are once it was    *)
(* told of everything.                                                     *)
EXTENDS MeasurementLoop, EditorMirror, FiniteSetTheorems, SequenceTheorems, TLAPS

-----------------------------------------------------------------------------
(* Lemmas about the operators.                                             *)

\* A program of a new bank is an instrument, and a blank one.
LEMMA BlankType == BlankInstrument \in Instruments /\ BlankInstrument.blank
BY ConstantsAssumption DEF BlankInstrument, Instruments

\* What forget_bank leaves of a slot is a slot.
LEMMA EmptySlotType == EmptySlot \in SlotRecords
BY ConstantsAssumption DEF EmptySlot, SlotRecords

\* A slot emptied for another bank takes its bank out of the player, blank.
LEMMA EmptiedSlot ==
    ASSUME IInv, NEW s \in Slots
    PROVE  /\ HeldWithout(s) \in SUBSET BankIds
           /\ InsWithout(s) \in [BankIds -> [Programs -> Instruments]]
           /\ \A b \in BankIds : b # slots[s].id => InsWithout(s)[b] = ins[b]
           /\ \A b \in BankIds \ HeldWithout(s) :
                 InsWithout(s)[b] = [p \in Programs |-> BlankInstrument]
BY BlankType DEF IInv, TypeOK, HeldWithout, InsWithout, AbsentBankIsBlank

\* What is recorded of a program is what the player holds of it.
LEMMA RecordedProgram ==
    ASSUME NEW info \in SlotRecords, NEW p \in Programs, NEW i \in Instruments,
           NEW name \in Names, NEW flags \in SUBSET Flags
    PROVE  /\ Recorded(info, p, i, name, flags) \in SlotRecords
           /\ Recorded(info, p, i, name, flags).id = info.id
           /\ \A progs \in [Programs -> Instruments] :
                 info.used = NonBlank(progs) =>
                    Recorded(info, p, i, name, flags).used
                       = NonBlank([progs EXCEPT ![p] = i])
<1> DEFINE R == Recorded(info, p, i, name, flags)
<1>1. R \in SlotRecords
  BY DEF Recorded, SlotRecords, With
<1>2. R.id = info.id
  BY DEF Recorded, SlotRecords
<1>3. ASSUME NEW progs \in [Programs -> Instruments], info.used = NonBlank(progs)
      PROVE  R.used = NonBlank([progs EXCEPT ![p] = i])
  <2>1. R.used = With(info.used, p, ~i.blank)
    BY DEF Recorded, SlotRecords
  <2>2. QED
    BY <2>1, <1>3 DEF With, NonBlank, Instruments
<1>4. QED
  BY <1>1, <1>2, <1>3

-----------------------------------------------------------------------------
(* The invariant holds at first and is kept by every operation.            *)

\* The banks of the first bank file are recorded as the player has them.
LEMMA InitInvariant == Init => IInv
<1> SUFFICES ASSUME Init PROVE IInv
  OBVIOUS
<1> USE ConstantsAssumption, DefaultsAssumption
<1>1. \A b \in BankIds : DefaultSlot(b) \in SlotRecords /\ DefaultSlot(b).id = b
                         /\ DefaultSlot(b).used = NonBlank(DefaultInstruments[b])
  BY EmptySlotType DEF DefaultSlot, SlotRecords, NonBlank, EmptySlot
<1>2. \A s \in DOMAIN DefaultBanks : s \in Slots /\ DefaultBanks[s] \in BankIds
  BY DEF Slots
<1>3. TypeOK
  <2>1. slots \in [Slots -> SlotRecords]
    <3>1. \A s \in Slots : slots[s] \in SlotRecords
      BY <1>1, <1>2, EmptySlotType DEF Init
    <3>2. QED
      BY <3>1 DEF Init
  <2>2. held \in SUBSET BankIds /\ slots_notify_flag \in BOOLEAN
    BY <1>2 DEF Init
  <2>3. ins \in [BankIds -> [Programs -> Instruments]]
    <3>1. [p \in Programs |-> BlankInstrument] \in [Programs -> Instruments]
      BY BlankType
    <3>2. QED
      BY <3>1 DEF Init
  <2>4. QED
    BY <2>1, <2>2, <2>3 DEF TypeOK
<1>4. SlotsAreTheBanksHeld
  BY <1>1, <1>2 DEF Init, SlotsAreTheBanksHeld, EmptySlot
<1>5. UsedIsNotBlank
  BY <1>1, <1>2 DEF Init, UsedIsNotBlank, EmptySlot
<1>6. EmptySlotHoldsNothing
  BY <1>1, <1>2 DEF Init, EmptySlotHoldsNothing
<1>7. AbsentBankIsBlank
  BY <1>2 DEF Init, AbsentBankIsBlank
<1>8. QED
  BY <1>3, <1>4, <1>5, <1>6, <1>7 DEF IInv

\* The argument most operations share: one slot is written, for the bank it had
\* or for one that no other slot has, with what the player then holds of it.
LEMMA OneSlotWritten ==
    ASSUME IInv, NEW s \in Slots, NEW info \in SlotRecords,
           slots' = [slots EXCEPT ![s] = info],
           slots_notify_flag' \in BOOLEAN,
           ins' \in [BankIds -> [Programs -> Instruments]],
           info.id = NoBank => info = EmptySlot,
           info.id # NoBank =>
              /\ info.used = NonBlank(ins'[info.id])
              /\ \A t \in Slots \ {s} : slots[t].id # info.id,
           held' = HeldWithout(s) \cup ({info.id} \ {NoBank}),
           \A b \in BankIds : b \notin {slots[s].id, info.id} => ins'[b] = ins[b],
           slots[s].id \notin {NoBank, info.id} =>
              ins'[slots[s].id] = [p \in Programs |-> BlankInstrument]
    PROVE  IInv'
<1> USE ConstantsAssumption
<1>1. \A t \in Slots : slots'[t] = IF t = s THEN info ELSE slots[t]
  BY DEF IInv, TypeOK
<1>2. \A t \in Slots : slots[t].id \in BankIds \cup {NoBank}
  BY DEF IInv, TypeOK, SlotRecords
<1>3. info.id \in BankIds \cup {NoBank}
  BY DEF SlotRecords
<1>4. TypeOK'
  BY <1>2, <1>3 DEF IInv, TypeOK, HeldWithout
<1>5. SlotsAreTheBanksHeld'
  BY <1>1, <1>2, <1>3 DEF IInv, SlotsAreTheBanksHeld, HeldWithout
<1>6. UsedIsNotBlank'
  <2> SUFFICES ASSUME NEW t \in Slots, slots'[t].id # NoBank
               PROVE  slots'[t].used = NonBlank(ins'[slots'[t].id])
    BY DEF UsedIsNotBlank, NonBlank
  <2>1. CASE t = s
    BY <2>1, <1>1
  <2>2. CASE t # s
    <3>1. slots[t].id # slots[s].id /\ slots[t].id # info.id /\ slots[t].id \in BankIds
      BY <2>2, <1>1, <1>2 DEF IInv, SlotsAreTheBanksHeld
    <3>2. ins'[slots[t].id] = ins[slots[t].id]
      BY <3>1
    <3>3. QED
      BY <2>2, <3>2, <1>1 DEF IInv, UsedIsNotBlank
  <2>3. QED
    BY <2>1, <2>2
<1>7. EmptySlotHoldsNothing'
  <2> SUFFICES ASSUME NEW t \in Slots, slots'[t].id = NoBank
               PROVE  slots'[t] = EmptySlot
    BY DEF EmptySlotHoldsNothing, EmptySlot
  <2>1. CASE t = s
    BY <2>1, <1>1
  <2>2. CASE t # s
    BY <2>2, <1>1 DEF IInv, EmptySlotHoldsNothing
  <2>3. QED
    BY <2>1, <2>2
<1>8. AbsentBankIsBlank'
  <2> SUFFICES ASSUME NEW b \in BankIds, b \notin held'
               PROVE  ins'[b] = [p \in Programs |-> BlankInstrument]
    BY DEF AbsentBankIsBlank
  <2>1. b # info.id
    BY DEF HeldWithout
  <2>2. CASE b = slots[s].id
    BY <2>1, <2>2
  <2>3. CASE b # slots[s].id
    BY <2>1, <2>3 DEF HeldWithout, IInv, AbsentBankIsBlank
  <2>4. QED
    BY <2>2, <2>3
<1>9. QED
  BY <1>4, <1>5, <1>6, <1>7, <1>8 DEF IInv

\* A slot found by its bank is the only one that has it, and that bank is held.
LEMMA SlotFound ==
    ASSUME IInv, NEW s \in Slots, NEW id \in BankIds, IsFirst(s, SlotsOf(id))
    PROVE  /\ slots[s] \in SlotRecords /\ slots[s].id = id /\ id # NoBank
           /\ slots[s].used = NonBlank(ins[id])
           /\ ins[id] \in [Programs -> Instruments]
           /\ \A t \in Slots \ {s} : slots[t].id # id
           /\ HeldWithout(s) \cup {id} = held
BY ConstantsAssumption
DEF IsFirst, SlotsOf, IInv, TypeOK, UsedIsNotBlank, SlotsAreTheBanksHeld, HeldWithout

\* Writing bits of the slots, and nothing else.
LEMMA OnlyBitsWritten ==
    ASSUME IInv, slots' \in [Slots -> SlotRecords], slots_notify_flag' \in BOOLEAN,
           held' = held, ins' = ins,
           \A s \in Slots : /\ slots'[s].id = slots[s].id
                            /\ slots'[s].used = slots[s].used
                            /\ slots[s].id = NoBank => slots'[s] = slots[s]
    PROVE  IInv'
<1>1. TypeOK' /\ SlotsAreTheBanksHeld' /\ AbsentBankIsBlank'
  BY DEF IInv, TypeOK, SlotsAreTheBanksHeld, AbsentBankIsBlank
<1>2. UsedIsNotBlank'
  BY DEF IInv, UsedIsNotBlank, NonBlank
<1>3. EmptySlotHoldsNothing'
  BY DEF IInv, EmptySlotHoldsNothing, EmptySlot
<1>4. QED
  BY <1>1, <1>2, <1>3 DEF IInv

\* The slot of a bank that stays is written, with what the player then holds.
LEMMA SameBankWritten ==
    ASSUME IInv, NEW s \in Slots, NEW id \in BankIds, IsFirst(s, SlotsOf(id)),
           NEW info \in SlotRecords, info.id = id,
           NEW progs \in [Programs -> Instruments], info.used = NonBlank(progs),
           slots' = [slots EXCEPT ![s] = info],
           slots_notify_flag' \in BOOLEAN,
           ins' = [ins EXCEPT ![id] = progs],
           held' = held
    PROVE  IInv'
<1>1. /\ slots[s].id = id /\ id # NoBank
      /\ \A t \in Slots \ {s} : slots[t].id # id
      /\ HeldWithout(s) \cup {id} = held
  BY SlotFound
<1>2. ins' \in [BankIds -> [Programs -> Instruments]] /\ ins'[id] = progs
  BY DEF IInv, TypeOK
<1>3. /\ info.id # NoBank =>
            /\ info.used = NonBlank(ins'[info.id])
            /\ \A t \in Slots \ {s} : slots[t].id # info.id
      /\ held' = HeldWithout(s) \cup ({info.id} \ {NoBank})
      /\ \A b \in BankIds : b \notin {slots[s].id, info.id} => ins'[b] = ins[b]
      /\ slots[s].id \notin {NoBank, info.id} =>
            ins'[slots[s].id] = [q \in Programs |-> BlankInstrument]
      /\ info.id # NoBank
  BY <1>1, <1>2 DEF IInv, TypeOK
<1>4. QED
  BY <1>2, <1>3, OneSlotWritten

\* load_program into a bank that has a slot keeps the bookkeeping.
LEMMA LoadExistingKeeps ==
    ASSUME IInv, NEW s \in Slots, NEW id \in BankIds, NEW p \in Programs,
           NEW i \in Instruments, NEW name \in Names, NEW flags \in SUBSET Flags,
           LoadIntoExistingBank(s, id, p, i, name, flags)
    PROVE  IInv'
<1> DEFINE R == Recorded(slots[s], p, i, name, flags)
           progs == [ins[id] EXCEPT ![p] = i]
<1>1. /\ slots[s] \in SlotRecords /\ slots[s].id = id
      /\ slots[s].used = NonBlank(ins[id])
      /\ ins[id] \in [Programs -> Instruments]
  BY SlotFound DEF LoadIntoExistingBank
<1>2. R \in SlotRecords /\ R.id = id /\ R.used = NonBlank(progs)
  BY <1>1, RecordedProgram
<1>3. progs \in [Programs -> Instruments]
  BY <1>1
<1>4. /\ slots' = [slots EXCEPT ![s] = R] /\ slots_notify_flag' \in BOOLEAN
      /\ ins' = [ins EXCEPT ![id] = progs] /\ held' = held
      /\ IsFirst(s, SlotsOf(id))
  BY DEF LoadIntoExistingBank, FlagIfCountChanged, IInv, TypeOK
<1> HIDE DEF R, progs
<1>5. QED
  BY <1>2, <1>3, <1>4, SameBankWritten

\* load_program that gives a slot to a bank keeps it, whichever blank bank is
\* evicted and whatever the player answers.
LEMMA LoadEmptyKeeps ==
    ASSUME IInv, NEW s \in Slots, NEW id \in BankIds, NEW p \in Programs,
           NEW i \in Instruments, NEW name \in Names, NEW flags \in SUBSET Flags,
           NEW answer, LoadIntoEmptySlot(s, id, p, i, name, flags, answer)
    PROVE  IInv'
<1> DEFINE info == [EmptySlot EXCEPT !.id = id]
           R == Recorded(info, p, i, name, flags)
           progs == InsWithout(s)[id]
<1> USE ConstantsAssumption
<1>1. /\ info \in SlotRecords /\ info.id = id /\ info.used = {} /\ id # NoBank
      /\ slots[s] \in SlotRecords
      /\ \A t \in Slots : slots[t].id # id
  BY EmptySlotType DEF EmptySlot, SlotRecords, LoadIntoEmptySlot, SlotsOf, IInv, TypeOK
<1>2. /\ id \notin held /\ id # slots[s].id
      /\ progs = [q \in Programs |-> BlankInstrument]
  BY <1>1, EmptiedSlot DEF IInv, TypeOK, SlotsAreTheBanksHeld, AbsentBankIsBlank
<1>3. progs \in [Programs -> Instruments] /\ NonBlank(progs) = {}
  BY <1>2, BlankType DEF NonBlank
<1>4. /\ R \in SlotRecords /\ R.id = id
      /\ R.used = NonBlank([progs EXCEPT ![p] = i])
  <2> HIDE DEF info, progs
  <2>1. /\ R \in SlotRecords /\ R.id = info.id
        /\ \A pr \in [Programs -> Instruments] :
              info.used = NonBlank(pr) => R.used = NonBlank([pr EXCEPT ![p] = i])
    <3>1. info \in SlotRecords
      BY <1>1
    <3>2. QED
      BY ONLY <3>1, RecordedProgram, p \in Programs, i \in Instruments,
              name \in Names, flags \in SUBSET Flags
  <2> HIDE DEF R
  <2>2. QED
    BY <1>1, <1>3, <2>1
<1>5. /\ InsWithout(s) \in [BankIds -> [Programs -> Instruments]]
      /\ \A b \in BankIds : b # slots[s].id => InsWithout(s)[b] = ins[b]
      /\ slots[s].id # NoBank =>
            InsWithout(s)[slots[s].id] = [q \in Programs |-> BlankInstrument]
  BY EmptiedSlot, <1>1 DEF SlotRecords, InsWithout
<1> HIDE DEF R, progs, info
<1>6. CASE answer = "no bank"
  <2>1. /\ slots' = [slots EXCEPT ![s] = EmptySlot]
        /\ held' = HeldWithout(s) /\ ins' = InsWithout(s)
        /\ slots_notify_flag' \in BOOLEAN
    BY <1>6 DEF LoadIntoEmptySlot, IInv, TypeOK
  <2>2. EmptySlot \in SlotRecords /\ EmptySlot.id = NoBank
    BY EmptySlotType DEF EmptySlot
  <2>3. QED
    BY <1>5, <2>1, <2>2, OneSlotWritten
<1>7. CASE answer = "no instrument"
  <2>1. /\ slots' = [slots EXCEPT ![s] = info]
        /\ held' = HeldWithout(s) \cup {id} /\ ins' = InsWithout(s)
        /\ slots_notify_flag' \in BOOLEAN
    BY <1>7 DEF LoadIntoEmptySlot, info, IInv, TypeOK
  <2>2. info.used = NonBlank(ins'[id])
    BY <1>1, <1>3, <2>1 DEF progs
  <2>3. info.id # NoBank =>
           /\ info.used = NonBlank(ins'[info.id])
           /\ \A t \in Slots \ {s} : slots[t].id # info.id
    BY <1>1, <2>2
  <2>4. info.id # NoBank /\ held' = HeldWithout(s) \cup ({info.id} \ {NoBank})
    BY <1>1, <2>1
  <2>5. /\ \A b \in BankIds : b \notin {slots[s].id, info.id} => ins'[b] = ins[b]
        /\ slots[s].id \notin {NoBank, info.id} =>
              ins'[slots[s].id] = [q \in Programs |-> BlankInstrument]
    BY <1>5, <2>1
  <2>6. info \in SlotRecords /\ ins' \in [BankIds -> [Programs -> Instruments]]
    BY <1>1, <1>5, <2>1
  <2>7. slots' = [slots EXCEPT ![s] = info] /\ slots_notify_flag' \in BOOLEAN
    BY <2>1
  <2>8. QED
    BY <2>3, <2>4, <2>5, <2>6, <2>7, OneSlotWritten
<1>8. CASE answer = "taken"
  <2>1. /\ slots' = [slots EXCEPT ![s] = R]
        /\ held' = HeldWithout(s) \cup {id}
        /\ ins' = [InsWithout(s) EXCEPT ![id][p] = i]
        /\ slots_notify_flag' \in BOOLEAN
    BY <1>8 DEF LoadIntoEmptySlot, info, R, FlagIfCountChanged, IInv, TypeOK
  <2>2. /\ ins' \in [BankIds -> [Programs -> Instruments]]
        /\ ins'[id] = [progs EXCEPT ![p] = i]
        /\ \A b \in BankIds : b # id => ins'[b] = InsWithout(s)[b]
    BY <1>5, <2>1 DEF progs
  <2>3. slots[s].id # NoBank => slots[s].id \in BankIds
    BY <1>1 DEF SlotRecords
  <2>4. /\ R.id # NoBank =>
              /\ R.used = NonBlank(ins'[R.id])
              /\ \A t \in Slots \ {s} : slots[t].id # R.id
        /\ R.id # NoBank
        /\ held' = HeldWithout(s) \cup ({R.id} \ {NoBank})
        /\ \A b \in BankIds : b \notin {slots[s].id, R.id} => ins'[b] = ins[b]
        /\ slots[s].id \notin {NoBank, R.id} =>
              ins'[slots[s].id] = [q \in Programs |-> BlankInstrument]
    BY <1>1, <1>2, <1>4, <1>5, <2>1, <2>2, <2>3
  <2>5. slots' = [slots EXCEPT ![s] = R] /\ slots_notify_flag' \in BOOLEAN
    BY <2>1
  <2>6. R \in SlotRecords /\ ins' \in [BankIds -> [Programs -> Instruments]]
    BY <1>4, <2>2
  <2>7. QED
    BY <2>4, <2>5, <2>6, OneSlotWritten
<1>9. QED
  BY <1>6, <1>7, <1>8 DEF LoadIntoEmptySlot

\* delete_program blanks the instrument and clears its bit together.
LEMMA DeleteProgramKeeps ==
    ASSUME IInv, NEW id \in BankIds, NEW p \in Programs, NEW notify \in BOOLEAN,
           DeleteProgram(id, p, notify)
    PROVE  IInv'
<1>0. PICK s \in Slots :
        /\ IsFirst(s, SlotsOf(id))
        /\ ins' = [ins EXCEPT ![id][p].blank = TRUE]
        /\ slots' = [slots EXCEPT ![s].used = @ \ {p}]
        /\ slots_notify_flag' = (slots_notify_flag \/ notify)
        /\ held' = held
  BY DEF DeleteProgram
<1> DEFINE info == [slots[s] EXCEPT !.used = @ \ {p}]
           progs == [ins[id] EXCEPT ![p] = [@ EXCEPT !.blank = TRUE]]
<1>1. /\ slots[s] \in SlotRecords /\ slots[s].id = id
      /\ slots[s].used = NonBlank(ins[id])
      /\ ins[id] \in [Programs -> Instruments]
  BY <1>0, SlotFound
<1>2. info \in SlotRecords /\ info.id = id /\ info.used = slots[s].used \ {p}
  BY <1>1 DEF SlotRecords
<1>3. progs \in [Programs -> Instruments] /\ NonBlank(progs) = NonBlank(ins[id]) \ {p}
  <2>1. progs \in [Programs -> Instruments]
    BY <1>1 DEF Instruments
  <2>2. \A q \in Programs : progs[q].blank <=> q = p \/ ins[id][q].blank
    BY <1>1 DEF Instruments
  <2> HIDE DEF progs
  <2>3. QED
    BY <2>1, <2>2 DEF NonBlank
<1>4. /\ slots' = [slots EXCEPT ![s] = info] /\ slots_notify_flag' \in BOOLEAN
      /\ ins' = [ins EXCEPT ![id] = progs] /\ held' = held
      /\ IsFirst(s, SlotsOf(id))
  BY <1>0 DEF IInv, TypeOK
<1>5. info.used = NonBlank(progs)
  BY <1>1, <1>2, <1>3
<1> HIDE DEF info, progs
<1>6. QED
  BY <1>2, <1>3, <1>4, <1>5, SameBankWritten

\* delete_bank takes the bank from the player and from its slot together.
LEMMA DeleteBankKeeps ==
    ASSUME IInv, NEW id \in BankIds, NEW notify \in BOOLEAN, DeleteBank(id, notify)
    PROVE  IInv'
<1>0. PICK s \in Slots :
        /\ IsFirst(s, SlotsOf(id))
        /\ slots' = [slots EXCEPT ![s] = EmptySlot]
        /\ held' = HeldWithout(s)
        /\ ins' = InsWithout(s)
        /\ slots_notify_flag' = (slots_notify_flag \/ notify)
  BY DEF DeleteBank
<1>1. EmptySlot \in SlotRecords /\ EmptySlot.id = NoBank
  BY EmptySlotType DEF EmptySlot
<1>2. slots[s].id = id
  BY <1>0, SlotFound
<1>3. /\ ins' \in [BankIds -> [Programs -> Instruments]]
      /\ \A b \in BankIds : b # slots[s].id => ins'[b] = ins[b]
      /\ ins'[slots[s].id] = [q \in Programs |-> BlankInstrument]
  BY <1>0, <1>2, EmptiedSlot DEF InsWithout
<1>4. slots_notify_flag' \in BOOLEAN
  BY <1>0 DEF IInv, TypeOK
<1>5. QED
  BY <1>0, <1>1, <1>3, <1>4, OneSlotWritten

\* clear_banks does so for every slot.
LEMMA ClearBanksKeeps ==
    ASSUME IInv, NEW notify \in BOOLEAN, ClearBanks(notify)
    PROVE  IInv'
<1> USE ConstantsAssumption
<1>1. \A s \in Slots : slots'[s] = EmptySlot /\ EmptySlot.id = NoBank
  BY DEF ClearBanks, EmptySlot
<1>2. held' = {}
  BY DEF ClearBanks, IInv, SlotsAreTheBanksHeld
<1>3. \A b \in BankIds : ins'[b] = [p \in Programs |-> BlankInstrument]
  BY DEF ClearBanks, SlotsOf, IInv, SlotsAreTheBanksHeld, AbsentBankIsBlank
<1>4. TypeOK'
  BY <1>1, <1>2, <1>3, EmptySlotType, BlankType DEF ClearBanks, IInv, TypeOK
<1>5. SlotsAreTheBanksHeld' /\ UsedIsNotBlank'
  BY <1>1, <1>2 DEF SlotsAreTheBanksHeld, UsedIsNotBlank
<1>6. EmptySlotHoldsNothing' /\ AbsentBankIsBlank'
  BY <1>1, <1>3 DEF EmptySlotHoldsNothing, AbsentBankIsBlank, EmptySlot
<1>7. QED
  BY <1>4, <1>5, <1>6 DEF IInv

\* rename_bank touches a name only.
LEMMA RenameBankKeeps ==
    ASSUME IInv, NEW id \in BankIds, NEW name \in Names, NEW notify \in BOOLEAN,
           RenameBank(id, name, notify)
    PROVE  IInv'
<1>0. PICK s \in Slots :
        /\ IsFirst(s, SlotsOf(id))
        /\ slots' = [slots EXCEPT ![s].bank_name = name]
        /\ slots_notify_flag' = (slots_notify_flag \/ notify)
        /\ UNCHANGED <<held, ins>>
  BY DEF RenameBank
<1> DEFINE info == [slots[s] EXCEPT !.bank_name = name]
<1>1. /\ slots[s] \in SlotRecords /\ slots[s].id = id
      /\ slots[s].used = NonBlank(ins[id])
      /\ ins[id] \in [Programs -> Instruments]
  BY <1>0, SlotFound
<1>2. info \in SlotRecords /\ info.id = id /\ info.used = NonBlank(ins[id])
  BY <1>1 DEF SlotRecords
<1>3. /\ slots' = [slots EXCEPT ![s] = info] /\ slots_notify_flag' \in BOOLEAN
      /\ ins' = [ins EXCEPT ![id] = ins[id]] /\ held' = held
      /\ IsFirst(s, SlotsOf(id))
  BY <1>0 DEF IInv, TypeOK
<1> HIDE DEF info
<1>4. QED
  BY <1>1, <1>2, <1>3, SameBankWritten

\* rename_program touches a name and a mark only.
LEMMA RenameProgramKeeps ==
    ASSUME IInv, NEW id \in BankIds, NEW p \in Programs, NEW name \in Names,
           NEW notify \in BOOLEAN, RenameProgram(id, p, name, notify)
    PROVE  IInv'
<1>0. PICK s \in Slots :
        /\ IsFirst(s, SlotsOf(id))
        /\ slots' = [slots EXCEPT
                        ![s].ins_names[p] = name,
                        ![s].to_notify = IF notify THEN @ \cup {p} ELSE @]
        /\ UNCHANGED <<slots_notify_flag, held, ins>>
  BY DEF RenameProgram
<1> DEFINE info == [[slots[s] EXCEPT !.ins_names[p] = name]
                        EXCEPT !.to_notify = IF notify THEN @ \cup {p} ELSE @]
<1>1. /\ slots[s] \in SlotRecords /\ slots[s].id = id
      /\ slots[s].used = NonBlank(ins[id])
      /\ ins[id] \in [Programs -> Instruments]
  BY <1>0, SlotFound
<1>2. info \in SlotRecords /\ info.id = id /\ info.used = NonBlank(ins[id])
  BY <1>1 DEF SlotRecords
<1>3. /\ slots' = [slots EXCEPT ![s] = info] /\ slots_notify_flag' \in BOOLEAN
      /\ ins' = [ins EXCEPT ![id] = ins[id]] /\ held' = held
      /\ IsFirst(s, SlotsOf(id))
  BY <1>0, <1>1 DEF IInv, TypeOK
<1> HIDE DEF info
<1>4. QED
  BY <1>1, <1>2, <1>3, SameBankWritten

\* load_measurement changes the delays of an instrument and not whether it is
\* blank.
LEMMA LoadMeasurementKeeps ==
    ASSUME IInv, NEW id \in BankIds, NEW p \in Programs, NEW i \in Instruments,
           NEW d \in Delays, NEW notify \in BOOLEAN,
           LoadMeasurement(id, p, i, d, notify)
    PROVE  IInv'
<1>0. PICK s \in Slots :
        /\ IsFirst(s, SlotsOf(id))
        /\ ins' = [ins EXCEPT ![id][p].delays = d]
        /\ slots' = [slots EXCEPT ![s].to_notify = IF notify THEN @ \cup {p} ELSE @]
        /\ UNCHANGED <<slots_notify_flag, held>>
  BY DEF LoadMeasurement
<1> DEFINE info == [slots[s] EXCEPT !.to_notify = IF notify THEN @ \cup {p} ELSE @]
           progs == [ins[id] EXCEPT ![p] = [@ EXCEPT !.delays = d]]
<1>1. /\ slots[s] \in SlotRecords /\ slots[s].id = id
      /\ slots[s].used = NonBlank(ins[id])
      /\ ins[id] \in [Programs -> Instruments]
  BY <1>0, SlotFound
<1>2. info \in SlotRecords /\ info.id = id /\ info.used = NonBlank(ins[id])
  BY <1>1 DEF SlotRecords
<1>3. progs \in [Programs -> Instruments] /\ NonBlank(progs) = NonBlank(ins[id])
  BY <1>1 DEF NonBlank, Instruments
<1>4. /\ slots' = [slots EXCEPT ![s] = info] /\ slots_notify_flag' \in BOOLEAN
      /\ ins' = [ins EXCEPT ![id] = progs] /\ held' = held
      /\ IsFirst(s, SlotsOf(id))
  BY <1>0 DEF IInv, TypeOK
<1> HIDE DEF info, progs
<1>5. QED
  BY <1>2, <1>3, <1>4, SameBankWritten

\* send_notifications clears marks only.
LEMMA SendNotificationsKeeps ==
    ASSUME IInv, NEW sent, SendNotifications(sent)
    PROVE  IInv'
<1>1. \A s \in Slots : slots[s] \in SlotRecords
  BY DEF IInv, TypeOK
<1>2. \A s \in Slots : /\ slots'[s] \in SlotRecords
                       /\ slots'[s].id = slots[s].id
                       /\ slots'[s].used = slots[s].used
                       /\ slots[s].id = NoBank => slots'[s] = slots[s]
  <2> TAKE s \in Slots
  <2> DEFINE left == {p \in slots[s].to_notify : <<s, p>> \notin sent}
  <2>1. slots'[s] = [slots[s] EXCEPT !.to_notify = left]
    BY DEF SendNotifications
  <2>2. slots[s].id = NoBank => left = slots[s].to_notify
    BY DEF IInv, EmptySlotHoldsNothing, EmptySlot
  <2>3. left \in SUBSET Programs
    BY <1>1 DEF SlotRecords
  <2> HIDE DEF left
  <2>4. QED
    BY <1>1, <2>1, <2>2, <2>3 DEF SlotRecords
<1>3. /\ slots' \in [Slots -> SlotRecords] /\ slots_notify_flag' \in BOOLEAN
      /\ held' = held /\ ins' = ins
  BY <1>2 DEF SendNotifications
<1>4. QED
  BY <1>2, <1>3, OnlyBitsWritten

\* send_measurement_requests clears marks only.
LEMMA SendMeasurementRequestsKeeps ==
    ASSUME IInv, NEW sent, SendMeasurementRequests(sent)
    PROVE  IInv'
<1>1. \A s \in Slots : slots[s] \in SlotRecords
  BY DEF IInv, TypeOK
<1>2. \A s \in Slots : /\ slots'[s] \in SlotRecords
                       /\ slots'[s].id = slots[s].id
                       /\ slots'[s].used = slots[s].used
                       /\ slots[s].id = NoBank => slots'[s] = slots[s]
  <2> TAKE s \in Slots
  <2> DEFINE left == {p \in slots[s].to_measure : <<s, p>> \notin sent}
  <2>1. slots'[s] = [slots[s] EXCEPT !.to_measure = left]
    BY DEF SendMeasurementRequests
  <2>2. slots[s].id = NoBank => left = slots[s].to_measure
    BY DEF IInv, EmptySlotHoldsNothing, EmptySlot
  <2>3. left \in SUBSET Programs
    BY <1>1 DEF SlotRecords
  <2> HIDE DEF left
  <2>4. QED
    BY <1>1, <2>1, <2>2, <2>3 DEF SlotRecords
<1>3. /\ slots' \in [Slots -> SlotRecords] /\ slots_notify_flag' \in BOOLEAN
      /\ held' = held /\ ins' = ins
  BY <1>2 DEF SendMeasurementRequests, IInv, TypeOK
<1>4. QED
  BY <1>2, <1>3, OnlyBitsWritten

\* The two functions that mark for notification set marks only.
LEMMA MarkKeeps ==
    ASSUME IInv, MarkSlotsForNotification \/ MarkEverythingForNotification
    PROVE  IInv'
<1>1. \A s \in Slots : slots[s] \in SlotRecords
  BY DEF IInv, TypeOK
<1>2. CASE MarkSlotsForNotification
  BY <1>2, OnlyBitsWritten DEF MarkSlotsForNotification, IInv, TypeOK
<1>3. CASE MarkEverythingForNotification
  <2>1. \A s \in Slots : /\ slots'[s] \in SlotRecords
                         /\ slots'[s].id = slots[s].id
                         /\ slots'[s].used = slots[s].used
                         /\ slots[s].id = NoBank => slots'[s] = slots[s]
    BY <1>1, <1>3 DEF MarkEverythingForNotification, SlotRecords
  <2>2. /\ slots' \in [Slots -> SlotRecords] /\ slots_notify_flag' \in BOOLEAN
        /\ held' = held /\ ins' = ins
    BY <1>3, <2>1 DEF MarkEverythingForNotification
  <2>3. QED
    BY <2>1, <2>2, OnlyBitsWritten
<1>4. QED
  BY <1>2, <1>3

\* Every operation keeps the bookkeeping.
LEMMA NextKeepsInvariant == IInv /\ [Next]_vars => IInv'
<1> SUFFICES ASSUME IInv, [Next]_vars PROVE IInv'
  OBVIOUS
<1>1. ASSUME NEW id \in BankIds, NEW p \in Programs, NEW i \in Instruments,
             NEW name \in Names, NEW flags \in SUBSET Flags, NEW answer \in Answers,
             LoadProgram(id, p, i, name, flags, answer)
      PROVE  IInv'
  BY <1>1, LoadExistingKeeps, LoadEmptyKeeps DEF LoadProgram
<1>2. CASE UNCHANGED vars
  BY <1>2, OnlyBitsWritten DEF vars, IInv, TypeOK
<1>3. QED
  BY <1>1, <1>2, DeleteProgramKeeps, DeleteBankKeeps, ClearBanksKeeps,
     RenameBankKeeps, RenameProgramKeeps, LoadMeasurementKeeps,
     SendNotificationsKeeps, SendMeasurementRequestsKeeps, MarkKeeps DEF Next

-----------------------------------------------------------------------------
(* The theorems.                                                           *)

\* The bookkeeping is right in every state the bank manager reaches.
THEOREM Invariance == Spec => []IInv
BY InitInvariant, NextKeepsInvariant, PTL DEF Spec

\* The state is of its types: no program, bank or name out of range is ever
\* recorded.
THEOREM TypeCorrect == Spec => []TypeOK
<1>1. IInv => TypeOK
  BY DEF IInv
<1>2. QED
  BY <1>1, Invariance, PTL

\* Slots and player agree on the banks there are, whatever the player refuses.
THEOREM BanksCorrect == Spec => []SlotsAreTheBanksHeld
<1>1. IInv => SlotsAreTheBanksHeld
  BY DEF IInv
<1>2. QED
  BY <1>1, Invariance, PTL

\* A program is in use exactly when the player has an instrument there.
THEOREM UsedCorrect == Spec => []UsedIsNotBlank
<1>1. IInv => UsedIsNotBlank
  BY DEF IInv
<1>2. QED
  BY <1>1, Invariance, PTL

\* Nothing of a bank is left in its slot when it goes.
THEOREM ForgottenCorrect == Spec => []EmptySlotHoldsNothing
<1>1. IInv => EmptySlotHoldsNothing
  BY DEF IInv
<1>2. QED
  BY <1>1, Invariance, PTL

-----------------------------------------------------------------------------
(* The bank manager is a store of instruments.                             *)

\* An instrument that is not blank is a sound of the store.
LEMMA ShownType ==
    ASSUME NEW i \in Instruments
    PROVE  Shown(i) \in [voice : Voices, delays : Delays] \cup {Nothing}
BY DEF Shown, Instruments

\* No more banks hold something than there are slots: each has a slot.
CapacityOK == Cardinality(Store!InUse(Stored)) <= NumSlots

\* No more banks hold something than there are slots.
LEMMA WithinCapacity == IInv => CapacityOK
<1> SUFFICES ASSUME IInv PROVE Cardinality(Store!InUse(Stored)) <= NumSlots
  BY DEF CapacityOK
<1> DEFINE U == Store!InUse(Stored)
           T == {s \in Slots : slots[s].id \in U}
           f == [s \in T |-> slots[s].id]
<1>1. U \subseteq held
  BY BlankType DEF Store!InUse, Stored, Shown, IInv, AbsentBankIsBlank
<1>2. \A b \in U : \E s \in T : slots[s].id = b
  BY <1>1 DEF IInv, SlotsAreTheBanksHeld
<1>3. f \in Surjection(T, U)
  BY <1>2 DEF Surjection
<1>4. /\ IsFiniteSet(Slots) /\ Cardinality(Slots) = NumSlots
      /\ IsFiniteSet(T) /\ Cardinality(T) <= Cardinality(Slots)
  <2>1. IsFiniteSet(Slots) /\ Cardinality(Slots) = NumSlots
    BY ConstantsAssumption, FS_Interval DEF Slots
  <2>2. T \in SUBSET Slots
    OBVIOUS
  <2> HIDE DEF T
  <2>3. QED
    BY <2>1, <2>2, FS_Subset
<1> HIDE DEF U, T, f
<1>5. IsFiniteSet(U) /\ Cardinality(U) <= Cardinality(T)
  BY <1>3, <1>4, FS_Surjection
<1>6. Cardinality(U) \in Nat /\ Cardinality(T) \in Nat
  BY <1>4, <1>5, FS_CardinalityType
<1>7. Cardinality(U) <= NumSlots
  BY <1>4, <1>5, <1>6, ConstantsAssumption
<1>8. QED
  BY <1>7 DEF U

\* A step that changes one program of the player puts or removes one
\* instrument of the store.
LEMMA OneProgramChanged ==
    ASSUME IInv, CapacityOK',
           NEW id \in BankIds, NEW p \in Programs, NEW i \in Instruments,
           \A b \in BankIds, q \in Programs :
              Shown(ins'[b][q]) = IF b = id /\ q = p THEN Shown(i) ELSE Shown(ins[b][q])
    PROVE  Store!Next
<1>1. Stored' = [Stored EXCEPT ![id][p] = Shown(i)]
  <2>1. Stored' = [b \in BankIds |-> [q \in Programs |-> Shown(ins'[b][q])]]
    BY DEF Stored, Shown
  <2>2. QED
    BY <2>1 DEF Stored
<1>2. CASE i.blank
  BY <1>1, <1>2 DEF Shown, Store!Next, Store!Remove
<1>3. CASE ~i.blank
  <2>1. Shown(i) \in [voice : Voices, delays : Delays]
    BY <1>3 DEF Shown, Instruments
  <2>2. Store!InUse(Stored)' = Store!InUse(Stored')
    BY DEF Store!InUse
  <2>3. Store!Put(id, p, Shown(i))
    <3>1. Cardinality(Store!InUse(Stored')) <= NumSlots
      BY <2>2 DEF CapacityOK
    <3>2. QED
      BY <1>1, <3>1 DEF Store!Put, Cardinality, Store!Cardinality
  <2>4. QED
    BY <2>1, <2>3 DEF Store!Next
<1>4. QED
  BY <1>2, <1>3

\* A program of a bank of which no slot has anything in use shows nothing.
LEMMA BlankShowsNothing ==
    ASSUME IInv, NEW b \in BankIds, NEW p \in Programs,
           \A s \in Slots : slots[s].id = b => slots[s].used = {}
    PROVE  Shown(ins[b][p]) = Nothing
<1>1. CASE b \in held
  <2>1. PICK s \in Slots : slots[s].id = b
    BY <1>1 DEF IInv, SlotsAreTheBanksHeld
  <2>2. NonBlank(ins[b]) = {}
    BY <2>1, ConstantsAssumption DEF IInv, UsedIsNotBlank
  <2>3. QED
    BY <2>2 DEF NonBlank, Shown
<1>2. CASE b \notin held
  BY <1>2, BlankType DEF IInv, AbsentBankIsBlank, Shown
<1>3. QED
  BY <1>1, <1>2

\* An empty slot can be emptied without anything of the store being lost.
LEMMA EvictionShowsNothing ==
    ASSUME IInv, NEW s \in EmptySlots, NEW b \in BankIds, NEW p \in Programs
    PROVE  Shown(InsWithout(s)[b][p]) = Shown(ins[b][p])
<1>1. CASE b = slots[s].id
  <2>1. \A t \in Slots : slots[t].id = b => slots[t].used = {}
    BY <1>1, ConstantsAssumption DEF EmptySlots, IInv, SlotsAreTheBanksHeld
  <2>2. Shown(ins[b][p]) = Nothing
    BY <2>1, BlankShowsNothing
  <2>3. QED
    BY <1>1, <2>2, BlankType DEF InsWithout, Shown
<1>2. CASE b # slots[s].id
  BY <1>2 DEF InsWithout
<1>3. QED
  BY <1>1, <1>2

\* Loading a program puts it into the store, or changes nothing there.
LEMMA LoadRefines ==
    ASSUME IInv, CapacityOK',
           NEW id \in BankIds, NEW p \in Programs, NEW i \in Instruments,
           NEW name, NEW flags, NEW answer,
           LoadProgram(id, p, i, name, flags, answer)
    PROVE  Store!Next \/ Stored' = Stored
<1>1. PICK s \in Slots :
         \/ LoadIntoExistingBank(s, id, p, i, name, flags)
         \/ LoadIntoEmptySlot(s, id, p, i, name, flags, answer)
  BY DEF LoadProgram
<1>2. CASE LoadIntoExistingBank(s, id, p, i, name, flags)
  <2>1. \A b \in BankIds, q \in Programs :
           Shown(ins'[b][q]) = IF b = id /\ q = p THEN Shown(i) ELSE Shown(ins[b][q])
    BY <1>2 DEF LoadIntoExistingBank, IInv, TypeOK
  <2>2. QED
    BY <2>1, OneProgramChanged
<1>3. CASE LoadIntoEmptySlot(s, id, p, i, name, flags, answer)
  <2>1. s \in EmptySlots /\ InsWithout(s) \in [BankIds -> [Programs -> Instruments]]
    BY <1>3, EmptiedSlot DEF LoadIntoEmptySlot, IsFirst
  <2>2. \A b \in BankIds, q \in Programs :
           Shown(InsWithout(s)[b][q]) = Shown(ins[b][q])
    BY <2>1, EvictionShowsNothing
  <2>3. CASE ins' = InsWithout(s)
    BY <2>2, <2>3 DEF Stored
  <2>4. CASE ins' = [InsWithout(s) EXCEPT ![id][p] = i]
    <3>1. \A b \in BankIds, q \in Programs :
             Shown(ins'[b][q]) = IF b = id /\ q = p THEN Shown(i) ELSE Shown(ins[b][q])
      BY <2>1, <2>2, <2>4
    <3>2. QED
      BY <3>1, OneProgramChanged
  <2>5. QED
    BY <1>3, <2>3, <2>4 DEF LoadIntoEmptySlot
<1>4. QED
  BY <1>1, <1>2, <1>3

\* Deleting a program removes it from the store.
LEMMA DeleteProgramRefines ==
    ASSUME IInv, CapacityOK',
           NEW id \in BankIds, NEW p \in Programs, NEW notify,
           DeleteProgram(id, p, notify)
    PROVE  Store!Next
<1> DEFINE i == [ins[id][p] EXCEPT !.blank = TRUE]
<1>1. ins[id][p] \in Instruments
  BY DEF IInv, TypeOK
<1>2. i \in Instruments
  BY <1>1 DEF Instruments
<1>3. ins' = [ins EXCEPT ![id][p] = i]
  BY <1>1 DEF DeleteProgram, Instruments
<1> HIDE DEF i
<1>4. \A b \in BankIds, q \in Programs :
         Shown(ins'[b][q]) = IF b = id /\ q = p THEN Shown(i) ELSE Shown(ins[b][q])
  BY <1>3 DEF IInv, TypeOK
<1>5. QED
  BY <1>2, <1>4, OneProgramChanged

\* A measurement puts the same instrument with other delays, or nothing for a
\* blank one.
LEMMA LoadMeasurementRefines ==
    ASSUME IInv, CapacityOK',
           NEW id \in BankIds, NEW p \in Programs, NEW j, NEW d \in Delays,
           NEW notify, LoadMeasurement(id, p, j, d, notify)
    PROVE  Store!Next
<1> DEFINE i == [ins[id][p] EXCEPT !.delays = d]
<1>1. ins[id][p] \in Instruments
  BY DEF IInv, TypeOK
<1>2. i \in Instruments
  BY <1>1 DEF Instruments
<1>3. ins' = [ins EXCEPT ![id][p] = i]
  BY <1>1 DEF LoadMeasurement, Instruments
<1> HIDE DEF i
<1>4. \A b \in BankIds, q \in Programs :
         Shown(ins'[b][q]) = IF b = id /\ q = p THEN Shown(i) ELSE Shown(ins[b][q])
  BY <1>3 DEF IInv, TypeOK
<1>5. QED
  BY <1>2, <1>4, OneProgramChanged

\* Deleting a bank drops it from the store.
LEMMA DeleteBankRefines ==
    ASSUME IInv, NEW id \in BankIds, NEW notify, DeleteBank(id, notify)
    PROVE  Store!Next
<1>1. PICK s \in Slots : slots[s].id = id /\ ins' = InsWithout(s)
  BY DEF DeleteBank, IsFirst, SlotsOf
<1>2. \A b \in BankIds, q \in Programs :
         Shown(ins'[b][q]) = IF b = id THEN Nothing ELSE Shown(ins[b][q])
  BY <1>1, BlankType DEF InsWithout, Shown
<1>3. Stored' = [Stored EXCEPT ![id] = [q \in Programs |-> Nothing]]
  <2>1. Stored' = [b \in BankIds |-> [q \in Programs |-> Shown(ins'[b][q])]]
    BY DEF Stored, Shown
  <2>2. QED
    BY <1>2, <2>1 DEF Stored
<1>4. QED
  BY <1>3 DEF Store!Next, Store!Drop

\* Clearing the banks drops all of them.
LEMMA ClearBanksRefines ==
    ASSUME IInv, NEW notify, ClearBanks(notify)
    PROVE  Store!Next
<1>1. \A b \in BankIds : ins'[b] = [p \in Programs |-> BlankInstrument]
  BY DEF ClearBanks, SlotsOf, IInv, SlotsAreTheBanksHeld, AbsentBankIsBlank
<1>2. \A b \in BankIds, q \in Programs : Shown(ins'[b][q]) = Nothing
  BY <1>1, BlankType DEF Shown
<1>3. Stored' = [b \in BankIds |-> [q \in Programs |-> Shown(ins'[b][q])]]
  BY DEF Stored, Shown
<1>4. QED
  BY <1>2, <1>3 DEF Store!Next, Store!DropAll

\* A step that leaves the instruments leaves the store.
LEMMA InsUnchangedRefines ==
    ASSUME ins' = ins PROVE Stored' = Stored
BY DEF Stored, Shown

\* Every operation is a step of the store or none.
LEMMA NextRefines ==
    IInv /\ CapacityOK' /\ [Next]_vars => [Store!Next]_Stored
<1> SUFFICES ASSUME IInv, CapacityOK', [Next]_vars
             PROVE  Store!Next \/ Stored' = Stored
  OBVIOUS
<1>1. ASSUME \/ \E id \in BankIds, name \in Names, notify \in BOOLEAN :
                   RenameBank(id, name, notify)
             \/ \E id \in BankIds, p \in Programs, name \in Names, notify \in BOOLEAN :
                   RenameProgram(id, p, name, notify)
             \/ \E sent \in SUBSET ToNotify : SendNotifications(sent)
             \/ \E sent \in SUBSET ToMeasure : SendMeasurementRequests(sent)
             \/ MarkSlotsForNotification
             \/ MarkEverythingForNotification
             \/ UNCHANGED vars
      PROVE  Stored' = Stored
  <2>1. ins' = ins
    BY <1>1 DEF RenameBank, RenameProgram, SendNotifications, SendMeasurementRequests,
       MarkSlotsForNotification, MarkEverythingForNotification, vars
  <2>2. QED
    BY <2>1, InsUnchangedRefines
<1>2. QED
  BY <1>1, LoadRefines, DeleteProgramRefines, LoadMeasurementRefines,
     DeleteBankRefines, ClearBanksRefines DEF Next

\* No program but the one a call names comes, goes or changes, whichever slot
\* its bank takes, and no more banks hold something than there are slots.
THEOREM Refinement == Spec => StoreSpec
<1>1. IInv => Store!Init
  <2> SUFFICES ASSUME IInv PROVE Store!Init
    OBVIOUS
  <2>1. \A b \in BankIds, p \in Programs :
           Shown(ins[b][p]) \in [voice : Voices, delays : Delays] \cup {Nothing}
    BY ShownType DEF IInv, TypeOK
  <2>2. QED
    BY <2>1 DEF Store!Init, Stored
<1>2. QED
  BY <1>1, Invariance, WithinCapacity, NextRefines, PTL DEF Spec, StoreSpec, Store!Spec

-----------------------------------------------------------------------------
(* What a change of the banks leaves of a program and of its measurement.  *)

\* A place stays as it is, and is still to be measured if it was.
PlaceKept(place) ==
    /\ place[1] \in held /\ Current(place)' = Current(place)
    /\ ToBeMeasured(place) => ToBeMeasured(place)'

\* The banks that are there have a slot of their own.
LEMMA BankHasSlot ==
    ASSUME IInv, NEW b \in held
    PROVE  \E s \in Slots : slots[s].id = b /\ \A t \in Slots : slots[t].id = b => t = s
BY DEF IInv, SlotsAreTheBanksHeld

\* A program keeps its bits when another one of its bank is recorded.
LEMMA RecordedKeepsOthers ==
    ASSUME NEW info \in SlotRecords, NEW p \in Programs, NEW i, NEW name, NEW flags
    PROVE  /\ Recorded(info, p, i, name, flags).id = info.id
           /\ \A q \in Programs \ {p} :
                 q \in info.to_measure => q \in Recorded(info, p, i, name, flags).to_measure
           /\ "NeedMeasurement" \in flags /\ ~i.blank
                 => p \in Recorded(info, p, i, name, flags).to_measure
BY DEF Recorded, With, SlotRecords

\* A program that is loaded over is what was loaded, to be measured if that was
\* asked, or its bank came without it; the others stay, or came with their bank.
LEMMA LoadKeepsPlaces ==
    ASSUME IInv, NEW id \in BankIds, NEW p \in Programs, NEW i \in Instruments,
           NEW name \in Names, NEW flags \in SUBSET Flags, NEW answer \in Answers,
           LoadProgram(id, p, i, name, flags, answer),
           NEW place \in BankIds \X Programs, place[1] \in held'
    PROVE  \/ Current(place)'.blank
           \/ place # <<id, p>> /\ PlaceKept(place)
           \/ /\ place = <<id, p>> /\ Current(place)' = i
              /\ "NeedMeasurement" \in flags => ToBeMeasured(place)'
<1> DEFINE b == place[1]
           q == place[2]
<1>1. b \in BankIds /\ q \in Programs /\ place = <<b, q>>
  OBVIOUS
<1>2. \A s \in Slots : slots[s] \in SlotRecords
  BY DEF IInv, TypeOK
<1>3. ins \in [BankIds -> [Programs -> Instruments]]
  BY DEF IInv, TypeOK
<1>4. PICK s \in Slots : \/ answer = "taken" /\ LoadIntoExistingBank(s, id, p, i, name, flags)
                         \/ LoadIntoEmptySlot(s, id, p, i, name, flags, answer)
  BY DEF LoadProgram
<1>5. CASE LoadIntoExistingBank(s, id, p, i, name, flags)
  <2> DEFINE R == Recorded(slots[s], p, i, name, flags)
  <2>1. /\ slots[s].id = id /\ held' = held
        /\ slots' = [slots EXCEPT ![s] = R]
        /\ ins' = [ins EXCEPT ![id][p] = i]
    BY <1>5 DEF LoadIntoExistingBank, IsFirst, SlotsOf
  <2>2. /\ R.id = slots[s].id
        /\ \A r \in Programs \ {p} : r \in slots[s].to_measure => r \in R.to_measure
        /\ "NeedMeasurement" \in flags /\ ~i.blank => p \in R.to_measure
    BY <1>2, RecordedKeepsOthers
  <2> HIDE DEF R
  <2>3. slots \in [Slots -> SlotRecords]
    BY DEF IInv, TypeOK
  <2>4. slots'[s] = R /\ \A t \in Slots \ {s} : slots'[t] = slots[t]
    BY <2>1, <2>3
  <2>5. CASE place = <<id, p>>
    <3>1. Current(place)' = i
      BY <1>3, <2>1, <2>5 DEF Current
    <3>2. ~i.blank /\ "NeedMeasurement" \in flags => ToBeMeasured(place)'
      BY <2>1, <2>2, <2>4, <2>5 DEF ToBeMeasured, SlotsOf
    <3> QED BY <2>5, <3>1, <3>2
  <2>6. CASE place # <<id, p>>
    <3>1. Current(place)' = Current(place)
      BY <1>1, <1>3, <2>1, <2>6 DEF Current
    <3>2. ASSUME ToBeMeasured(place) PROVE ToBeMeasured(place)'
      <4>1. PICK t \in Slots : slots[t].id = b /\ q \in slots[t].to_measure
        BY <3>2 DEF ToBeMeasured, SlotsOf
      <4>2. slots'[t].id = b /\ q \in slots'[t].to_measure
        BY <1>1, <2>1, <2>2, <2>4, <2>6, <4>1
      <4> QED BY <4>2 DEF ToBeMeasured, SlotsOf
    <3>3. place[1] \in held
      BY <2>1
    <3> QED BY <2>6, <3>1, <3>2, <3>3 DEF PlaceKept
  <2> QED BY <2>5, <2>6
<1>6. CASE LoadIntoEmptySlot(s, id, p, i, name, flags, answer)
  <2> DEFINE info == [EmptySlot EXCEPT !.id = id]
             R == Recorded(info, p, i, name, flags)
  <2>1. /\ \A t \in Slots : slots[t].id # id
        /\ held' \subseteq HeldWithout(s) \cup {id}
        /\ \A t \in Slots \ {s} : slots'[t] = slots[t]
        /\ ins' = InsWithout(s) \/ ins' = [InsWithout(s) EXCEPT ![id][p] = i]
        /\ answer = "taken" => ins' = [InsWithout(s) EXCEPT ![id][p] = i] /\ slots'[s] = R
        /\ answer # "taken" => ins' = InsWithout(s)
    BY <1>6 DEF LoadIntoEmptySlot, SlotsOf, IInv, TypeOK
  <2>2. /\ InsWithout(s) \in [BankIds -> [Programs -> Instruments]]
        /\ \A c \in BankIds : c # slots[s].id => InsWithout(s)[c] = ins[c]
        /\ \A c \in BankIds \ HeldWithout(s) :
              InsWithout(s)[c] = [r \in Programs |-> BlankInstrument]
    BY EmptiedSlot
  <2>3. id \notin HeldWithout(s)
    BY <2>1, ConstantsAssumption DEF HeldWithout, IInv, SlotsAreTheBanksHeld
  <2>4. BlankInstrument.blank
    BY BlankType
  <2>5. CASE b = id
    <3>1. CASE answer = "taken" /\ q = p
      <4>1. Current(place)' = i
        BY <1>1, <2>1, <2>2, <2>5, <3>1 DEF Current
      <4>2. info \in SlotRecords /\ info.id = id
        BY EmptySlotType DEF EmptySlot, SlotRecords
      <4>3. R.id = id /\ ("NeedMeasurement" \in flags /\ ~i.blank => p \in R.to_measure)
        <5> HIDE DEF info
        <5> QED BY <4>2, RecordedKeepsOthers
      <4>4. slots'[s] = R
        BY <2>1, <3>1
      <4> HIDE DEF R, info
      <4>5. ~i.blank /\ "NeedMeasurement" \in flags => ToBeMeasured(place)'
        BY <2>5, <3>1, <4>3, <4>4 DEF ToBeMeasured, SlotsOf
      <4> QED BY <1>1, <2>5, <3>1, <4>1, <4>5
    <3>2. CASE ~(answer = "taken" /\ q = p)
      <4>1. ins'[id][q] = InsWithout(s)[id][q]
        BY <1>1, <2>1, <2>2, <3>2
      <4>2. InsWithout(s)[id][q] = BlankInstrument
        BY <1>1, <2>2, <2>3
      <4> QED BY <2>4, <2>5, <4>1, <4>2 DEF Current
    <3> QED BY <3>1, <3>2
  <2>6. CASE b # id
    <3>1. b \in held /\ b # slots[s].id
      BY <2>1, <2>6 DEF HeldWithout
    <3>2. Current(place)' = Current(place)
      BY <1>1, <2>1, <2>2, <2>6, <3>1 DEF Current
    <3>3. ToBeMeasured(place) => ToBeMeasured(place)'
      BY <2>1, <3>1 DEF ToBeMeasured, SlotsOf
    <3> QED BY <1>1, <2>6, <3>1, <3>2, <3>3 DEF PlaceKept
  <2> QED BY <2>5, <2>6
<1> QED BY <1>4, <1>5, <1>6

\* What is deleted is blank, or its bank is not there; the others stay.
LEMMA DiscardKeepsPlaces ==
    ASSUME IInv, NEW id \in BankIds, NEW p \in Programs, NEW notify \in BOOLEAN,
           DeleteProgram(id, p, notify) \/ DeleteBank(id, notify) \/ ClearBanks(notify),
           NEW place \in BankIds \X Programs, place[1] \in held'
    PROVE  Current(place)'.blank \/ PlaceKept(place)
<1> DEFINE b == place[1]
           q == place[2]
<1>1. b \in BankIds /\ q \in Programs
  OBVIOUS
<1>2. slots \in [Slots -> SlotRecords] /\ ins \in [BankIds -> [Programs -> Instruments]]
  BY DEF IInv, TypeOK
<1>3. CASE DeleteProgram(id, p, notify)
  <2>1. PICK s \in Slots :
           /\ ins' = [ins EXCEPT ![id][p].blank = TRUE]
           /\ slots' = [slots EXCEPT ![s].used = @ \ {p}]
           /\ held' = held
    BY <1>3 DEF DeleteProgram
  <2>2. \A t \in Slots : slots'[t].id = slots[t].id /\ slots'[t].to_measure = slots[t].to_measure
    BY <1>2, <2>1 DEF SlotRecords
  <2>3. ToBeMeasured(place) => ToBeMeasured(place)'
    BY <2>2 DEF ToBeMeasured, SlotsOf
  <2>4. CASE b = id /\ q = p
    <3>1. ins[id][p] \in Instruments
      BY <1>2
    <3>2. ins'[id][p] = [ins[id][p] EXCEPT !.blank = TRUE]
      BY <1>2, <2>1
    <3> QED BY <2>4, <3>1, <3>2 DEF Current, Instruments
  <2>5. CASE ~(b = id /\ q = p)
    <3>1. ins'[b][q] = ins[b][q]
      BY <1>1, <1>2, <2>1, <2>5
    <3> QED BY <2>1, <2>3, <3>1 DEF PlaceKept, Current
  <2> QED BY <2>4, <2>5
<1>4. CASE DeleteBank(id, notify)
  <2>1. PICK s \in Slots :
           /\ slots' = [slots EXCEPT ![s] = EmptySlot]
           /\ held' = HeldWithout(s) /\ ins' = InsWithout(s)
    BY <1>4 DEF DeleteBank
  <2>2. b \in held /\ b # slots[s].id
    BY <2>1 DEF HeldWithout
  <2>3. Current(place)' = Current(place)
    BY <1>1, <2>1, <2>2, EmptiedSlot DEF Current
  <2>4. \A t \in Slots : slots[t].id = b => slots'[t] = slots[t]
    BY <1>2, <2>1, <2>2
  <2>5. ToBeMeasured(place) => ToBeMeasured(place)'
    BY <2>4 DEF ToBeMeasured, SlotsOf
  <2> QED BY <2>2, <2>3, <2>5 DEF PlaceKept
<1>5. CASE ClearBanks(notify)
  BY <1>5 DEF ClearBanks, IInv, SlotsAreTheBanksHeld
<1> QED BY <1>3, <1>4, <1>5

-----------------------------------------------------------------------------
(* What is asked of the worker.                                            *)

\* A program that stays as it is has its last request still.
LEMMA LastRequestStays ==
    ASSUME NEW place, Current(place)' = Current(place), UNCHANGED loopQueues
    PROVE  LastRequestIsOf(place) => LastRequestIsOf(place)'
BY DEF LastRequestIsOf, IsOf, EqualExceptDelays, loopQueues

\* What the programs have to be for the measurements of a step to be right.
LEMMA PlacesAreMeasured ==
    ASSUME LoopInv, UNCHANGED loopQueues,
           \A place \in Places :
              place[1] \in held' /\ place \notin lost'
                 => \/ DelaysFit(Current(place))' \/ ToBeMeasured(place)'
                    \/ place \notin lost /\ PlaceKept(place)
    PROVE  LoopInv'
<1> SUFFICES ASSUME NEW place \in Places, place[1] \in held', place \notin lost'
             PROVE  DelaysFit(Current(place))' \/ ToBeMeasured(place)' \/ LastRequestIsOf(place)'
  BY DEF LoopInv
<1>1. CASE place \notin lost /\ PlaceKept(place)
  <2>1. Current(place)' = Current(place) /\ (ToBeMeasured(place) => ToBeMeasured(place)')
    BY <1>1 DEF PlaceKept
  <2>2. DelaysFit(Current(place)) \/ ToBeMeasured(place) \/ LastRequestIsOf(place)
    BY <1>1 DEF LoopInv, PlaceKept
  <2> QED BY <2>1, <2>2, LastRequestStays DEF DelaysFit
<1> QED BY <1>1

\* The queues of the loop that stay as they are stay of their type.
LEMMA LoopTypeStays ==
    LoopTypeOK /\ UNCHANGED loopQueues /\ lost' \in SUBSET Places => LoopTypeOK'
BY DEF LoopTypeOK, loopQueues

\* A program is loaded, with delays of its own or to be measured.
LEMMA LoadKeepsLoop ==
    ASSUME LoopIInv, NEW b \in BankIds, NEW q \in Programs, NEW i \in Instruments,
           NEW flags \in SUBSET Flags, NEW answer \in Answers,
           LoadProgram(b, q, i, NoName, flags, answer),
           "NeedMeasurement" \in flags \/ DelaysFit(i),
           lost' = lost \ {<<b, q>>}, UNCHANGED loopQueues
    PROVE  LoopIInv'
<1> USE DEF LoopIInv
<1>1. NoName \in Names
  BY ConstantsAssumption
<1>2. IInv'
  BY <1>1, LoadExistingKeeps, LoadEmptyKeeps DEF LoadProgram
<1>3. LoopTypeOK'
  BY LoopTypeStays DEF LoopTypeOK
<1>4. ASSUME NEW other \in Places, other[1] \in held', other \notin lost'
      PROVE  \/ DelaysFit(Current(other))' \/ ToBeMeasured(other)'
             \/ other \notin lost /\ PlaceKept(other)
  <2>1. other \in BankIds \X Programs
    BY LoopAssumption
  <2>2. \/ Current(other)'.blank
        \/ other # <<b, q>> /\ PlaceKept(other)
        \/ other = <<b, q>> /\ Current(other)' = i
           /\ ("NeedMeasurement" \in flags => ToBeMeasured(other)')
    BY <1>1, <1>4, <2>1, LoadKeepsPlaces
  <2>3. Current(other)'.blank => DelaysFit(Current(other))'
    BY DEF DelaysFit
  <2>4. other # <<b, q>> => other \notin lost
    BY <1>4
  <2>5. Current(other)' = i /\ DelaysFit(i) => DelaysFit(Current(other))'
    BY DEF DelaysFit
  <2> QED BY <2>2, <2>3, <2>4, <2>5
<1>5. LoopInv'
  BY <1>4, PlacesAreMeasured
<1> QED BY <1>2, <1>3, <1>5

\* A program is loaded anew.
LEMMA LoadNewKeeps ==
    ASSUME LoopIInv, NEW place \in Places, LoadNew(place)
    PROVE  LoopIInv'
<1>1. PICK b \in BankIds, q \in Programs : place = <<b, q>>
  BY LoopAssumption
<1>2. PICK v \in Voices :
         \/ \E answer \in Answers :
               LoadProgram(b, q, [voice |-> v, delays |-> NoDelay, blank |-> FALSE],
                           NoName, {"NeedMeasurement"}, answer)
         \/ LoadProgram(b, q, [voice |-> v, delays |-> DelaysOf[v], blank |-> FALSE],
                        NoName, {}, "taken")
  BY <1>1 DEF LoadNew
<1>3. lost' = lost \ {<<b, q>>} /\ UNCHANGED loopQueues
  BY <1>1 DEF LoadNew
<1>4. DelaysOf[v] \in Delays
  BY LoopAssumption
<1>5. /\ [voice |-> v, delays |-> NoDelay, blank |-> FALSE] \in Instruments
      /\ [voice |-> v, delays |-> DelaysOf[v], blank |-> FALSE] \in Instruments
      /\ DelaysFit([voice |-> v, delays |-> DelaysOf[v], blank |-> FALSE])
  BY <1>4, ConstantsAssumption DEF Instruments, DelaysFit
<1>6. /\ {"NeedMeasurement"} \in SUBSET Flags /\ "NeedMeasurement" \in {"NeedMeasurement"}
      /\ {} \in SUBSET Flags /\ "taken" \in Answers
  BY DEF Flags, Answers
<1> QED BY <1>2, <1>3, <1>5, <1>6, LoadKeepsLoop

\* A voice is edited, to be measured.
LEMMA EditVoiceKeeps ==
    ASSUME LoopIInv, NEW place \in Places, EditVoice(place)
    PROVE  LoopIInv'
<1>1. PICK b \in BankIds, q \in Programs : place = <<b, q>>
  BY LoopAssumption
<1>2. PICK v \in Voices, blank \in BOOLEAN :
         LoadProgram(b, q, [Current(place) EXCEPT !.voice = v, !.blank = blank],
                     NoName, {"NeedMeasurement", "KeepName"}, "taken")
  BY <1>1 DEF EditVoice
<1>3. lost' = lost \ {<<b, q>>} /\ UNCHANGED loopQueues
  BY <1>1 DEF EditVoice
<1>4. Current(place) \in Instruments
  BY <1>1 DEF Current, LoopIInv, IInv, TypeOK
<1>5. [Current(place) EXCEPT !.voice = v, !.blank = blank] \in Instruments
  BY <1>4 DEF Instruments
<1>6. /\ {"NeedMeasurement", "KeepName"} \in SUBSET Flags
      /\ "NeedMeasurement" \in {"NeedMeasurement", "KeepName"} /\ "taken" \in Answers
  BY DEF Flags, Answers
<1> QED BY <1>2, <1>3, <1>5, <1>6, LoadKeepsLoop

\* A program or banks are deleted.
LEMMA DiscardKeeps ==
    ASSUME LoopIInv, NEW place \in Places, Discard(place)
    PROVE  LoopIInv'
<1> USE DEF LoopIInv
<1>1. place[1] \in BankIds /\ place[2] \in Programs
  BY LoopAssumption
<1>2. /\ \/ DeleteProgram(place[1], place[2], FALSE)
         \/ DeleteBank(place[1], FALSE)
         \/ ClearBanks(FALSE)
      /\ UNCHANGED loopQueues /\ lost' = lost
  BY DEF Discard
<1>3. IInv'
  BY <1>1, <1>2, DeleteProgramKeeps, DeleteBankKeeps, ClearBanksKeeps
<1>4. LoopTypeOK'
  BY <1>2, LoopTypeStays DEF LoopTypeOK
<1>5. LoopInv'
  <2>1. ASSUME NEW other \in Places, other[1] \in held', other \notin lost'
        PROVE  \/ DelaysFit(Current(other))' \/ ToBeMeasured(other)'
               \/ other \notin lost /\ PlaceKept(other)
    <3>1. other \in BankIds \X Programs
      BY LoopAssumption
    <3>2. Current(other)'.blank \/ PlaceKept(other)
      BY <1>1, <1>2, <2>1, <3>1, DiscardKeepsPlaces
    <3>3. Current(other)'.blank => DelaysFit(Current(other))'
      BY DEF DelaysFit
    <3> QED BY <1>2, <2>1, <3>2, <3>3
  <2> QED BY <1>2, <2>1, PlacesAreMeasured
<1> QED BY <1>3, <1>4, <1>5

-----------------------------------------------------------------------------
(* The way of the requests.                                                *)

\* What a cycle sends it sends once.
LEMMA OrderSendsEachOnce ==
    ASSUME NEW sent \in SUBSET (Slots \X Programs), NEW order \in InOrder(sent)
    PROVE  /\ Cardinality(sent) \in Nat
           /\ order \in [1 .. Cardinality(sent) -> sent]
           /\ \A x \in sent : \E k \in 1 .. Cardinality(sent) : order[k] = x
           /\ \A j, k \in 1 .. Cardinality(sent) : j < k => order[j] # order[k]
<1>1. IsFiniteSet(Slots \X Programs)
  <2>1. IsFiniteSet(Slots) /\ IsFiniteSet(Programs)
    BY FS_Interval, ConstantsAssumption DEF Slots, Programs
  <2> QED BY <2>1, FS_Product
<1>2. Cardinality(sent) \in Nat
  BY <1>1, FS_Subset, FS_CardinalityType
<1>3. order \in [1 .. Cardinality(sent) -> sent] /\ sent = {order[k] : k \in DOMAIN order}
      /\ \A j, k \in DOMAIN order : j < k => Before(order[j], order[k])
  BY DEF InOrder
<1>4. \A x \in Slots \X Programs : ~Before(x, x)
  BY ConstantsAssumption DEF Before, Slots, Programs
<1> QED BY <1>2, <1>3, <1>4

\* What is to be measured is a program of a bank there is, in one slot.
LEMMA MeasuredHasPlace ==
    ASSUME IInv, NEW x \in ToMeasure
    PROVE  /\ slots[x[1]].id \in held /\ x[2] \in Programs /\ x[1] \in Slots
           /\ RequestOf(x) \in Requests
           /\ IsOf(RequestOf(x), <<slots[x[1]].id, x[2]>>)
           /\ \A y \in ToMeasure : RequestOf(y).place = RequestOf(x).place => y = x
<1>1. /\ x[1] \in Slots /\ x[2] \in Programs /\ x = <<x[1], x[2]>>
      /\ x[2] \in slots[x[1]].to_measure
  BY DEF ToMeasure
<1>2. slots[x[1]] # EmptySlot
  BY <1>1 DEF EmptySlot
<1>3. slots[x[1]].id # NoBank /\ slots[x[1]].id \in held
  BY <1>1, <1>2 DEF IInv, EmptySlotHoldsNothing, SlotsAreTheBanksHeld
<1>4. slots[x[1]].id \in BankIds /\ ins[slots[x[1]].id][x[2]] \in Instruments
  BY <1>1, <1>3 DEF IInv, TypeOK
<1>5. [ins[slots[x[1]].id][x[2]] EXCEPT !.delays = NoDelay] \in Instruments
  BY <1>4, ConstantsAssumption DEF Instruments
<1>6. RequestOf(x) \in Requests
  BY <1>1, <1>4, <1>5 DEF RequestOf, Requests
<1>7. IsOf(RequestOf(x), <<slots[x[1]].id, x[2]>>)
  BY <1>4 DEF IsOf, RequestOf, Current, EqualExceptDelays, Instruments
<1>8. ASSUME NEW y \in ToMeasure, RequestOf(y).place = RequestOf(x).place PROVE y = x
  <2>1. y[1] \in Slots /\ y = <<y[1], y[2]>>
    BY DEF ToMeasure
  <2>2. slots[y[1]].id = slots[x[1]].id /\ y[2] = x[2]
    BY <1>8 DEF RequestOf
  <2> QED BY <1>1, <1>3, <2>1, <2>2 DEF IInv, SlotsAreTheBanksHeld
<1> QED BY <1>1, <1>3, <1>6, <1>7, <1>8

\* Programs are asked to be measured: each request is the last one of its program,
\* and the programs that were not sent keep their place in the list or the loop.
LEMMA RequestMeasurementsKeeps ==
    ASSUME LoopIInv, NEW sent \in SUBSET ToMeasure, RequestMeasurements(sent)
    PROVE  LoopIInv'
<1> USE DEF LoopIInv
<1>1. PICK order \in InOrder(sent) :
         mq_to_worker' = mq_to_worker \o [k \in DOMAIN order |-> RequestOf(order[k])]
  BY DEF RequestMeasurements
<1>2. /\ SendMeasurementRequests(sent)
      /\ measure_requests' = measure_requests /\ mq_from_worker' = mq_from_worker
      /\ lost' = lost
  BY DEF RequestMeasurements
<1>3. sent \in SUBSET (Slots \X Programs)
  BY DEF ToMeasure
<1>4. PICK n \in Nat : \E sending \in [1 .. n -> Requests] :
         /\ order \in [1 .. n -> sent]
         /\ \A k \in 1 .. n : sending[k] = RequestOf(order[k])
         /\ \A x \in sent : \E k \in 1 .. n : order[k] = x
         /\ \A j, k \in 1 .. n : j < k => order[j] # order[k]
         /\ mq_to_worker' = mq_to_worker \o sending
  <2>1. [k \in 1 .. Cardinality(sent) |-> RequestOf(order[k])]
           \in [1 .. Cardinality(sent) -> Requests]
    <3>1. \A k \in 1 .. Cardinality(sent) : order[k] \in ToMeasure
      BY <1>3, OrderSendsEachOnce
    <3> QED BY <3>1, MeasuredHasPlace
  <2>2. DOMAIN order = 1 .. Cardinality(sent)
    BY <1>3, OrderSendsEachOnce
  <2>3. mq_to_worker' = mq_to_worker \o [k \in 1 .. Cardinality(sent) |-> RequestOf(order[k])]
    BY <1>1, <2>2
  <2> DEFINE n == Cardinality(sent)
             sending == [k \in 1 .. Cardinality(sent) |-> RequestOf(order[k])]
  <2>4. \A k \in 1 .. n : sending[k] = RequestOf(order[k])
    OBVIOUS
  <2>5. n \in Nat /\ sending \in [1 .. n -> Requests] /\ mq_to_worker' = mq_to_worker \o sending
    BY <1>3, <2>1, <2>3, OrderSendsEachOnce
  <2>6. /\ order \in [1 .. n -> sent]
        /\ \A x \in sent : \E k \in 1 .. n : order[k] = x
        /\ \A j, k \in 1 .. n : j < k => order[j] # order[k]
    BY <1>3, OrderSendsEachOnce
  <2> HIDE DEF sending, n
  <2> QED BY <2>4, <2>5, <2>6
<1>41. PICK asked \in [1 .. n -> Requests] :
         /\ order \in [1 .. n -> sent]
         /\ \A k \in 1 .. n : asked[k] = RequestOf(order[k])
         /\ \A x \in sent : \E k \in 1 .. n : order[k] = x
         /\ \A j, k \in 1 .. n : j < k => order[j] # order[k]
         /\ mq_to_worker' = mq_to_worker \o asked
  BY <1>4
<1>5. mq_to_worker \in Seq(Requests) /\ asked \in Seq(Requests) /\ Len(asked) = n
  BY <1>41 DEF LoopTypeOK
<1>6. /\ mq_to_worker' \in Seq(Requests)
      /\ Len(mq_to_worker') = Len(mq_to_worker) + n
      /\ \A k \in 1 .. Len(mq_to_worker) : mq_to_worker'[k] = mq_to_worker[k]
      /\ \A k \in 1 .. n : mq_to_worker'[Len(mq_to_worker) + k] = asked[k]
  BY <1>41, <1>5
<1>7. held' = held /\ ins' = ins
      /\ \A s \in Slots : /\ slots'[s].id = slots[s].id
                          /\ \A p \in slots[s].to_measure :
                                <<s, p>> \notin sent => p \in slots'[s].to_measure
  BY <1>2 DEF SendMeasurementRequests, IInv, TypeOK, SlotRecords
<1>8. ASSUME NEW place \in Places, place[1] \in held, place \notin lost
      PROVE  DelaysFit(Current(place))' \/ ToBeMeasured(place)' \/ LastRequestIsOf(place)'
  <2>1. Current(place)' = Current(place)
    BY <1>7 DEF Current
  <2>2. /\ \A r : IsOf(r, place) => IsOf(r, place)'
        /\ \A k : IsOf(mq_to_worker'[k], place) => IsOf(mq_to_worker[k], place)'
    BY <2>1 DEF IsOf, EqualExceptDelays
  <2>3. CASE \E k \in 1 .. n : asked[k].place = place
    <3>1. PICK k \in 1 .. n : asked[k].place = place
      BY <2>3
    <3>2. order[k] \in ToMeasure /\ asked[k] = RequestOf(order[k])
      BY <1>41
    <3>3. IsOf(asked[k], place)
      <4>1. IsOf(asked[k], <<slots[order[k][1]].id, order[k][2]>>)
        BY <3>2, MeasuredHasPlace
      <4> QED BY <3>1, <4>1 DEF IsOf
    <3>4. ASSUME NEW j \in 1 .. n, k < j PROVE asked[j].place # place
      <4>1. order[j] \in ToMeasure /\ asked[j] = RequestOf(order[j]) /\ order[k] # order[j]
        BY <1>41, <3>4
      <4> QED BY <3>1, <3>2, <4>1, MeasuredHasPlace
    <3>5. Len(mq_to_worker) \in Nat
      BY <1>5
    <3>6. PICK m \in Nat : m = Len(mq_to_worker) + k
      BY <3>5
    <3>9. IsOf(mq_to_worker[m], place)'
      BY <1>6, <2>2, <3>3, <3>6
    <3>7. \A j \in m + 1 .. Len(mq_to_worker') : mq_to_worker'[j].place # place
      <4> SUFFICES ASSUME NEW j \in m + 1 .. Len(mq_to_worker')
                   PROVE  mq_to_worker'[j].place # place
        OBVIOUS
      <4>1. j - Len(mq_to_worker) \in 1 .. n /\ k < j - Len(mq_to_worker)
            /\ j = Len(mq_to_worker) + (j - Len(mq_to_worker))
        BY <1>6, <3>5, <3>6
      <4> QED BY <1>6, <3>4, <4>1
    <3>8. m \in 1 .. Len(mq_to_worker')
      BY <1>6, <3>5, <3>6
    <3> QED BY <3>7, <3>8, <3>9 DEF LastRequestIsOf
  <2>4. CASE \A k \in 1 .. n : asked[k].place # place
    <3>1. ToBeMeasured(place) => ToBeMeasured(place)'
      <4> SUFFICES ASSUME ToBeMeasured(place) PROVE ToBeMeasured(place)'
        OBVIOUS
      <4>1. PICK s \in Slots : slots[s].id = place[1] /\ place[2] \in slots[s].to_measure
        BY DEF ToBeMeasured, SlotsOf
      <4>2. <<s, place[2]>> \notin sent
        <5> SUFFICES ASSUME <<s, place[2]>> \in sent PROVE FALSE
          OBVIOUS
        <5>1. PICK k \in 1 .. n : order[k] = <<s, place[2]>>
          BY <1>41
        <5>2. asked[k].place = <<slots[s].id, place[2]>>
          BY <1>41, <5>1 DEF RequestOf
        <5>3. place = <<place[1], place[2]>>
          BY LoopAssumption
        <5>4. asked[k].place = place
          BY <4>1, <5>2, <5>3
        <5> QED BY <2>4, <5>4
      <4> QED BY <1>7, <4>1, <4>2 DEF ToBeMeasured, SlotsOf
    <3>2. Len(mq_to_worker) \in Nat
      BY <1>5
    <3>3. \A j \in Len(mq_to_worker) + 1 .. Len(mq_to_worker') : mq_to_worker'[j].place # place
      <4> SUFFICES ASSUME NEW j \in Len(mq_to_worker) + 1 .. Len(mq_to_worker')
                   PROVE  mq_to_worker'[j].place # place
        OBVIOUS
      <4>1. j - Len(mq_to_worker) \in 1 .. n
            /\ j = Len(mq_to_worker) + (j - Len(mq_to_worker))
        BY <1>6, <3>2
      <4> QED BY <1>6, <2>4, <4>1
    <3>4. ASSUME NEW k \in 1 .. Len(mq_to_worker), IsOf(mq_to_worker[k], place),
                 \A j \in k + 1 .. Len(mq_to_worker) : mq_to_worker[j].place # place
          PROVE  LastRequestIsOf(place)'
      <4>1. IsOf(mq_to_worker[k], place)' /\ k \in 1 .. Len(mq_to_worker')
        BY <1>6, <2>2, <3>2, <3>4
      <4>2. ASSUME NEW j \in k + 1 .. Len(mq_to_worker')
            PROVE  mq_to_worker'[j].place # place
        <5>1. CASE j \in k + 1 .. Len(mq_to_worker)
          <6>1. j \in 1 .. Len(mq_to_worker)
            BY <3>2, <5>1
          <6> QED BY <1>6, <3>4, <5>1, <6>1
        <5>2. CASE j \in Len(mq_to_worker) + 1 .. Len(mq_to_worker')
          BY <3>3, <5>2
        <5> QED BY <1>6, <3>2, <5>1, <5>2
      <4> QED BY <4>1, <4>2 DEF LastRequestIsOf
    <3>5. ASSUME \A j \in 1 .. Len(mq_to_worker) : mq_to_worker[j].place # place,
                 NEW r \in measure_requests, IsOf(r, place)
          PROVE  LastRequestIsOf(place)'
      <4>1. \A j \in 1 .. Len(mq_to_worker') : mq_to_worker'[j].place # place
        BY <1>6, <3>2, <3>3, <3>5
      <4>2. IsOf(r, place)' /\ r \in measure_requests'
        BY <1>2, <2>2, <3>5
      <4> QED BY <4>1, <4>2 DEF LastRequestIsOf
    <3>6. ASSUME NEW k \in 1 .. Len(mq_from_worker), IsOf(mq_from_worker[k], place)
          PROVE  LastRequestIsOf(place)'
      BY <1>2, <2>2, <3>6 DEF LastRequestIsOf
    <3>7. LastRequestIsOf(place) => LastRequestIsOf(place)'
      BY <3>4, <3>5, <3>6 DEF LastRequestIsOf
    <3>8. DelaysFit(Current(place)) => DelaysFit(Current(place))'
      BY <2>1 DEF DelaysFit
    <3> QED BY <1>8, <3>1, <3>7, <3>8 DEF LoopInv
  <2> QED BY <2>3, <2>4
<1>9. IInv'
  BY <1>2, SendMeasurementRequestsKeeps
<1>10. LoopTypeOK'
  BY <1>2, <1>6 DEF LoopTypeOK
<1> QED BY <1>2, <1>7, <1>8, <1>9, <1>10 DEF LoopInv

\* The measurements are right while the programs stay, when their requests do.
LEMMA SamePrograms ==
    ASSUME LoopInv, UNCHANGED <<vars, lost>>,
           \A place \in Places :
              place[1] \in held /\ LastRequestIsOf(place)
                 => DelaysFit(Current(place)) \/ LastRequestIsOf(place)'
    PROVE  LoopInv'
<1>1. \A place : /\ Current(place)' = Current(place)
                 /\ ToBeMeasured(place)' <=> ToBeMeasured(place)
  BY DEF vars, Current, ToBeMeasured, SlotsOf
<1>2. held' = held /\ lost' = lost
  BY DEF vars
<1> QED BY <1>1, <1>2 DEF LoopInv, DelaysFit

\* A queue gives its first one, and the others move up.
LEMMA HeadTaken ==
    ASSUME NEW S, NEW q \in Seq(S), q # <<>>
    PROVE  /\ Head(q) \in S /\ Head(q) = q[1] /\ Tail(q) \in Seq(S)
           /\ Len(q) \in Nat \ {0} /\ Len(Tail(q)) = Len(q) - 1
           /\ \A k \in 1 .. Len(q) - 1 : Tail(q)[k] = q[k + 1]
BY HeadTailProperties

\* The worker takes a request, which replaces the one it had of the program.
LEMMA TakeRequestKeeps ==
    ASSUME LoopIInv, TakeRequest
    PROVE  LoopIInv'
<1> USE DEF LoopIInv
<1>1. /\ mq_to_worker # <<>> /\ mq_to_worker' = Tail(mq_to_worker)
      /\ measure_requests' = Requested(Head(mq_to_worker))
      /\ UNCHANGED <<vars, mq_from_worker, lost>>
  BY DEF TakeRequest
<1>2. PICK first \in Requests, n \in Nat :
         /\ first = Head(mq_to_worker) /\ first = mq_to_worker[1] /\ n = Len(mq_to_worker)
         /\ n > 0 /\ Len(mq_to_worker') = n - 1 /\ mq_to_worker' \in Seq(Requests)
         /\ \A k \in 1 .. n - 1 : mq_to_worker'[k] = mq_to_worker[k + 1]
  BY <1>1, HeadTaken DEF LoopTypeOK
<1>3. measure_requests' = {q \in measure_requests : q.place # first.place} \cup {first}
  BY <1>1, <1>2 DEF Requested
<1>4. LoopTypeOK'
  BY <1>1, <1>2, <1>3 DEF LoopTypeOK
<1>5. ASSUME NEW place \in Places, LastRequestIsOf(place) PROVE LastRequestIsOf(place)'
  <2>1. /\ \A r : IsOf(r, place) => IsOf(r, place)'
        /\ \A k : IsOf(mq_to_worker'[k], place) => IsOf(mq_to_worker[k], place)'
    BY <1>1 DEF vars, IsOf, Current
  <2>2. ASSUME NEW k \in 1 .. n, IsOf(mq_to_worker[k], place),
               \A j \in k + 1 .. n : mq_to_worker[j].place # place
        PROVE  LastRequestIsOf(place)'
    <3>1. CASE k = 1
      <4>1. \A j \in 1 .. Len(mq_to_worker') : mq_to_worker'[j].place # place
        BY <1>2, <2>2, <3>1
      <4>2. first \in measure_requests' /\ IsOf(first, place)'
        BY <1>2, <1>3, <2>1, <2>2, <3>1
      <4> QED BY <4>1, <4>2 DEF LastRequestIsOf
    <3>2. CASE k # 1
      <4>1. PICK m \in 1 .. n - 1 : k = m + 1
        BY <3>2
      <4>2. m \in 1 .. Len(mq_to_worker') /\ IsOf(mq_to_worker[m], place)'
        BY <1>2, <2>1, <2>2, <4>1
      <4>3. \A j \in m + 1 .. Len(mq_to_worker') : mq_to_worker'[j].place # place
        BY <1>2, <2>2, <4>1
      <4> QED BY <4>2, <4>3 DEF LastRequestIsOf
    <3> QED BY <3>1, <3>2
  <2>3. ASSUME \A j \in 1 .. n : mq_to_worker[j].place # place,
               NEW r \in measure_requests, IsOf(r, place)
        PROVE  LastRequestIsOf(place)'
    <3>1. r \in measure_requests' /\ IsOf(r, place)'
      BY <1>2, <1>3, <2>1, <2>3 DEF IsOf
    <3>2. \A j \in 1 .. Len(mq_to_worker') : mq_to_worker'[j].place # place
      BY <1>2, <2>3
    <3> QED BY <3>1, <3>2 DEF LastRequestIsOf
  <2>4. ASSUME NEW k \in 1 .. Len(mq_from_worker), IsOf(mq_from_worker[k], place)
        PROVE  LastRequestIsOf(place)'
    <3>1. mq_from_worker' = mq_from_worker
      BY <1>1
    <3> QED BY <2>1, <2>4, <3>1 DEF LastRequestIsOf
  <2> QED BY <1>2, <1>5, <2>2, <2>3, <2>4 DEF LastRequestIsOf
<1>6. LoopInv'
  BY <1>1, <1>5, SamePrograms
<1>7. IInv'
  BY <1>1, NextKeepsInvariant
<1> QED BY <1>4, <1>6, <1>7

\* The worker measures a program.
LEMMA MeasureKeeps ==
    ASSUME LoopIInv, NEW r \in measure_requests, Measure(r)
    PROVE  LoopIInv'
<1> USE DEF LoopIInv
<1>1. /\ mq_from_worker' = Append(mq_from_worker, r)
      /\ measure_requests' = measure_requests \ {r}
      /\ UNCHANGED <<vars, mq_to_worker, lost>>
  BY DEF Measure
<1>2. /\ r \in Requests /\ mq_from_worker' \in Seq(Requests)
      /\ Len(mq_from_worker) \in Nat /\ Len(mq_from_worker') = Len(mq_from_worker) + 1
      /\ \A k \in 1 .. Len(mq_from_worker) : mq_from_worker'[k] = mq_from_worker[k]
      /\ mq_from_worker'[Len(mq_from_worker) + 1] = r
  BY <1>1 DEF LoopTypeOK
<1>3. LoopTypeOK'
  BY <1>1, <1>2 DEF LoopTypeOK
<1>4. ASSUME NEW place \in Places, LastRequestIsOf(place) PROVE LastRequestIsOf(place)'
  <2>1. /\ \A q : IsOf(q, place) => IsOf(q, place)'
        /\ \A k : IsOf(mq_from_worker'[k], place) => IsOf(mq_from_worker[k], place)'
        /\ \A k : IsOf(mq_to_worker[k], place) => IsOf(mq_to_worker[k], place)'
    BY <1>1 DEF vars, IsOf, Current
  <2>2. ASSUME NEW k \in 1 .. Len(mq_from_worker'), IsOf(mq_from_worker'[k], place)
        PROVE  LastRequestIsOf(place)'
    BY <2>1, <2>2 DEF LastRequestIsOf
  <2>3. ASSUME NEW k \in 1 .. Len(mq_from_worker), IsOf(mq_from_worker[k], place)
        PROVE  LastRequestIsOf(place)'
    BY <1>2, <2>2, <2>3
  <2>4. CASE IsOf(r, place)
    BY <1>2, <2>2, <2>4
  <2>5. ASSUME \A j \in 1 .. Len(mq_to_worker) : mq_to_worker[j].place # place,
               NEW q \in measure_requests, q # r, IsOf(q, place)
        PROVE  LastRequestIsOf(place)'
    <3>1. q \in measure_requests' /\ IsOf(q, place)' /\ mq_to_worker' = mq_to_worker
      BY <1>1, <2>1, <2>5
    <3> QED BY <2>5, <3>1 DEF LastRequestIsOf
  <2>6. ASSUME NEW k \in 1 .. Len(mq_to_worker), IsOf(mq_to_worker[k], place),
               \A j \in k + 1 .. Len(mq_to_worker) : mq_to_worker[j].place # place
        PROVE  LastRequestIsOf(place)'
    <3>1. IsOf(mq_to_worker[k], place)' /\ mq_to_worker' = mq_to_worker
      BY <1>1, <2>1, <2>6
    <3> QED BY <2>6, <3>1 DEF LastRequestIsOf
  <2> QED BY <1>4, <2>3, <2>4, <2>5, <2>6 DEF LastRequestIsOf
<1>5. LoopInv'
  BY <1>1, <1>4, SamePrograms
<1>6. IInv'
  BY <1>1, NextKeepsInvariant
<1> QED BY <1>3, <1>5, <1>6

\* A result that fits is a measurement the bank manager loads.
LEMMA ResultIsLoaded ==
    ASSUME IInv, NEW r \in Requests, Fits(r),
           ins' = [ins EXCEPT ![r.place[1]][r.place[2]].delays = DelaysOf[r.ins.voice]],
           slots' = [slots EXCEPT ![CHOOSE s \in SlotsOf(r.place[1]) : TRUE].to_notify =
                        @ \cup {r.place[2]}],
           UNCHANGED <<slots_notify_flag, held>>
    PROVE  /\ LoadMeasurement(r.place[1], r.place[2], r.ins, DelaysOf[r.ins.voice], TRUE)
           /\ DelaysOf[r.ins.voice] \in Delays
<1>1. r.place[1] \in held /\ EqualExceptDelays(r.ins, ins[r.place[1]][r.place[2]])
  BY DEF Fits, Current
<1>2. PICK s \in Slots : SlotsOf(r.place[1]) = {s}
  BY <1>1, BankHasSlot DEF SlotsOf
<1>3. (CHOOSE t \in SlotsOf(r.place[1]) : TRUE) = s
  BY <1>2
<1>4. s <= s
  BY DEF Slots
<1>5. IsFirst(s, SlotsOf(r.place[1]))
  BY <1>2, <1>4 DEF IsFirst
<1>6. slots' = [slots EXCEPT ![s].to_notify = IF TRUE THEN @ \cup {r.place[2]} ELSE @]
  BY <1>3
<1>7. DelaysOf[r.ins.voice] \in Delays
  BY LoopAssumption DEF Requests, Instruments
<1> QED BY <1>1, <1>5, <1>6, <1>7 DEF LoadMeasurement

\* A result comes back: its program gets its delays, and to the others it is nothing.
LEMMA TakeResultKeeps ==
    ASSUME LoopIInv, TakeResult
    PROVE  LoopIInv'
<1> USE DEF LoopIInv
<1>1. /\ mq_from_worker # <<>> /\ mq_from_worker' = Tail(mq_from_worker)
      /\ mq_to_worker' = mq_to_worker /\ measure_requests' = measure_requests
  BY DEF TakeResult
<1>2. PICK first \in Requests, n \in Nat :
         /\ first = Head(mq_from_worker) /\ first = mq_from_worker[1] /\ n = Len(mq_from_worker)
         /\ n > 0 /\ Len(mq_from_worker') = n - 1 /\ mq_from_worker' \in Seq(Requests)
         /\ \A k \in 1 .. n - 1 : mq_from_worker'[k] = mq_from_worker[k + 1]
  BY <1>1, HeadTaken DEF LoopTypeOK
<1>3. ASSUME NEW place \in Places, LastRequestIsOf(place), ~IsOf(first, place),
             Current(place)' = Current(place)
      PROVE  LastRequestIsOf(place)'
  <2>1. /\ \A r : IsOf(r, place) => IsOf(r, place)'
        /\ \A k : IsOf(mq_from_worker'[k], place) => IsOf(mq_from_worker[k], place)'
        /\ \A k : IsOf(mq_to_worker[k], place) => IsOf(mq_to_worker[k], place)'
    BY <1>1, <1>3 DEF IsOf
  <2>2. ASSUME NEW k \in 1 .. n, IsOf(mq_from_worker[k], place)
        PROVE  LastRequestIsOf(place)'
    <3>1. k # 1
      BY <1>2, <1>3, <2>2
    <3>2. PICK m \in 1 .. n - 1 : k = m + 1
      BY <3>1
    <3>3. m \in 1 .. Len(mq_from_worker') /\ IsOf(mq_from_worker[m], place)'
      BY <1>2, <2>1, <2>2, <3>2
    <3> QED BY <3>3 DEF LastRequestIsOf
  <2>3. CASE \E k \in 1 .. Len(mq_to_worker) :
                /\ IsOf(mq_to_worker[k], place)
                /\ \A j \in k + 1 .. Len(mq_to_worker) : mq_to_worker[j].place # place
    BY <1>1, <2>1, <2>3 DEF LastRequestIsOf
  <2>4. CASE /\ \A j \in 1 .. Len(mq_to_worker) : mq_to_worker[j].place # place
             /\ \E r \in measure_requests : IsOf(r, place)
    BY <1>1, <2>1, <2>4 DEF LastRequestIsOf
  <2> QED BY <1>2, <1>3, <2>2, <2>3, <2>4 DEF LastRequestIsOf
<1>4. CASE Fits(first)
  <2>1. /\ ins' = [ins EXCEPT ![first.place[1]][first.place[2]].delays = DelaysOf[first.ins.voice]]
        /\ slots' = [slots EXCEPT ![CHOOSE s \in SlotsOf(first.place[1]) : TRUE].to_notify =
                        @ \cup {first.place[2]}]
        /\ lost' = lost \ {first.place}
        /\ UNCHANGED <<slots_notify_flag, held>>
    BY <1>2, <1>4 DEF TakeResult
  <2>2. PICK b \in BankIds, q \in Programs : first.place = <<b, q>>
    BY DEF Requests
  <2>3. IInv'
    <3>1. first.place[1] \in BankIds /\ first.place[2] \in Programs /\ first.ins \in Instruments
      BY <2>2 DEF Requests
    <3>2. /\ LoadMeasurement(first.place[1], first.place[2], first.ins,
                             DelaysOf[first.ins.voice], TRUE)
          /\ DelaysOf[first.ins.voice] \in Delays
      BY <1>4, <2>1, ResultIsLoaded
    <3> QED BY <3>1, <3>2, LoadMeasurementKeeps
  <2>4. LoopTypeOK'
    BY <1>1, <1>2, <2>1 DEF LoopTypeOK
  <2>5. \A place : ToBeMeasured(place) => ToBeMeasured(place)'
    <3>1. \A s \in Slots : slots'[s].id = slots[s].id /\ slots'[s].to_measure = slots[s].to_measure
      BY <2>1 DEF IInv, TypeOK, SlotRecords
    <3> QED BY <3>1 DEF ToBeMeasured, SlotsOf
  <2>6. ins \in [BankIds -> [Programs -> Instruments]]
    BY DEF IInv, TypeOK
  <2>7. ASSUME NEW place \in Places, place[1] \in held', place \notin lost'
        PROVE  DelaysFit(Current(place))' \/ ToBeMeasured(place)' \/ LastRequestIsOf(place)'
    <3>1. CASE place = <<b, q>>
      <4>1. EqualExceptDelays(first.ins, ins[b][q])
        BY <1>4, <2>2 DEF Fits, Current
      <4>2. ins[b][q] \in Instruments
        BY <2>6
      <4>3. ins'[b][q] = [ins[b][q] EXCEPT !.delays = DelaysOf[first.ins.voice]]
        BY <2>1, <2>2, <2>6
      <4>4. DelaysFit(ins'[b][q])
        BY <4>1, <4>2, <4>3 DEF DelaysFit, EqualExceptDelays, Instruments
      <4> QED BY <3>1, <4>4 DEF Current, DelaysFit
    <3>2. CASE place # <<b, q>>
      <4>1. place \in BankIds \X Programs
        BY LoopAssumption
      <4>2. Current(place)' = Current(place)
        BY <2>1, <2>2, <2>6, <3>2, <4>1 DEF Current
      <4>3. place[1] \in held /\ place \notin lost /\ ~IsOf(first, place)
        BY <2>1, <2>2, <2>7, <3>2 DEF IsOf
      <4>4. DelaysFit(Current(place)) \/ ToBeMeasured(place) \/ LastRequestIsOf(place)
        BY <4>3 DEF LoopInv
      <4>5. DelaysFit(Current(place)) => DelaysFit(Current(place))'
        BY <4>2 DEF DelaysFit
      <4> QED BY <1>3, <2>5, <4>2, <4>3, <4>4, <4>5
    <3> QED BY <3>1, <3>2
  <2> QED BY <2>3, <2>4, <2>7 DEF LoopInv
<1>5. CASE ~Fits(first)
  <2>1. UNCHANGED <<vars, lost>>
    BY <1>2, <1>5 DEF TakeResult
  <2>2. ASSUME NEW place \in Places, place[1] \in held, LastRequestIsOf(place)
        PROVE  LastRequestIsOf(place)'
    <3>1. ~IsOf(first, place)
      BY <1>5, <2>2 DEF IsOf, Fits
    <3>2. Current(place)' = Current(place)
      BY <2>1 DEF vars, Current
    <3> QED BY <1>3, <2>2, <3>1, <3>2
  <2>3. LoopInv'
    BY <2>1, <2>2, SamePrograms
  <2>4. LoopTypeOK'
    BY <1>1, <1>2, <2>1 DEF LoopTypeOK
  <2>5. IInv'
    BY <2>1, NextKeepsInvariant
  <2> QED BY <2>3, <2>4, <2>5
<1> QED BY <1>4, <1>5

-----------------------------------------------------------------------------
(* A player that is made again.                                            *)

\* The banks that have something come in slots of their own, and there are enough.
LEMMA KeptBanks ==
    ASSUME IInv, NEW kept \in InUseInOrder
    PROVE  \E n \in 0 .. NumSlots :
              /\ DOMAIN kept = 1 .. n /\ kept \in [1 .. n -> InUseSlots]
              /\ \A s \in InUseSlots : \E k \in 1 .. n : kept[k] = s
              /\ \A j, k \in 1 .. n : kept[j] = kept[k] => j = k
<1>1. IsFiniteSet(Slots) /\ Cardinality(Slots) = NumSlots
  BY FS_Interval, ConstantsAssumption DEF Slots
<1>2. InUseSlots \in SUBSET Slots
  BY DEF InUseSlots
<1>3. Cardinality(InUseSlots) \in 0 .. NumSlots
  <2>1. Cardinality(InUseSlots) \in Nat /\ Cardinality(InUseSlots) <= NumSlots
    BY <1>1, <1>2, FS_Subset, FS_CardinalityType
  <2> QED BY <2>1, ConstantsAssumption
<1>4. PICK n \in 0 .. NumSlots : n = Cardinality(InUseSlots)
  BY <1>3
<1>5. /\ kept \in [1 .. n -> InUseSlots] /\ DOMAIN kept = 1 .. n
      /\ InUseSlots = {kept[k] : k \in DOMAIN kept}
      /\ \A j, k \in DOMAIN kept : j < k => kept[j] < kept[k]
  BY <1>4 DEF InUseInOrder
<1>6. ASSUME NEW j \in 1 .. n, NEW k \in 1 .. n, kept[j] = kept[k] PROVE j = k
  <2>1. kept[j] \in Slots /\ kept[k] \in Slots
    BY <1>2, <1>5
  <2>2. kept[j] \in Nat /\ kept[k] \in Nat /\ j \in Nat /\ k \in Nat
    BY <2>1, ConstantsAssumption DEF Slots
  <2>3. ~(j < k)
    BY <1>5, <1>6, <2>2
  <2>4. ~(k < j)
    BY <1>5, <1>6, <2>2
  <2> QED BY <2>2, <2>3, <2>4
<1> QED BY <1>5, <1>6

\* A bank that has something is a bank the player holds.
LEMMA InUseIsHeld ==
    ASSUME IInv, NEW s \in InUseSlots
    PROVE  /\ s \in Slots /\ slots[s] \in SlotRecords
           /\ slots[s].id \in held /\ slots[s].id # NoBank
           /\ slots[s].used = NonBlank(ins[slots[s].id])
<1>1. s \in Slots /\ slots[s].used # {} /\ slots[s] \in SlotRecords
  BY DEF InUseSlots, IInv, TypeOK
<1>2. slots[s].id # NoBank
  BY <1>1 DEF IInv, EmptySlotHoldsNothing, EmptySlot
<1> QED BY <1>1, <1>2 DEF IInv, SlotsAreTheBanksHeld, UsedIsNotBlank

\* The banks are as right as they were.
LEMMA RemakeKeepsBanks ==
    ASSUME IInv, RemakePlayer
    PROVE  IInv'
<1>1. PICK kept \in InUseInOrder : slots' = Remade(kept)
  BY DEF RemakePlayer
<1>2. PICK n \in 0 .. NumSlots :
         /\ DOMAIN kept = 1 .. n /\ kept \in [1 .. n -> InUseSlots]
         /\ \A s \in InUseSlots : \E k \in 1 .. n : kept[k] = s
         /\ \A j, k \in 1 .. n : kept[j] = kept[k] => j = k
  BY KeptBanks
<1>3. /\ slots_notify_flag' = TRUE
      /\ held' = {slots[s].id : s \in InUseSlots}
      /\ ins' = [b \in BankIds |-> [p \in Programs |->
                    IF ins[b][p].blank THEN BlankInstrument ELSE ins[b][p]]]
  BY DEF RemakePlayer
<1>4. \A k \in 1 .. n : k \in Slots /\ kept[k] \in InUseSlots
  BY <1>2, ConstantsAssumption DEF Slots
<1>5. \A s \in Slots :
         slots'[s] = IF s \notin 1 .. n THEN EmptySlot
                     ELSE [slots[kept[s]] EXCEPT !.to_notify = slots[kept[s]].used,
                                                 !.to_measure = {}]
  BY <1>1, <1>2 DEF Remade
<1>6. \A s \in 1 .. n : /\ slots'[s] \in SlotRecords
                        /\ slots'[s].id = slots[kept[s]].id
                        /\ slots'[s].used = slots[kept[s]].used
  <2> SUFFICES ASSUME NEW s \in 1 .. n
               PROVE  /\ slots'[s] \in SlotRecords
                      /\ slots'[s].id = slots[kept[s]].id
                      /\ slots'[s].used = slots[kept[s]].used
    OBVIOUS
  <2>1. s \in Slots /\ slots[kept[s]] \in SlotRecords
    BY <1>4, InUseIsHeld
  <2>2. slots'[s] = [slots[kept[s]] EXCEPT !.to_notify = slots[kept[s]].used,
                                           !.to_measure = {}]
    BY <1>5, <2>1
  <2> QED BY <2>1, <2>2 DEF SlotRecords
<1>7. \A s \in Slots \ (1 .. n) : slots'[s] = EmptySlot /\ slots'[s].id = NoBank
  <2>1. EmptySlot.id = NoBank
    BY DEF EmptySlot
  <2> QED BY <1>5, <2>1
<1>8. ins \in [BankIds -> [Programs -> Instruments]] /\ held \in SUBSET BankIds
  BY DEF IInv, TypeOK
<1>9. TypeOK'
  <2>1. slots' = [s \in Slots |-> slots'[s]]
    BY <1>1 DEF Remade
  <2>2. \A s \in Slots : slots'[s] \in SlotRecords
    BY <1>6, <1>7, EmptySlotType
  <2>3. slots' \in [Slots -> SlotRecords]
    BY <2>1, <2>2
  <2>4. held' \in SUBSET BankIds
    BY <1>3, <1>8, InUseIsHeld
  <2>5. ins' \in [BankIds -> [Programs -> Instruments]]
    BY <1>3, <1>8, BlankType
  <2> QED BY <1>3, <2>3, <2>4, <2>5 DEF TypeOK
<1>10. SlotsAreTheBanksHeld'
  <2>1. \A s, t \in Slots : slots'[s].id = slots'[t].id /\ slots'[s].id # NoBank => s = t
    <3> SUFFICES ASSUME NEW s \in Slots, NEW t \in Slots, slots'[s].id = slots'[t].id,
                        slots'[s].id # NoBank
                 PROVE  s = t
      OBVIOUS
    <3>1. s \in 1 .. n /\ t \in 1 .. n
      BY <1>7
    <3>2. slots[kept[s]].id = slots[kept[t]].id /\ slots[kept[s]].id # NoBank
      BY <1>6, <3>1
    <3>3. kept[s] = kept[t]
      BY <1>4, <3>1, <3>2, InUseIsHeld DEF IInv, SlotsAreTheBanksHeld
    <3> QED BY <1>2, <3>1, <3>3
  <2>2. ASSUME NEW b \in held' PROVE b \in {slots'[s].id : s \in Slots} /\ b # NoBank
    <3>1. PICK s \in InUseSlots : slots[s].id = b
      BY <1>3, <2>2
    <3>2. PICK k \in 1 .. n : kept[k] = s
      BY <1>2
    <3> QED BY <1>4, <1>6, <3>1, <3>2, InUseIsHeld
  <2>3. ASSUME NEW s \in Slots, slots'[s].id # NoBank PROVE slots'[s].id \in held'
    <3>1. s \in 1 .. n
      BY <1>7, <2>3
    <3> QED BY <1>3, <1>4, <1>6, <3>1
  <2> QED BY <2>1, <2>2, <2>3 DEF SlotsAreTheBanksHeld
<1>11. \A b \in BankIds : NonBlank(ins[b]) = NonBlank(ins'[b])
  BY <1>3, BlankType DEF NonBlank
<1>12. UsedIsNotBlank'
  <2> SUFFICES ASSUME NEW s \in Slots, slots'[s].id # NoBank
               PROVE  slots'[s].used = NonBlank(ins'[slots'[s].id])
    BY DEF UsedIsNotBlank, NonBlank
  <2>1. s \in 1 .. n
    BY <1>7
  <2> QED BY <1>4, <1>6, <1>8, <1>11, <2>1, InUseIsHeld
<1>13. EmptySlotHoldsNothing'
  <2>1. \A s \in Slots : slots'[s].id = NoBank => slots'[s] = EmptySlot
    BY <1>4, <1>6, <1>7, InUseIsHeld
  <2> QED BY <2>1 DEF EmptySlotHoldsNothing, EmptySlot
<1>14. AbsentBankIsBlank'
  <2>1. ASSUME NEW b \in BankIds, b \notin held', NEW p \in Programs PROVE ins[b][p].blank
    <3>1. CASE b \in held
      <4>1. PICK s \in Slots : slots[s].id = b
        BY <3>1, BankHasSlot
      <4>2. slots[s].used = {}
        BY <1>3, <2>1, <4>1 DEF InUseSlots
      <4>3. NonBlank(ins[b]) = {}
        BY <3>1, <4>1, <4>2 DEF IInv, UsedIsNotBlank, SlotsAreTheBanksHeld
      <4> QED BY <4>3 DEF NonBlank
    <3>2. CASE b \notin held
      BY <3>2, BlankType DEF IInv, AbsentBankIsBlank
    <3> QED BY <3>1, <3>2
  <2>2. \A b \in BankIds \ held' : ins'[b] = [p \in Programs |-> BlankInstrument]
    BY <1>3, <2>1
  <2> QED BY <2>2 DEF AbsentBankIsBlank, BlankInstrument
<1> QED BY <1>9, <1>10, <1>12, <1>13, <1>14 DEF IInv

\* What nobody is asked for any more is said to be lost.
LEMMA RemakePlayerKeeps ==
    ASSUME LoopIInv, RemakePlayer
    PROVE  LoopIInv'
<1> USE DEF LoopIInv
<1>1. IInv'
  BY RemakeKeepsBanks
<1>2. LoopTypeOK'
  BY DEF RemakePlayer, Unmeasured, LoopTypeOK
<1>3. ASSUME NEW place \in Places, place \notin lost' PROVE DelaysFit(Current(place))'
  <2>1. PICK b \in BankIds, q \in Programs : place = <<b, q>>
    BY LoopAssumption
  <2>2. DelaysFit(ins[b][q])
    BY <1>3, <2>1 DEF RemakePlayer, Unmeasured, Current
  <2>3. ins'[b][q] = BlankInstrument \/ ins'[b][q] = ins[b][q]
    BY DEF RemakePlayer
  <2>4. DelaysFit(ins'[b][q])
    BY <2>2, <2>3, BlankType DEF DelaysFit
  <2> QED BY <2>1, <2>4 DEF DelaysFit, Current
<1>4. LoopInv'
  BY <1>3 DEF LoopInv
<1> QED BY <1>1, <1>2, <1>4

-----------------------------------------------------------------------------
\* What is needed of measurements holds at first and is kept.
LEMMA LoopInitInvariant == LoopInit => LoopIInv
<1> SUFFICES ASSUME LoopInit PROVE LoopIInv
  OBVIOUS
<1>1. IInv
  BY InitInvariant DEF LoopInit
<1>2. LoopTypeOK
  BY DEF LoopInit, LoopTypeOK, Unmeasured
<1>3. LoopInv
  BY DEF LoopInit, LoopInv, Unmeasured
<1> QED BY <1>1, <1>2, <1>3 DEF LoopIInv

\* Every step keeps what is measured, still to be asked for or on its way.
LEMMA LoopNextKeeps == LoopIInv /\ [LoopNext]_loop_vars => LoopIInv'
<1> SUFFICES ASSUME LoopIInv, [LoopNext]_loop_vars PROVE LoopIInv'
  OBVIOUS
<1>1. CASE \E place \in Places : LoadNew(place) \/ EditVoice(place) \/ Discard(place)
  BY <1>1, LoadNewKeeps, EditVoiceKeeps, DiscardKeeps
<1>2. CASE \E sent \in SUBSET ToMeasure : sent # {} /\ RequestMeasurements(sent)
  BY <1>2, RequestMeasurementsKeeps
<1>3. CASE TakeRequest
  BY <1>3, TakeRequestKeeps
<1>4. CASE \E r \in measure_requests : Measure(r)
  BY <1>4, MeasureKeeps
<1>5. CASE TakeResult
  BY <1>5, TakeResultKeeps
<1>6. CASE RemakePlayer
  BY <1>6, RemakePlayerKeeps
<1>7. CASE UNCHANGED loop_vars
  <2>1. IInv'
    BY <1>7, NextKeepsInvariant DEF loop_vars, vars, LoopIInv
  <2>2. LoopTypeOK'
    BY <1>7 DEF loop_vars, loopQueues, LoopTypeOK, LoopIInv
  <2>3. LoopInv'
    <3>1. UNCHANGED <<vars, lost>> /\ UNCHANGED loopQueues
      BY <1>7 DEF loop_vars, vars, loopQueues
    <3>2. \A place : Current(place)' = Current(place)
      BY <3>1 DEF vars, Current
    <3> QED BY <3>1, <3>2, LastRequestStays, SamePrograms DEF LoopIInv
  <2> QED BY <2>1, <2>2, <2>3 DEF LoopIInv
<1> QED BY <1>1, <1>2, <1>3, <1>4, <1>5, <1>6, <1>7 DEF LoopNext

\* So the invariant holds all along.
LEMMA LoopInvariance == LoopSpec => []LoopIInv
BY LoopInitInvariant, LoopNextKeeps, PTL DEF LoopSpec

\* Requests and results are of programs there can be, whatever way they go.
THEOREM LoopTypeCorrect == LoopSpec => []LoopTypeOK
<1>1. LoopIInv => LoopTypeOK
  BY DEF LoopIInv
<1>2. QED
  BY <1>1, LoopInvariance, PTL

\* Every program of every bank has the delays of its own voice or will be given
\* them, whatever was loaded, edited, deleted or evicted while requests and results
\* were on their way, however many can be.
THEOREM MeasurementsCorrect == LoopSpec => []MeasuredOrOnItsWay
<1>1. ASSUME LoopTypeOK, NEW place \in Places, LastRequestIsOf(place)
      PROVE  OnItsWay(place)
  <2>1. DOMAIN mq_to_worker = 1 .. Len(mq_to_worker)
        /\ DOMAIN mq_from_worker = 1 .. Len(mq_from_worker)
    BY <1>1 DEF LoopTypeOK
  <2>2. \E r \in InLoop : IsOf(r, place)
    BY <1>1, <2>1 DEF LastRequestIsOf, InLoop
  <2> QED BY <2>2 DEF OnItsWay
<1>2. LoopIInv => MeasuredOrOnItsWay
  <2> SUFFICES ASSUME LoopIInv, NEW place \in Places, place[1] \in held, place \notin lost
               PROVE  DelaysFit(Current(place)) \/ OnItsWay(place)
    BY DEF MeasuredOrOnItsWay
  <2>1. LoopTypeOK
    BY DEF LoopIInv
  <2>2. DelaysFit(Current(place)) \/ ToBeMeasured(place) \/ LastRequestIsOf(place)
    BY DEF LoopIInv, LoopInv
  <2>3. ToBeMeasured(place) => OnItsWay(place)
    BY DEF OnItsWay
  <2> QED BY <1>1, <2>1, <2>2, <2>3
<1>3. QED
  BY <1>2, LoopInvariance, PTL

-----------------------------------------------------------------------------
(* What notices do to an entry of the editor.                              *)

\* An instrument that is put into an entry changes nothing else of it.
LEMMA InstrumentPut ==
    ASSUME NEW e \in Entries, NEW h \in Halves, NEW p \in Programs, NEW x \in Instrumented
    PROVE  /\ WithInstrument(e, h, p, x) \in Entries
           /\ WithInstrument(e, h, p, x).name = e.name
           /\ WithInstrument(e, h, p, x).ins[h][p] = x
           /\ \A g \in Halves, q \in Programs :
                 ~(g = h /\ q = p) => WithInstrument(e, h, p, x).ins[g][q] = e.ins[g][q]
BY DEF WithInstrument, Entries

\* A program that is said to be blank or not is as it was otherwise.
LEMMA BlankOrNot ==
    ASSUME NEW x \in Instrumented, NEW blank \in BOOLEAN
    PROVE  /\ WithBlank(x, blank) \in Instrumented
           /\ WithBlank(x, blank).instrument.blank = blank
           /\ x.instrument.blank = blank => WithBlank(x, blank) = x
BY DEF Instrumented, Instruments, WithBlank

\* Half h of an entry is as the list has it.
HalfIsAs(e, h, old, listed) ==
    /\ e.name[h] = listed.name
    /\ \A p \in Programs : e.ins[h][p] = WithBlank(old[p], p \notin listed.used)

\* What a list of the banks says of one of them.
Listing == [used : SUBSET Programs, name : Names]

\* A half that is listed has the name and the programs of the list, and the other half
\* stays.
LEMMA HalfIsListed ==
    ASSUME NEW e \in Entries, NEW h \in Halves, NEW listed \in Listing
    PROVE  /\ HalfListed(e, h, listed) \in Entries
           /\ HalfIsAs(HalfListed(e, h, listed), h, e.ins[h], listed)
           /\ \A g \in Halves : g # h =>
                 /\ HalfListed(e, h, listed).name[g] = e.name[g]
                 /\ HalfListed(e, h, listed).ins[g] = e.ins[g]
<1> DEFINE half == [p \in Programs |-> WithBlank(e.ins[h][p], p \notin listed.used)]
<1>1. \A p \in Programs : e.ins[h][p] \in Instrumented
  BY DEF Entries
<1>2. half \in [Programs -> Instrumented]
  BY <1>1, BlankOrNot
<1>3. HalfListed(e, h, listed) = [e EXCEPT !.name[h] = listed.name, !.ins[h] = half]
  BY DEF HalfListed
<1>4. \A p \in Programs : half[p] = WithBlank(e.ins[h][p], p \notin listed.used)
  OBVIOUS
<1> HIDE DEF half
<1>5. listed.name \in Names
  BY DEF Listing
<1>6. PICK name \in [Halves -> Names], all \in [Halves -> [Programs -> Instrumented]] :
         e = [name |-> name, ins |-> all]
  BY DEF Entries
<1>7. HalfListed(e, h, listed) =
         [name |-> [name EXCEPT ![h] = listed.name], ins |-> [all EXCEPT ![h] = half]]
  BY <1>3, <1>6
<1>8. [name EXCEPT ![h] = listed.name] \in [Halves -> Names]
  BY <1>5
<1>9. [all EXCEPT ![h] = half] \in [Halves -> [Programs -> Instrumented]]
  BY <1>2
<1>10. HalfListed(e, h, listed) \in Entries
  BY <1>7, <1>8, <1>9 DEF Entries
<1>11. /\ HalfListed(e, h, listed).name = [name EXCEPT ![h] = listed.name]
       /\ HalfListed(e, h, listed).ins = [all EXCEPT ![h] = half]
  BY <1>7
<1>12. HalfIsAs(HalfListed(e, h, listed), h, e.ins[h], listed)
  <2>1. HalfListed(e, h, listed).name[h] = listed.name
    BY <1>11
  <2>2. HalfListed(e, h, listed).ins[h] = half
    BY <1>11
  <2> QED BY <1>4, <2>1, <2>2 DEF HalfIsAs
<1>13. \A g \in Halves : g # h =>
          /\ HalfListed(e, h, listed).name[g] = e.name[g]
          /\ HalfListed(e, h, listed).ins[g] = e.ins[g]
  BY <1>6, <1>11
<1> QED BY <1>10, <1>12, <1>13

\* A new entry is empty.
LEMMA EmptyBankType ==
    /\ EmptyBank \in Entries
    /\ \A h \in Halves, p \in Programs : EmptyBank.ins[h][p].instrument.blank
<1>1. [instrument |-> BlankInstrument, name |-> NoName] \in Instrumented
  BY BlankType, ConstantsAssumption DEF Instrumented
<1>2. \A h \in Halves, p \in Programs :
         EmptyBank.ins[h][p] = [instrument |-> BlankInstrument, name |-> NoName]
  BY DEF EmptyBank
<1>3. EmptyBank \in Entries
  BY <1>1, ConstantsAssumption DEF EmptyBank, Entries
<1> QED BY <1>2, <1>3, BlankType

\* What the editor has of an entry is an entry, if it is an empty one.
LEMMA EntryType == ASSUME MirrorTypeOK, NEW psid PROVE Entry(psid) \in Entries
BY EmptyBankType DEF MirrorTypeOK, Entry

\* A list is of banks there can be.
LEMMA ListType ==
    ASSUME NEW entries \in BankLists
    PROVE  DOMAIN entries \subseteq BankIds /\ \A b \in DOMAIN entries : entries[b] \in Listing
<1>1. PICK B \in SUBSET BankIds : entries \in [B -> Listing]
  BY DEF BankLists, Listing
<1> QED BY <1>1

\* A half of an entry is of one bank.
LEMMA OneBankIsHalf ==
    ASSUME NEW b \in BankIds, NEW c \in BankIds, PseudoId[b] = PseudoId[c], Half(b) = Half(c)
    PROVE  b = c
<1>1. b \in Percussive <=> c \in Percussive
  BY DEF Half
<1> QED BY <1>1, MirrorAssumption

\* Half h of an entry after the list, and the other half.
LEMMA HalfIsAfterList ==
    ASSUME NEW e \in Entries, NEW psid, NEW h \in Halves, NEW entries \in BankLists
    PROVE  /\ HalfAfter(e, psid, h, entries) \in Entries
           /\ \A g \in Halves : g # h =>
                 /\ HalfAfter(e, psid, h, entries).name[g] = e.name[g]
                 /\ HalfAfter(e, psid, h, entries).ins[g] = e.ins[g]
           /\ \A b \in DOMAIN entries :
                 IsHalf(b, psid, h)
                    => HalfIsAs(HalfAfter(e, psid, h, entries), h, e.ins[h], entries[b])
<1>1. CASE \E b \in DOMAIN entries : IsHalf(b, psid, h)
  <2>1. PICK c \in DOMAIN entries : c = CHOOSE b \in DOMAIN entries : IsHalf(b, psid, h)
    BY <1>1
  <2>2. IsHalf(c, psid, h)
    BY <1>1, <2>1
  <2>3. \A b \in DOMAIN entries : IsHalf(b, psid, h) => b = c
    BY <2>2, ListType, OneBankIsHalf DEF IsHalf
  <2>4. PICK l \in Listing : l = entries[c]
    BY ListType
  <2>5. HalfAfter(e, psid, h, entries) = HalfListed(e, h, l)
    BY <1>1, <2>1, <2>4 DEF HalfAfter
  <2> QED BY <2>3, <2>4, <2>5, HalfIsListed
<1>2. CASE ~\E b \in DOMAIN entries : IsHalf(b, psid, h)
  BY <1>2 DEF HalfAfter
<1> QED BY <1>1, <1>2

\* Of both halves, one after the other.
LEMMA BothHalvesAfterList ==
    ASSUME NEW e \in Entries, NEW f \in Entries, NEW psid, NEW entries \in BankLists,
           NEW first \in Halves, NEW second \in Halves, first # second,
           f = HalfAfter(e, psid, first, entries),
           NEW b \in DOMAIN entries, NEW h \in Halves, IsHalf(b, psid, h),
           h = first \/ h = second
    PROVE  HalfIsAs(HalfAfter(f, psid, second, entries), h, e.ins[h], entries[b])
<1>1. CASE h = first
  <2>1. h # second
    BY <1>1
  <2>2. /\ HalfAfter(f, psid, second, entries).ins[h] = f.ins[h]
        /\ HalfAfter(f, psid, second, entries).name[h] = f.name[h]
    BY <2>1, HalfIsAfterList
  <2>3. HalfIsAs(f, h, e.ins[h], entries[b])
    BY <1>1, HalfIsAfterList
  <2> QED BY <2>2, <2>3 DEF HalfIsAs
<1>2. CASE h = second
  <2>1. f.ins[h] = e.ins[h]
    BY <1>2, HalfIsAfterList
  <2>2. HalfIsAs(HalfAfter(f, psid, second, entries), h, f.ins[h], entries[b])
    BY <1>2, HalfIsAfterList
  <2> QED BY <2>1, <2>2
<1> QED BY <1>1, <1>2

\* An entry after the list: the banks of the list have its names and its programs.
LEMMA EntryAfterList ==
    ASSUME MirrorTypeOK, NEW psid, NEW entries \in BankLists
    PROVE  /\ Listed(psid, entries) \in Entries
           /\ \A b \in DOMAIN entries :
                 PseudoId[b] = psid
                    => HalfIsAs(Listed(psid, entries), Half(b), Entry(psid).ins[Half(b)],
                                entries[b])
<1>1. PICK e \in Entries : e = Entry(psid)
  BY EntryType
<1>2. PICK first \in Halves, second \in Halves :
         /\ first # second /\ first = "melodic" /\ second = "percussive"
         /\ Halves = {first, second}
  BY DEF Halves
<1>3. PICK f \in Entries : f = HalfAfter(e, psid, first, entries)
  BY HalfIsAfterList
<1>4. HalfAfter(f, psid, second, entries) \in Entries
  BY HalfIsAfterList
<1>5. Listed(psid, entries) = HalfAfter(f, psid, second, entries)
  BY <1>1, <1>2, <1>3 DEF Listed
<1>6. ASSUME NEW b \in DOMAIN entries, PseudoId[b] = psid
      PROVE  HalfIsAs(HalfAfter(f, psid, second, entries), Half(b), e.ins[Half(b)], entries[b])
  <2>1. PICK h \in Halves : h = Half(b) /\ (h = first \/ h = second)
    BY <1>2 DEF Half
  <2>2. IsHalf(b, psid, h)
    BY <1>6, <2>1 DEF IsHalf
  <2> QED BY <1>2, <1>3, <2>1, <2>2, BothHalvesAfterList
<1> QED BY <1>1, <1>4, <1>5, <1>6

-----------------------------------------------------------------------------
(* The list of the banks in use, and what a change of the banks leaves of  *)
(* it and of the programs in it.                                           *)

\* The list has every bank in use once, with its programs and its name.
LEMMA ListHasBanksInUse ==
    ASSUME IInv
    PROVE  /\ ListNow \in BankLists /\ SlotsNotice \in Notices
           /\ SlotsNotice.kind = "slots" /\ SlotsNotice.entries = ListNow
           /\ DOMAIN ListNow = BanksInUse /\ BanksInUse \subseteq BankIds
           /\ \A s \in UsedSlots : /\ slots[s].id \in DOMAIN ListNow
                                   /\ ListNow[slots[s].id].used = slots[s].used
                                   /\ ListNow[slots[s].id].name = slots[s].bank_name
           /\ \A b \in DOMAIN ListNow : ListNow[b].used # {} /\ ListNow[b].used \subseteq Programs
<1>1. \A s \in UsedSlots : /\ s \in Slots /\ slots[s] \in SlotRecords /\ slots[s].id \in BankIds
                           /\ SlotOf(slots[s].id) = s /\ slots[s].used # {}
  <2> SUFFICES ASSUME NEW s \in UsedSlots
               PROVE  /\ s \in Slots /\ slots[s] \in SlotRecords /\ slots[s].id \in BankIds
                      /\ SlotOf(slots[s].id) = s /\ slots[s].used # {}
    OBVIOUS
  <2>1. s \in Slots /\ slots[s] \in SlotRecords /\ slots[s].id # NoBank /\ slots[s].used # {}
    BY DEF UsedSlots, IInv, TypeOK
  <2>2. \A t \in Slots : slots[t].id = slots[s].id => t = s
    BY <2>1 DEF IInv, SlotsAreTheBanksHeld
  <2>3. SlotOf(slots[s].id) = s
    BY <2>1, <2>2 DEF SlotOf
  <2> QED BY <2>1, <2>3 DEF SlotRecords
<1>2. ListNow = [b \in BanksInUse |->
                    [used |-> slots[SlotOf(b)].used, name |-> slots[SlotOf(b)].bank_name]]
  BY DEF ListNow, SlotsNotice
<1>3. DOMAIN ListNow = BanksInUse /\ BanksInUse \subseteq BankIds
  BY <1>1, <1>2 DEF BanksInUse
<1>4. \A s \in UsedSlots : /\ slots[s].id \in DOMAIN ListNow
                           /\ ListNow[slots[s].id].used = slots[s].used
                           /\ ListNow[slots[s].id].name = slots[s].bank_name
  BY <1>1, <1>2, <1>3 DEF BanksInUse
<1>5. \A b \in BanksInUse : \E s \in UsedSlots : b = slots[s].id
  BY DEF BanksInUse
<1>6. \A b \in BanksInUse :
         [used |-> slots[SlotOf(b)].used, name |-> slots[SlotOf(b)].bank_name] \in Listing
  BY <1>1, <1>5 DEF SlotRecords, Listing
<1>7. ListNow \in BankLists
  <2>1. ListNow \in [BanksInUse -> Listing]
    BY <1>2, <1>6
  <2> QED BY <1>3, <2>1 DEF BankLists, Listing
<1>8. SlotsNotice \in Notices /\ SlotsNotice.kind = "slots" /\ SlotsNotice.entries = ListNow
  <2>1. SlotsNotice = [kind |-> "slots", entries |-> ListNow]
    BY <1>2 DEF SlotsNotice
  <2> QED BY <1>7, <2>1 DEF Notices
<1>9. \A b \in DOMAIN ListNow : ListNow[b].used # {} /\ ListNow[b].used \subseteq Programs
  BY <1>1, <1>3, <1>4, <1>5 DEF SlotRecords
<1> QED BY <1>3, <1>4, <1>7, <1>8, <1>9

\* Every slot is listed as it was, or was not listed and is not.
ListKept ==
    \A s \in Slots :
        \/ s \notin UsedSlots /\ s \notin UsedSlots'
        \/ /\ slots'[s].id = slots[s].id /\ slots'[s].used = slots[s].used
           /\ slots'[s].bank_name = slots[s].bank_name

\* The list is the same as long as the used slots keep their banks, programs and names.
LEMMA SameList ==
    ASSUME IInv, IInv', ListKept
    PROVE  SlotsNotice' = SlotsNotice /\ ListNow' = ListNow
<1>1. UsedSlots' = UsedSlots
  BY DEF ListKept, UsedSlots
<1>2. \A s \in UsedSlots : /\ s \in Slots /\ slots'[s].id = slots[s].id
                           /\ slots'[s].used = slots[s].used
                           /\ slots'[s].bank_name = slots[s].bank_name
  BY <1>1 DEF ListKept, UsedSlots
<1>3. BanksInUse' = BanksInUse
  BY <1>1, <1>2 DEF BanksInUse
<1>4. \A b \in BanksInUse :
         /\ slots'[SlotOf(b)'].used = slots[SlotOf(b)].used
         /\ slots'[SlotOf(b)'].bank_name = slots[SlotOf(b)].bank_name
  <2> SUFFICES ASSUME NEW b \in BanksInUse
               PROVE  /\ slots'[SlotOf(b)'].used = slots[SlotOf(b)].used
                      /\ slots'[SlotOf(b)'].bank_name = slots[SlotOf(b)].bank_name
    OBVIOUS
  <2>1. PICK s \in UsedSlots : slots[s].id = b
    BY DEF BanksInUse
  <2>2. b # NoBank /\ s \in Slots
    BY <2>1 DEF UsedSlots
  <2>3. \A t \in Slots : slots[t].id = b => t = s
    BY <2>1, <2>2 DEF IInv, SlotsAreTheBanksHeld
  <2>4. \A t \in Slots : slots'[t].id = b => t = s
    BY <1>2, <2>1, <2>2 DEF IInv, SlotsAreTheBanksHeld
  <2>5. SlotOf(b) = s
    BY <2>1, <2>2, <2>3 DEF SlotOf
  <2>6. SlotOf(b)' = s
    BY <1>2, <2>1, <2>2, <2>4 DEF SlotOf
  <2> QED BY <1>2, <2>5, <2>6
<1> QED BY <1>3, <1>4 DEF SlotsNotice, ListNow

\* The programs that were told, or are on their way, are those they were.
ProgramsKept ==
    \A s \in Slots, p \in Programs :
        NotToBeSent(s, p)' =>
            NotToBeSent(s, p) /\ InstrumentNotice(s, p)' = InstrumentNotice(s, p)

\* What has to be told of a change of the banks for the editor to follow it.
ChangeIsTold ==
    /\ slots_notify_flag' \/ (ListKept /\ slots_notify_flag' = slots_notify_flag)
    /\ ProgramsKept

\* What has to be shown for the programs to be told, one at a time.
LEMMA EachProgramIsTold ==
    ASSUME \A s \in Slots, p \in Programs : \A b, m :
              ~silent' /\ NotToBeSent(s, p)' /\ b = slots'[s].id /\ m = InstrumentNotice(s, p)'
                 => ProgramIsTold(b, p, m)'
    PROVE  ProgramsAreTold'
<1> SUFFICES ASSUME ~silent', NEW s \in Slots, NEW p \in Programs, NotToBeSent(s, p)'
             PROVE  ProgramIsTold(slots[s].id, p, InstrumentNotice(s, p))'
  BY DEF ProgramsAreTold
<1>1. PICK b, m : b = slots'[s].id /\ m = InstrumentNotice(s, p)'
  OBVIOUS
<1>2. ProgramIsTold(b, p, m)'
  BY <1>1
<1>3. CASE \E k \in 1 .. Len(mq_to_ui') :
              /\ mq_to_ui'[k] = m
              /\ \A j \in k + 1 .. Len(mq_to_ui') : Leaves(mq_to_ui'[j], b, p)
  BY <1>1, <1>3 DEF ProgramIsTold, Leaves
<1>4. CASE /\ MapShows(b, p, m)'
           /\ \A j \in 1 .. Len(mq_to_ui') : Leaves(mq_to_ui'[j], b, p)
  BY <1>1, <1>4 DEF ProgramIsTold, Leaves, MapShows
<1> QED BY <1>2, <1>3, <1>4 DEF ProgramIsTold, Leaves

\* A change of the banks that is told leaves the rest to the notices to come.
LEMMA ToldChangeKeeps ==
    ASSUME MirrorIInv, IInv', ChangeIsTold, UNCHANGED <<mq_to_ui, instrument_map, silent>>
    PROVE  MirrorIInv'
<1> USE DEF MirrorIInv
<1>1. MirrorTypeOK'
  BY DEF MirrorTypeOK
<1>2. ListIsTold'
  <2>1. CASE slots_notify_flag'
    BY <2>1 DEF ListIsTold
  <2>2. CASE ListKept /\ slots_notify_flag' = slots_notify_flag
    <3>1. SlotsNotice' = SlotsNotice /\ ListNow' = ListNow
      BY <2>2, SameList
    <3>2. MapLists(ListNow)' <=> MapLists(ListNow)
      BY <3>1 DEF MapLists
    <3>3. \A j : AgreesWith(mq_to_ui[j], ListNow)' <=> AgreesWith(mq_to_ui[j], ListNow)
      BY <3>1 DEF AgreesWith
    <3> QED BY <2>2, <3>1, <3>2, <3>3 DEF ListIsTold
  <2> QED BY <2>1, <2>2 DEF ChangeIsTold
<1>3. ProgramsAreTold'
  <2>1. ASSUME NEW b, NEW p, NEW m, ProgramIsTold(b, p, m) PROVE ProgramIsTold(b, p, m)'
    <3>1. MapShows(b, p, m)' <=> MapShows(b, p, m)
      BY DEF MapShows
    <3>2. \A j : Leaves(mq_to_ui[j], b, p)' <=> Leaves(mq_to_ui[j], b, p)
      BY DEF Leaves
    <3> QED BY <2>1, <3>1, <3>2 DEF ProgramIsTold
  <2>2. ASSUME ~silent', NEW s \in Slots, NEW p \in Programs, NotToBeSent(s, p)',
               NEW b, NEW m, b = slots'[s].id, m = InstrumentNotice(s, p)'
        PROVE  ProgramIsTold(b, p, m)'
    <3>1. NotToBeSent(s, p) /\ InstrumentNotice(s, p)' = InstrumentNotice(s, p)
      BY <2>2 DEF ChangeIsTold, ProgramsKept
    <3>2. slots'[s].id = slots[s].id
      BY <3>1 DEF InstrumentNotice
    <3>3. ProgramIsTold(slots[s].id, p, InstrumentNotice(s, p))
      BY <2>2, <3>1 DEF ProgramsAreTold
    <3>4. ProgramIsTold(b, p, m)
      BY <2>2, <3>1, <3>2, <3>3
    <3> QED BY <2>1, <3>4
  <2> QED BY <2>2, EachProgramIsTold
<1> QED BY <1>1, <1>2, <1>3

-----------------------------------------------------------------------------
(* Every change of the banks that asks to be told is told.                 *)

\* What a slot records of a program it is told of.
LEMMA RecordedIsTold ==
    ASSUME NEW info \in SlotRecords, NEW p \in Programs, NEW i, NEW name, NEW flags,
           "Notify" \in flags
    PROVE  /\ Recorded(info, p, i, name, flags).id = info.id
           /\ Recorded(info, p, i, name, flags).bank_name = info.bank_name
           /\ p \in Recorded(info, p, i, name, flags).to_notify
           /\ Recorded(info, p, i, name, flags).used \subseteq info.used \cup {p}
           /\ \A q \in Programs \ {p} :
                 /\ q \in Recorded(info, p, i, name, flags).used => q \in info.used
                 /\ q \in info.to_notify => q \in Recorded(info, p, i, name, flags).to_notify
                 /\ Recorded(info, p, i, name, flags).ins_names[q] = info.ins_names[q]
BY DEF Recorded, With, SlotRecords

\* A program that is loaded into a bank that is there.
LEMMA LoadExistingIsTold ==
    ASSUME IInv, NEW s \in Slots, NEW id \in BankIds, NEW p \in Programs,
           NEW i \in Instruments, NEW name, NEW flags, "Notify" \in flags,
           LoadIntoExistingBank(s, id, p, i, name, flags)
    PROVE  ChangeIsTold
<1>1. slots \in [Slots -> SlotRecords] /\ ins \in [BankIds -> [Programs -> Instruments]]
      /\ slots_notify_flag \in BOOLEAN
  BY DEF IInv, TypeOK
<1>2. PICK info : info = Recorded(slots[s], p, i, name, flags)
  OBVIOUS
<1>3. /\ slots[s].id = id /\ slots' = [slots EXCEPT ![s] = info]
      /\ slots_notify_flag' = (slots_notify_flag \/ info.used # slots[s].used)
      /\ ins' = [ins EXCEPT ![id][p] = i]
  BY <1>2 DEF LoadIntoExistingBank, IsFirst, SlotsOf, FlagIfCountChanged
<1>4. /\ info.id = slots[s].id /\ info.bank_name = slots[s].bank_name
      /\ p \in info.to_notify
      /\ \A q \in Programs \ {p} : /\ q \in info.used => q \in slots[s].used
                                   /\ q \in slots[s].to_notify => q \in info.to_notify
                                   /\ info.ins_names[q] = slots[s].ins_names[q]
  BY <1>1, <1>2, RecordedIsTold
<1>5. slots'[s] = info /\ \A t \in Slots \ {s} : slots'[t] = slots[t]
  BY <1>1, <1>3
<1>6. slots_notify_flag' \/ (ListKept /\ slots_notify_flag' = slots_notify_flag)
  <2>1. CASE info.used # slots[s].used
    BY <1>3, <2>1
  <2>2. CASE info.used = slots[s].used
    BY <1>1, <1>3, <1>4, <1>5, <2>2 DEF ListKept
  <2> QED BY <2>1, <2>2
<1>7. ASSUME NEW t \in Slots, NEW q \in Programs, NotToBeSent(t, q)'
      PROVE  NotToBeSent(t, q) /\ InstrumentNotice(t, q)' = InstrumentNotice(t, q)
  <2>1. CASE t # s
    <3>1. slots'[t] = slots[t] /\ slots[t].id # NoBank
      BY <1>5, <1>7, <2>1 DEF NotToBeSent
    <3>2. slots[t].id # id
      BY <1>3, <2>1, <3>1 DEF IInv, SlotsAreTheBanksHeld
    <3>3. ins'[slots[t].id] = ins[slots[t].id]
      BY <1>1, <1>3, <3>1, <3>2 DEF SlotRecords
    <3> QED BY <1>7, <3>1, <3>3 DEF NotToBeSent, InstrumentNotice
  <2>2. CASE t = s
    <3>1. q # p /\ q \in Programs \ {p}
      BY <1>4, <1>5, <1>7, <2>2 DEF NotToBeSent
    <3>2. NotToBeSent(t, q)
      BY <1>4, <1>5, <1>7, <2>2, <3>1 DEF NotToBeSent
    <3>3. ins'[id][q] = ins[id][q]
      BY <1>1, <1>3, <3>1
    <3> QED BY <1>3, <1>4, <1>5, <2>2, <3>1, <3>2, <3>3 DEF InstrumentNotice
  <2> QED BY <2>1, <2>2
<1> QED BY <1>6, <1>7 DEF ChangeIsTold, ProgramsKept

\* A program that is loaded into a bank that is created for it.
LEMMA LoadEmptyIsTold ==
    ASSUME IInv, NEW s \in Slots, NEW id \in BankIds, NEW p \in Programs,
           NEW i \in Instruments, NEW name, NEW flags, "Notify" \in flags, NEW answer,
           LoadIntoEmptySlot(s, id, p, i, name, flags, answer)
    PROVE  ChangeIsTold
<1>1. slots \in [Slots -> SlotRecords] /\ slots_notify_flag \in BOOLEAN
  BY DEF IInv, TypeOK
<1>2. EmptySlot \in SlotRecords /\ EmptySlot.used = {}
  BY EmptySlotType DEF EmptySlot
<1>3. PICK info \in SlotRecords : info = [EmptySlot EXCEPT !.id = id] /\ info.used = {}
  <2>1. [EmptySlot EXCEPT !.id = id] \in SlotRecords
    BY <1>2 DEF SlotRecords
  <2>2. [EmptySlot EXCEPT !.id = id].used = {}
    BY <1>2 DEF SlotRecords
  <2> QED BY <2>1, <2>2
<1>4. PICK new : new = Recorded(info, p, i, name, flags)
  OBVIOUS
<1>5. new.used \subseteq {p} /\ p \in new.to_notify
  BY <1>3, <1>4, RecordedIsTold
<1>6. /\ SlotsOf(id) = {} /\ s \in EmptySlots
      /\ \/ /\ slots' = [slots EXCEPT ![s] = EmptySlot] \/ slots' = [slots EXCEPT ![s] = info]
            /\ ins' = InsWithout(s) /\ slots_notify_flag' = slots_notify_flag
         \/ /\ slots' = [slots EXCEPT ![s] = new] /\ ins' = [InsWithout(s) EXCEPT ![id][p] = i]
            /\ slots_notify_flag' = (slots_notify_flag \/ new.used # {})
  BY <1>3, <1>4 DEF LoadIntoEmptySlot, IsFirst, FlagIfCountChanged
<1>7. s \notin UsedSlots /\ \A t \in Slots : slots[t].id # id
  BY <1>6 DEF EmptySlots, UsedSlots, SlotsOf
<1>8. /\ \A t \in Slots \ {s} : slots'[t] = slots[t]
      /\ slots'[s].used # {} => slots'[s] = new /\ slots_notify_flag'
  BY <1>1, <1>2, <1>3, <1>6
<1>9. slots_notify_flag' \/ (ListKept /\ slots_notify_flag' = slots_notify_flag)
  <2>1. CASE slots'[s].used # {}
    BY <1>8, <2>1
  <2>2. CASE slots'[s].used = {}
    <3>1. s \notin UsedSlots'
      BY <2>2 DEF UsedSlots
    <3>2. ListKept
      BY <1>7, <1>8, <3>1 DEF ListKept
    <3>3. slots_notify_flag' \/ slots_notify_flag' = slots_notify_flag
      BY <1>1, <1>6
    <3> QED BY <3>2, <3>3
  <2> QED BY <2>1, <2>2
<1>10. ASSUME NEW t \in Slots, NEW q \in Programs, NotToBeSent(t, q)'
       PROVE  NotToBeSent(t, q) /\ InstrumentNotice(t, q)' = InstrumentNotice(t, q)
  <2>1. t # s
    BY <1>5, <1>8, <1>10 DEF NotToBeSent
  <2>2. slots'[t] = slots[t] /\ slots[t].id # NoBank /\ slots[t].id # id
    BY <1>7, <1>8, <1>10, <2>1 DEF NotToBeSent
  <2>3. slots[t].id \in BankIds /\ slots[t].id # slots[s].id
    BY <1>1, <2>1, <2>2 DEF IInv, SlotsAreTheBanksHeld, SlotRecords
  <2>4. /\ InsWithout(s) \in [BankIds -> [Programs -> Instruments]]
        /\ InsWithout(s)[slots[t].id] = ins[slots[t].id]
    BY <2>3, EmptiedSlot
  <2>5. ins'[slots[t].id] = ins[slots[t].id]
    BY <1>6, <2>2, <2>3, <2>4
  <2> QED BY <1>10, <2>2, <2>5 DEF NotToBeSent, InstrumentNotice
<1> QED BY <1>9, <1>10 DEF ChangeIsTold, ProgramsKept

\* A program or banks are deleted.
LEMMA DeleteIsTold ==
    ASSUME IInv, NEW id \in BankIds, NEW p \in Programs,
           DeleteProgram(id, p, TRUE) \/ DeleteBank(id, TRUE) \/ ClearBanks(TRUE)
    PROVE  ChangeIsTold
<1>1. slots \in [Slots -> SlotRecords] /\ ins \in [BankIds -> [Programs -> Instruments]]
  BY DEF IInv, TypeOK
<1>2. EmptySlot.used = {}
  BY DEF EmptySlot
<1>3. slots_notify_flag'
  BY DEF DeleteProgram, DeleteBank, ClearBanks
<1>4. ASSUME NEW t \in Slots, NEW q \in Programs, NotToBeSent(t, q)'
      PROVE  NotToBeSent(t, q) /\ InstrumentNotice(t, q)' = InstrumentNotice(t, q)
  <2>1. CASE DeleteProgram(id, p, TRUE)
    <3>1. PICK s \in Slots :
             /\ slots[s].id = id /\ ins' = [ins EXCEPT ![id][p].blank = TRUE]
             /\ slots' = [slots EXCEPT ![s].used = @ \ {p}]
      BY <2>1 DEF DeleteProgram, IsFirst, SlotsOf
    <3>2. /\ slots'[t].id = slots[t].id /\ slots'[t].ins_names = slots[t].ins_names
          /\ slots'[t].to_notify = slots[t].to_notify
          /\ slots'[t].used = IF t = s THEN slots[t].used \ {p} ELSE slots[t].used
      BY <1>1, <3>1 DEF SlotRecords
    <3>3. NotToBeSent(t, q) /\ slots[t].id # NoBank
      BY <1>4, <3>2 DEF NotToBeSent
    <3>4. ~(slots[t].id = id /\ q = p)
      BY <1>4, <3>1, <3>2, <3>3 DEF NotToBeSent, IInv, SlotsAreTheBanksHeld
    <3>5. slots[t].id \in BankIds
      BY <1>1, <3>3 DEF SlotRecords
    <3>6. ins'[slots[t].id][q] = ins[slots[t].id][q]
      BY <1>1, <3>1, <3>4, <3>5
    <3> QED BY <3>2, <3>3, <3>6 DEF InstrumentNotice
  <2>2. CASE DeleteBank(id, TRUE)
    <3>1. PICK s \in Slots : slots' = [slots EXCEPT ![s] = EmptySlot] /\ ins' = InsWithout(s)
      BY <2>2 DEF DeleteBank
    <3>2. t # s
      BY <1>1, <1>2, <1>4, <3>1 DEF NotToBeSent
    <3>3. slots'[t] = slots[t] /\ slots[t].id # NoBank
      BY <1>1, <1>4, <3>1, <3>2 DEF NotToBeSent
    <3>4. slots[t].id \in BankIds /\ slots[t].id # slots[s].id
      BY <1>1, <3>2, <3>3 DEF IInv, SlotsAreTheBanksHeld, SlotRecords
    <3>5. ins'[slots[t].id] = ins[slots[t].id]
      BY <3>1, <3>4, EmptiedSlot
    <3> QED BY <1>4, <3>3, <3>5 DEF NotToBeSent, InstrumentNotice
  <2>3. CASE ClearBanks(TRUE)
    BY <1>2, <1>4, <2>3 DEF ClearBanks, NotToBeSent
  <2> QED BY <2>1, <2>2, <2>3
<1> QED BY <1>3, <1>4 DEF ChangeIsTold, ProgramsKept

\* A bank or a program is renamed, or measured.
LEMMA RenameBankIsTold ==
    ASSUME IInv, NEW id, NEW name, RenameBank(id, name, TRUE)
    PROVE  ChangeIsTold
<1>1. PICK s \in Slots : slots' = [slots EXCEPT ![s].bank_name = name]
  BY DEF RenameBank
<1>2. slots_notify_flag' /\ ins' = ins
  BY DEF RenameBank
<1>3. \A t \in Slots : /\ slots'[t].id = slots[t].id /\ slots'[t].used = slots[t].used
                       /\ slots'[t].to_notify = slots[t].to_notify
                       /\ slots'[t].ins_names = slots[t].ins_names
  BY <1>1 DEF IInv, TypeOK, SlotRecords
<1>4. ProgramsKept
  BY <1>2, <1>3 DEF ProgramsKept, NotToBeSent, InstrumentNotice
<1> QED BY <1>2, <1>4 DEF ChangeIsTold

\* A program with another name.
LEMMA RenameProgramIsTold ==
    ASSUME IInv, NEW id, NEW p \in Programs, NEW name, RenameProgram(id, p, name, TRUE)
    PROVE  ChangeIsTold
<1>1. PICK s \in Slots :
         slots' = [slots EXCEPT ![s].ins_names[p] = name,
                                ![s].to_notify = IF TRUE THEN @ \cup {p} ELSE @]
  BY DEF RenameProgram
<1>2. slots_notify_flag' = slots_notify_flag /\ ins' = ins
  BY DEF RenameProgram
<1>3. \A t \in Slots : /\ slots'[t].id = slots[t].id /\ slots'[t].used = slots[t].used
                       /\ slots'[t].bank_name = slots[t].bank_name
                       /\ slots[t].to_notify \subseteq slots'[t].to_notify
                       /\ \A q \in Programs \ {p} :
                             slots'[t].ins_names[q] = slots[t].ins_names[q]
                       /\ t # s => slots'[t].ins_names = slots[t].ins_names
                       /\ t = s => p \in slots'[t].to_notify
  BY <1>1 DEF IInv, TypeOK, SlotRecords
<1>4. ListKept
  BY <1>3 DEF ListKept
<1>5. ASSUME NEW t \in Slots, NEW q \in Programs, NotToBeSent(t, q)'
      PROVE  NotToBeSent(t, q) /\ InstrumentNotice(t, q)' = InstrumentNotice(t, q)
  <2>1. NotToBeSent(t, q) /\ ~(t = s /\ q = p)
    BY <1>3, <1>5 DEF NotToBeSent
  <2>2. slots'[t].ins_names[q] = slots[t].ins_names[q] /\ slots'[t].id = slots[t].id
    BY <1>3, <2>1
  <2> QED BY <1>2, <2>1, <2>2 DEF InstrumentNotice
<1> QED BY <1>2, <1>4, <1>5 DEF ChangeIsTold, ProgramsKept

\* A program with the delays that were measured.
LEMMA MeasurementIsTold ==
    ASSUME IInv, NEW id \in BankIds, NEW p \in Programs, NEW i, NEW d,
           LoadMeasurement(id, p, i, d, TRUE)
    PROVE  ChangeIsTold
<1>1. PICK s \in Slots :
         /\ slots[s].id = id
         /\ slots' = [slots EXCEPT ![s].to_notify = IF TRUE THEN @ \cup {p} ELSE @]
  BY DEF LoadMeasurement, IsFirst, SlotsOf
<1>2. slots_notify_flag' = slots_notify_flag /\ ins' = [ins EXCEPT ![id][p].delays = d]
  BY DEF LoadMeasurement
<1>3. \A t \in Slots : /\ slots'[t].id = slots[t].id /\ slots'[t].used = slots[t].used
                       /\ slots'[t].bank_name = slots[t].bank_name
                       /\ slots'[t].ins_names = slots[t].ins_names
                       /\ slots[t].to_notify \subseteq slots'[t].to_notify
                       /\ t = s => p \in slots'[t].to_notify
  BY <1>1 DEF IInv, TypeOK, SlotRecords
<1>4. ListKept
  BY <1>3 DEF ListKept
<1>5. ASSUME NEW t \in Slots, NEW q \in Programs, NotToBeSent(t, q)'
      PROVE  NotToBeSent(t, q) /\ InstrumentNotice(t, q)' = InstrumentNotice(t, q)
  <2>1. NotToBeSent(t, q) /\ ~(t = s /\ q = p) /\ slots[t].id # NoBank
    BY <1>3, <1>5 DEF NotToBeSent
  <2>2. slots[t].id \in BankIds
    BY <2>1 DEF IInv, TypeOK, SlotRecords
  <2>3. ~(slots[t].id = id /\ q = p)
    BY <1>1, <2>1 DEF IInv, SlotsAreTheBanksHeld
  <2>4. ins'[slots[t].id][q] = ins[slots[t].id][q]
    BY <1>2, <2>2, <2>3 DEF IInv, TypeOK
  <2>5. slots'[t].id = slots[t].id /\ slots'[t].ins_names = slots[t].ins_names
    BY <1>3
  <2> QED BY <2>1, <2>4, <2>5 DEF InstrumentNotice
<1> QED BY <1>2, <1>4, <1>5 DEF ChangeIsTold, ProgramsKept

-----------------------------------------------------------------------------
(* The bank manager's steps.                                               *)

\* A change that the editor asks to be told of.
LEMMA EditNotifyingKeeps ==
    ASSUME MirrorIInv, EditNotifying
    PROVE  MirrorIInv'
<1>1. IInv /\ UNCHANGED <<mq_to_ui, instrument_map, silent>>
  BY DEF MirrorIInv, EditNotifying
<1>2. ASSUME NEW l \in Loads, NEW flags \in LoadFlags, NEW answer \in Answers,
             LoadProgram(l.bank, l.program, l.instrument, l.name, flags, answer)
      PROVE  IInv' /\ ChangeIsTold
  <2>1. /\ l.bank \in BankIds /\ l.program \in Programs /\ l.instrument \in Instruments
        /\ l.name \in Names /\ flags \in SUBSET Flags /\ "Notify" \in flags
    BY MirrorAssumption
  <2>2. PICK s \in Slots :
           \/ LoadIntoExistingBank(s, l.bank, l.program, l.instrument, l.name, flags)
           \/ LoadIntoEmptySlot(s, l.bank, l.program, l.instrument, l.name, flags, answer)
    BY <1>2 DEF LoadProgram
  <2>3. CASE LoadIntoExistingBank(s, l.bank, l.program, l.instrument, l.name, flags)
    BY <1>1, <2>1, <2>3, LoadExistingKeeps, LoadExistingIsTold
  <2>4. CASE LoadIntoEmptySlot(s, l.bank, l.program, l.instrument, l.name, flags, answer)
    BY <1>1, <2>1, <2>4, LoadEmptyKeeps, LoadEmptyIsTold
  <2> QED BY <2>2, <2>3, <2>4
<1>3. ASSUME NEW id \in BankIds, NEW p \in Programs,
             DeleteProgram(id, p, TRUE) \/ DeleteBank(id, TRUE) \/ ClearBanks(TRUE)
      PROVE  IInv' /\ ChangeIsTold
  <2>1. PICK notify \in BOOLEAN : notify = TRUE
    OBVIOUS
  <2>2. IInv'
    BY <1>1, <1>3, <2>1, DeleteProgramKeeps, DeleteBankKeeps, ClearBanksKeeps
  <2> QED BY <1>1, <1>3, <2>2, DeleteIsTold
<1>4. ASSUME ClearBanks(TRUE) PROVE IInv' /\ ChangeIsTold
  <2>1. PICK notify \in BOOLEAN : notify = TRUE
    OBVIOUS
  <2>2. IInv'
    BY <1>1, <1>4, <2>1, ClearBanksKeeps
  <2>3. slots_notify_flag' /\ \A s \in Slots : slots'[s].used = {}
    BY <1>4 DEF ClearBanks, EmptySlot
  <2> QED BY <2>2, <2>3 DEF ChangeIsTold, ProgramsKept, NotToBeSent
<1>5. ASSUME NEW id \in BankIds, NEW name \in BankNames, RenameBank(id, name, TRUE)
      PROVE  IInv' /\ ChangeIsTold
  <2>1. PICK notify \in BOOLEAN : notify = TRUE
    OBVIOUS
  <2>2. name \in Names
    BY MirrorAssumption
  <2>3. IInv'
    BY <1>1, <1>5, <2>1, <2>2, RenameBankKeeps
  <2> QED BY <1>1, <1>5, <2>3, RenameBankIsTold
<1>6. ASSUME NEW id \in BankIds, NEW p \in Programs, NEW name \in ProgramNames,
             RenameProgram(id, p, name, TRUE)
      PROVE  IInv' /\ ChangeIsTold
  <2>1. PICK notify \in BOOLEAN : notify = TRUE
    OBVIOUS
  <2>2. name \in Names
    BY MirrorAssumption
  <2>3. IInv'
    BY <1>1, <1>6, <2>1, <2>2, RenameProgramKeeps
  <2> QED BY <1>1, <1>6, <2>3, RenameProgramIsTold
<1>7. 0 \in Programs
  BY ConstantsAssumption DEF Programs
<1>8. IInv' /\ ChangeIsTold
  BY <1>2, <1>3, <1>4, <1>5, <1>6, <1>7 DEF EditNotifying
<1> QED BY <1>1, <1>8, ToldChangeKeeps

\* A bank file or a state.
LEMMA EditSilentlyKeeps ==
    ASSUME MirrorIInv, EditSilently
    PROVE  MirrorIInv'
<1>1. silent' = TRUE /\ UNCHANGED <<mq_to_ui, instrument_map>>
  BY DEF EditSilently
<1>2. IInv
  BY DEF MirrorIInv
<1>3. ASSUME NEW l \in Loads, NEW answer \in Answers,
             LoadProgram(l.bank, l.program, l.instrument, l.name, {}, answer)
      PROVE  IInv'
  <2>1. /\ l.bank \in BankIds /\ l.program \in Programs /\ l.instrument \in Instruments
        /\ l.name \in Names /\ {} \in SUBSET Flags
    BY MirrorAssumption
  <2> QED BY <1>2, <1>3, <2>1, LoadExistingKeeps, LoadEmptyKeeps DEF LoadProgram
<1>4. ASSUME NEW notify \in BOOLEAN, ClearBanks(notify) PROVE IInv'
  BY <1>2, <1>4, ClearBanksKeeps
<1>5. ASSUME NEW id \in BankIds, NEW name \in BankNames, NEW notify \in BOOLEAN,
             RenameBank(id, name, notify)
      PROVE  IInv'
  <2>1. name \in Names
    BY MirrorAssumption
  <2> QED BY <1>2, <1>5, <2>1, RenameBankKeeps
<1>6. IInv'
  <2>1. PICK notify \in BOOLEAN : notify = FALSE
    OBVIOUS
  <2> QED BY <1>3, <1>4, <1>5, <2>1 DEF EditSilently
<1>7. MirrorTypeOK'
  BY <1>1 DEF MirrorIInv, MirrorTypeOK
<1> QED BY <1>1, <1>6, <1>7 DEF MirrorIInv, ListIsTold, ProgramsAreTold

\* A measurement.
LEMMA MeasuredKeeps ==
    ASSUME MirrorIInv, Measured
    PROVE  MirrorIInv'
<1>1. PICK l \in Loads, d \in Results :
         LoadMeasurement(l.bank, l.program, l.instrument, d, TRUE)
  BY DEF Measured
<1>2. /\ l.bank \in BankIds /\ l.program \in Programs /\ l.instrument \in Instruments
      /\ d \in Delays
  BY MirrorAssumption
<1>3. PICK notify \in BOOLEAN : notify = TRUE
  OBVIOUS
<1>4. IInv /\ UNCHANGED <<mq_to_ui, instrument_map, silent>>
  BY DEF MirrorIInv, Measured
<1>5. IInv'
  BY <1>1, <1>2, <1>3, <1>4, LoadMeasurementKeeps
<1>6. ChangeIsTold
  BY <1>1, <1>2, <1>4, MeasurementIsTold
<1> QED BY <1>4, <1>5, <1>6, ToldChangeKeeps

\* Requests of the editor.
LEMMA RequestKeeps ==
    ASSUME MirrorIInv, RequestSlots \/ RequestEverything
    PROVE  MirrorIInv'
<1>1. IInv'
  BY MarkKeeps DEF MirrorIInv, RequestSlots, RequestEverything
<1>2. CASE RequestSlots
  <2>1. ChangeIsTold
    BY <1>2 DEF RequestSlots, MarkSlotsForNotification, ChangeIsTold, ProgramsKept, NotToBeSent,
                InstrumentNotice
  <2> QED BY <1>1, <1>2, <2>1, ToldChangeKeeps DEF RequestSlots
<1>3. CASE RequestEverything
  <2>1. MirrorTypeOK'
    BY <1>3 DEF RequestEverything, MirrorIInv, MirrorTypeOK
  <2>2. slots_notify_flag'
    BY <1>3 DEF RequestEverything, MarkEverythingForNotification
  <2>3. \A s \in Slots, p \in Programs : ~NotToBeSent(s, p)'
    <3> SUFFICES ASSUME NEW s \in Slots, NEW p \in Programs, NotToBeSent(s, p)' PROVE FALSE
      OBVIOUS
    <3>1. slots'[s] = IF slots[s].id = NoBank THEN slots[s]
                      ELSE [slots[s] EXCEPT !.to_notify = slots[s].used]
      BY <1>3 DEF RequestEverything, MarkEverythingForNotification
    <3>2. slots[s] \in SlotRecords
      BY DEF MirrorIInv, IInv, TypeOK
    <3> QED BY <3>1, <3>2 DEF NotToBeSent, SlotRecords
  <2> QED BY <1>1, <2>1, <2>2, <2>3 DEF MirrorIInv, ListIsTold, ProgramsAreTold
<1> QED BY <1>2, <1>3

\* The notice of a program is of a bank there is, and agrees with the list.
LEMMA NoticeAgrees ==
    ASSUME IInv, NEW s \in Slots, NEW p \in Programs, slots[s].id # NoBank
    PROVE  LET m == InstrumentNotice(s, p)
           IN  /\ m \in Notices /\ m.kind = "instrument" /\ m.bank = slots[s].id /\ m.program = p
               /\ m.instrument.blank = (p \notin slots[s].used)
               /\ [instrument |-> m.instrument, name |-> m.name] \in Instrumented
               /\ AgreesWith(m, ListNow)
<1>1. slots[s] \in SlotRecords /\ slots[s].id \in BankIds
  BY DEF IInv, TypeOK, SlotRecords
<1>2. ins[slots[s].id][p] \in Instruments /\ slots[s].ins_names[p] \in Names
  BY <1>1 DEF IInv, TypeOK, SlotRecords
<1>3. ins[slots[s].id][p].blank \in BOOLEAN /\ (ins[slots[s].id][p].blank <=> p \notin slots[s].used)
  BY <1>2 DEF IInv, UsedIsNotBlank, NonBlank, Instruments
<1>4. PICK m : m = InstrumentNotice(s, p)
  OBVIOUS
<1>5. /\ m \in Notices /\ m.kind = "instrument" /\ m.bank = slots[s].id /\ m.program = p
      /\ m.instrument = ins[slots[s].id][p] /\ m.name = slots[s].ins_names[p]
  BY <1>1, <1>2, <1>4 DEF InstrumentNotice, Notices
<1>6. [instrument |-> m.instrument, name |-> m.name] \in Instrumented
  BY <1>2, <1>5 DEF Instrumented
<1>7. slots[s].id \in DOMAIN ListNow /\ p \in ListNow[slots[s].id].used <=> p \in slots[s].used
  <2>1. CASE slots[s].used # {}
    <3>1. s \in UsedSlots
      BY <2>1 DEF UsedSlots
    <3> QED BY <3>1, ListHasBanksInUse
  <2>2. CASE slots[s].used = {}
    <3>1. slots[s].id \notin BanksInUse
      <4> SUFFICES ASSUME NEW t \in UsedSlots, slots[t].id = slots[s].id PROVE FALSE
        BY DEF BanksInUse
      <4>1. t = s
        BY DEF UsedSlots, IInv, SlotsAreTheBanksHeld
      <4> QED BY <2>2, <4>1 DEF UsedSlots
    <3> QED BY <2>2, <3>1, ListHasBanksInUse
  <2> QED BY <2>1, <2>2
<1>8. AgreesWith(m, ListNow)
  BY <1>3, <1>5, <1>7 DEF AgreesWith
<1> QED BY <1>3, <1>4, <1>5, <1>6, <1>8

\* The queue holds what it held, and then what is sent: the list if it is to be sent,
\* and the notice of each program, once.
LEMMA SendExtendsQueue ==
    ASSUME MirrorIInv, NEW sent \in SUBSET ToNotify, Send(sent)
    PROVE  \E f \in {0, 1}, n \in Nat : \E order \in [1 .. n -> sent] :
              /\ mq_to_ui' \in Seq(Notices) /\ Len(mq_to_ui) \in Nat
              /\ Len(mq_to_ui') = Len(mq_to_ui) + f + n
              /\ \A k \in 1 .. Len(mq_to_ui) : mq_to_ui'[k] = mq_to_ui[k]
              /\ f = 1 <=> slots_notify_flag
              /\ f = 1 => mq_to_ui'[Len(mq_to_ui) + 1] = SlotsNotice
              /\ \A k \in 1 .. n :
                    mq_to_ui'[Len(mq_to_ui) + f + k] = InstrumentNotice(order[k][1], order[k][2])
              /\ \A x \in sent : \E k \in 1 .. n : order[k] = x
              /\ \A j, k \in 1 .. n : j < k => order[j] # order[k]
<1> USE DEF MirrorIInv
<1>1. PICK order \in InOrder(sent) :
         mq_to_ui' = mq_to_ui
            \o (IF slots_notify_flag THEN <<SlotsNotice>> ELSE <<>>)
            \o [k \in DOMAIN order |-> InstrumentNotice(order[k][1], order[k][2])]
  BY DEF Send
<1>2. sent \in SUBSET (Slots \X Programs)
  BY DEF ToNotify
<1>3. PICK n \in Nat : n = Cardinality(sent)
  BY <1>2, OrderSendsEachOnce
<1>4. /\ order \in [1 .. n -> sent] /\ DOMAIN order = 1 .. n
      /\ \A x \in sent : \E k \in 1 .. n : order[k] = x
      /\ \A j, k \in 1 .. n : j < k => order[j] # order[k]
  BY <1>2, <1>3, OrderSendsEachOnce
<1>5. PICK told : told = [k \in 1 .. n |-> InstrumentNotice(order[k][1], order[k][2])]
  OBVIOUS
<1>6. \A k \in 1 .. n : InstrumentNotice(order[k][1], order[k][2]) \in Notices
  <2> SUFFICES ASSUME NEW k \in 1 .. n
               PROVE  InstrumentNotice(order[k][1], order[k][2]) \in Notices
    OBVIOUS
  <2>1. order[k] \in ToNotify
    BY <1>4
  <2>2. order[k][1] \in Slots /\ order[k][2] \in Programs
        /\ slots[order[k][1]].to_notify # {}
    BY <2>1 DEF ToNotify
  <2>3. slots[order[k][1]].id # NoBank
    BY <2>2 DEF IInv, EmptySlotHoldsNothing, EmptySlot
  <2> QED BY <2>2, <2>3, NoticeAgrees
<1>7. told \in Seq(Notices) /\ Len(told) = n
      /\ \A k \in 1 .. n : told[k] = InstrumentNotice(order[k][1], order[k][2])
  BY <1>5, <1>6
<1>8. PICK list : list = IF slots_notify_flag THEN <<SlotsNotice>> ELSE <<>>
  OBVIOUS
<1>9. SlotsNotice \in Notices
  BY ListHasBanksInUse
<1>10. PICK f \in {0, 1} : /\ f = 1 <=> slots_notify_flag
                           /\ list \in Seq(Notices) /\ Len(list) = f
                           /\ f = 1 => list[1] = SlotsNotice
  <2>1. CASE slots_notify_flag
    <3>1. list = <<SlotsNotice>>
      BY <1>8, <2>1
    <3> QED BY <1>9, <2>1, <3>1
  <2>2. CASE ~slots_notify_flag
    <3>1. list = <<>>
      BY <1>8, <2>2
    <3> QED BY <2>2, <3>1
  <2> QED BY <2>1, <2>2
<1>11. mq_to_ui' = mq_to_ui \o list \o told
  BY <1>1, <1>4, <1>5, <1>8
<1>12. mq_to_ui \in Seq(Notices)
  BY DEF MirrorTypeOK
<1>13. PICK q : q = mq_to_ui \o list
  OBVIOUS
<1>14. /\ q \in Seq(Notices) /\ Len(q) = Len(mq_to_ui) + f /\ Len(mq_to_ui) \in Nat
       /\ \A k \in 1 .. Len(mq_to_ui) : q[k] = mq_to_ui[k]
       /\ f = 1 => q[Len(mq_to_ui) + 1] = SlotsNotice
  BY <1>10, <1>12, <1>13
<1>15. /\ mq_to_ui' \in Seq(Notices) /\ Len(mq_to_ui') = Len(q) + n
       /\ \A k \in 1 .. Len(q) : mq_to_ui'[k] = q[k]
       /\ \A k \in 1 .. n : mq_to_ui'[Len(q) + k] = told[k]
  <2>1. mq_to_ui' = q \o told
    BY <1>11, <1>13
  <2>2. Len(q) \in Nat /\ Len(told) = n /\ told \in Seq(Notices) /\ q \in Seq(Notices)
    BY <1>7, <1>14
  <2>3. q \o told \in Seq(Notices) /\ Len(q \o told) = Len(q) + n
    BY <2>2
  <2>4. /\ \A k \in 1 .. Len(q) : (q \o told)[k] = q[k]
        /\ \A k \in 1 .. n : (q \o told)[Len(q) + k] = told[k]
    BY <2>2
  <2> QED BY <2>1, <2>3, <2>4
<1>16. /\ Len(mq_to_ui') = Len(mq_to_ui) + f + n
       /\ \A k \in 1 .. Len(mq_to_ui) : mq_to_ui'[k] = mq_to_ui[k]
       /\ f = 1 => mq_to_ui'[Len(mq_to_ui) + 1] = SlotsNotice
       /\ \A k \in 1 .. n :
             mq_to_ui'[Len(mq_to_ui) + f + k] = InstrumentNotice(order[k][1], order[k][2])
  <2>1. PICK L \in Nat : L = Len(mq_to_ui) /\ Len(q) = L + f
    BY <1>14
  <2>2. /\ Len(mq_to_ui') = L + f + n
        /\ \A k \in 1 .. n : mq_to_ui'[L + f + k] = told[k]
    BY <1>15, <2>1
  <2>3. \A k \in 1 .. L : mq_to_ui'[k] = mq_to_ui[k]
    BY <1>14, <1>15, <2>1
  <2>4. f = 1 => mq_to_ui'[L + 1] = SlotsNotice
    BY <1>14, <1>15, <2>1
  <2> QED BY <1>7, <2>1, <2>2, <2>3, <2>4
<1>17. /\ mq_to_ui' \in Seq(Notices) /\ Len(mq_to_ui) \in Nat
       /\ f = 1 <=> slots_notify_flag
  BY <1>10, <1>14, <1>15
<1> HIDE DEF MirrorIInv
<1> order \in [1 .. n -> sent]
  BY ONLY <1>4
<1> WITNESS f \in {0, 1}, n \in Nat
<1> WITNESS order \in [1 .. n -> sent]
<1> QED BY ONLY <1>4, <1>16, <1>17

\* A cycle sends what is to be sent as it is.
LEMMA SendKeeps ==
    ASSUME MirrorIInv, NEW sent \in SUBSET ToNotify, Send(sent)
    PROVE  MirrorIInv'
<1> USE DEF MirrorIInv
<1>1. PICK f \in {0, 1}, n \in Nat : \E order \in [1 .. n -> sent] :
              /\ mq_to_ui' \in Seq(Notices) /\ Len(mq_to_ui) \in Nat
              /\ Len(mq_to_ui') = Len(mq_to_ui) + f + n
              /\ \A k \in 1 .. Len(mq_to_ui) : mq_to_ui'[k] = mq_to_ui[k]
              /\ f = 1 <=> slots_notify_flag
              /\ f = 1 => mq_to_ui'[Len(mq_to_ui) + 1] = SlotsNotice
              /\ \A k \in 1 .. n :
                    mq_to_ui'[Len(mq_to_ui) + f + k] = InstrumentNotice(order[k][1], order[k][2])
              /\ \A x \in sent : \E k \in 1 .. n : order[k] = x
              /\ \A j, k \in 1 .. n : j < k => order[j] # order[k]
  BY SendExtendsQueue
<1>2. PICK order \in [1 .. n -> sent] :
              /\ mq_to_ui' \in Seq(Notices) /\ Len(mq_to_ui) \in Nat
              /\ Len(mq_to_ui') = Len(mq_to_ui) + f + n
              /\ \A k \in 1 .. Len(mq_to_ui) : mq_to_ui'[k] = mq_to_ui[k]
              /\ f = 1 <=> slots_notify_flag
              /\ f = 1 => mq_to_ui'[Len(mq_to_ui) + 1] = SlotsNotice
              /\ \A k \in 1 .. n :
                    mq_to_ui'[Len(mq_to_ui) + f + k] = InstrumentNotice(order[k][1], order[k][2])
              /\ \A x \in sent : \E k \in 1 .. n : order[k] = x
              /\ \A j, k \in 1 .. n : j < k => order[j] # order[k]
  BY <1>1
<1>3. /\ SendNotifications(sent) /\ Len(mq_to_ui') <= MaxNotices
      /\ instrument_map' = instrument_map /\ silent' = silent
  BY DEF Send, HasRoom
<1>4. IInv'
  BY <1>3, SendNotificationsKeeps
<1>5. MirrorTypeOK'
  BY <1>2, <1>3 DEF MirrorTypeOK
<1>6. \A k \in 1 .. n : /\ order[k][1] \in Slots /\ order[k][2] \in Programs
                        /\ order[k] = <<order[k][1], order[k][2]>>
                        /\ slots[order[k][1]].id # NoBank
  <2> SUFFICES ASSUME NEW k \in 1 .. n
               PROVE  /\ order[k][1] \in Slots /\ order[k][2] \in Programs
                      /\ order[k] = <<order[k][1], order[k][2]>>
                      /\ slots[order[k][1]].id # NoBank
    OBVIOUS
  <2>1. order[k] \in ToNotify
    BY <1>2
  <2>2. order[k][1] \in Slots /\ order[k][2] \in Programs
        /\ order[k] = <<order[k][1], order[k][2]>> /\ slots[order[k][1]].to_notify # {}
    BY <2>1 DEF ToNotify
  <2>3. slots[order[k][1]].id # NoBank
    BY <2>2 DEF IInv, EmptySlotHoldsNothing, EmptySlot
  <2> QED BY <2>2, <2>3
<1>7. /\ held' = held /\ ins' = ins /\ ~slots_notify_flag'
      /\ \A s \in Slots : /\ slots'[s].id = slots[s].id /\ slots'[s].used = slots[s].used
                          /\ slots'[s].bank_name = slots[s].bank_name
                          /\ slots'[s].ins_names = slots[s].ins_names
                          /\ slots'[s].to_notify = {p \in slots[s].to_notify : <<s, p>> \notin sent}
  BY <1>3 DEF SendNotifications, IInv, TypeOK, SlotRecords
<1>8. SlotsNotice' = SlotsNotice /\ ListNow' = ListNow
  <2>1. ListKept
    BY <1>7 DEF ListKept
  <2> QED BY <1>4, <2>1, SameList
<1>9. PICK L \in Nat : L = Len(mq_to_ui)
  BY <1>2
<1>10. \A j \in L + f + 1 .. L + f + n :
          \E k \in 1 .. n : j = L + f + k
                            /\ mq_to_ui'[j] = InstrumentNotice(order[k][1], order[k][2])
  <2> SUFFICES ASSUME NEW j \in L + f + 1 .. L + f + n
               PROVE  \E k \in 1 .. n : j = L + f + k
                         /\ mq_to_ui'[j] = InstrumentNotice(order[k][1], order[k][2])
    OBVIOUS
  <2>1. j - L - f \in 1 .. n /\ j = L + f + (j - L - f)
    OBVIOUS
  <2>2. PICK k \in 1 .. n : j = L + f + k
    BY <2>1
  <2>3. mq_to_ui'[L + f + k] = InstrumentNotice(order[k][1], order[k][2])
    BY <1>2, <1>9
  <2> QED BY <2>2, <2>3
<1>11. ListIsTold'
  <2>1. \A j \in L + f + 1 .. L + f + n : AgreesWith(mq_to_ui'[j], ListNow)
    <3> SUFFICES ASSUME NEW j \in L + f + 1 .. L + f + n
                 PROVE  AgreesWith(mq_to_ui'[j], ListNow)
      OBVIOUS
    <3>1. PICK k \in 1 .. n : mq_to_ui'[j] = InstrumentNotice(order[k][1], order[k][2])
      BY <1>10
    <3>2. PICK t \in Slots, q \in Programs :
             slots[t].id # NoBank /\ mq_to_ui'[j] = InstrumentNotice(t, q)
      BY <1>6, <3>1
    <3> QED BY <3>2, NoticeAgrees
  <2>2. CASE slots_notify_flag
    <3>1. L + 1 \in 1 .. Len(mq_to_ui') /\ f = 1 /\ mq_to_ui'[L + 1] = SlotsNotice
      BY <1>2, <1>9, <2>2
    <3>2. \A j \in L + 1 + 1 .. Len(mq_to_ui') : AgreesWith(mq_to_ui'[j], ListNow)
      BY <1>2, <1>9, <2>1, <3>1
    <3>3. \E k \in 1 .. Len(mq_to_ui') :
             /\ mq_to_ui'[k] = SlotsNotice
             /\ \A j \in k + 1 .. Len(mq_to_ui') : AgreesWith(mq_to_ui'[j], ListNow)
      BY <3>1, <3>2
    <3> QED BY <1>8, <3>3 DEF ListIsTold, AgreesWith
  <2>3. CASE ~slots_notify_flag /\ ~silent
    <3>1. f = 0 /\ Len(mq_to_ui') = L + n
      BY <1>2, <1>9, <2>3
    <3>2. CASE \E k \in 1 .. Len(mq_to_ui) :
                  /\ mq_to_ui[k] = SlotsNotice
                  /\ \A j \in k + 1 .. Len(mq_to_ui) : AgreesWith(mq_to_ui[j], ListNow)
      <4>1. PICK k \in 1 .. L :
                  /\ mq_to_ui[k] = SlotsNotice
                  /\ \A j \in k + 1 .. L : AgreesWith(mq_to_ui[j], ListNow)
        BY <1>9, <3>2
      <4>2. \A j \in k + 1 .. Len(mq_to_ui') : AgreesWith(mq_to_ui'[j], ListNow)
        <5>1. \A j \in k + 1 .. L : mq_to_ui'[j] = mq_to_ui[j] /\ AgreesWith(mq_to_ui[j], ListNow)
          BY <1>2, <1>9, <4>1
        <5>2. \A j \in L + 1 .. L + n : AgreesWith(mq_to_ui'[j], ListNow)
          BY <2>1, <3>1
        <5> QED BY <3>1, <5>1, <5>2
      <4>3. k \in 1 .. Len(mq_to_ui') /\ mq_to_ui'[k] = SlotsNotice
        BY <1>2, <1>9, <3>1, <4>1
      <4>4. \E i \in 1 .. Len(mq_to_ui') :
               /\ mq_to_ui'[i] = SlotsNotice
               /\ \A j \in i + 1 .. Len(mq_to_ui') : AgreesWith(mq_to_ui'[j], ListNow)
        BY <4>2, <4>3
      <4> QED BY <1>8, <4>4 DEF ListIsTold, AgreesWith
    <3>3. CASE /\ MapLists(ListNow)
               /\ \A j \in 1 .. Len(mq_to_ui) : AgreesWith(mq_to_ui[j], ListNow)
      <4>1. \A j \in 1 .. Len(mq_to_ui') : AgreesWith(mq_to_ui'[j], ListNow)
        BY <1>2, <1>9, <2>1, <3>1, <3>3
      <4>2. MapLists(ListNow)'
        BY <1>3, <1>8, <3>3 DEF MapLists
      <4> QED BY <1>8, <4>1, <4>2 DEF ListIsTold, AgreesWith
    <3> QED BY <2>3, <3>2, <3>3 DEF ListIsTold
  <2>4. CASE silent
    BY <1>3, <2>4 DEF ListIsTold
  <2> QED BY <2>2, <2>3, <2>4
<1>12. ProgramsAreTold'
  <2> SUFFICES ASSUME ~silent', NEW s \in Slots, NEW p \in Programs, NotToBeSent(s, p)',
                      NEW b, NEW m, b = slots'[s].id, m = InstrumentNotice(s, p)'
               PROVE  ProgramIsTold(b, p, m)'
    BY EachProgramIsTold
  <2>1. /\ b = slots[s].id /\ b # NoBank /\ p \in slots[s].used
        /\ p \in slots[s].to_notify => <<s, p>> \in sent
    BY <1>7 DEF NotToBeSent
  <2>2. m = InstrumentNotice(s, p)
    BY <1>7 DEF InstrumentNotice
  <2>3. ASSUME NEW k \in 1 .. n, order[k] # <<s, p>>
        PROVE  Leaves(InstrumentNotice(order[k][1], order[k][2]), b, p)
    <3>1. PICK t \in Slots, q \in Programs : order[k] = <<t, q>> /\ slots[t].id # NoBank
      BY <1>6
    <3>2. ~(t = s /\ q = p)
      BY <2>3, <3>1
    <3>3. ~(slots[t].id = b /\ q = p)
      BY <2>1, <3>1, <3>2 DEF IInv, SlotsAreTheBanksHeld
    <3>4. /\ InstrumentNotice(t, q).kind = "instrument"
          /\ InstrumentNotice(t, q).bank = slots[t].id /\ InstrumentNotice(t, q).program = q
      BY DEF InstrumentNotice
    <3> QED BY <3>1, <3>3, <3>4 DEF Leaves
  <2>4. CASE <<s, p>> \in sent
    <3>1. PICK k \in 1 .. n : order[k] = <<s, p>>
      BY <1>2, <2>4
    <3>2. PICK i \in Nat : i = L + f + k
      OBVIOUS
    <3>3. i \in 1 .. Len(mq_to_ui') /\ mq_to_ui'[i] = m
      <4>1. i \in 1 .. Len(mq_to_ui')
        BY <1>2, <1>9, <3>2
      <4>2. mq_to_ui'[L + f + k] = InstrumentNotice(order[k][1], order[k][2])
        BY <1>2, <1>9
      <4> QED BY <2>2, <3>1, <3>2, <4>1, <4>2
    <3>4. \A j \in i + 1 .. Len(mq_to_ui') : Leaves(mq_to_ui'[j], b, p)
      <4> SUFFICES ASSUME NEW j \in i + 1 .. Len(mq_to_ui') PROVE Leaves(mq_to_ui'[j], b, p)
        OBVIOUS
      <4>1. j \in L + f + 1 .. L + f + n
        BY <1>2, <1>9, <3>2
      <4>2. PICK l \in 1 .. n : j = L + f + l
                                /\ mq_to_ui'[j] = InstrumentNotice(order[l][1], order[l][2])
        BY <1>10, <4>1
      <4>3. k < l
        BY <3>2, <4>2
      <4>4. order[l] # <<s, p>>
        BY <1>2, <3>1, <4>3
      <4> QED BY <2>3, <4>2, <4>4
    <3>5. \E k2 \in 1 .. Len(mq_to_ui') :
             /\ mq_to_ui'[k2] = m
             /\ \A j \in k2 + 1 .. Len(mq_to_ui') : Leaves(mq_to_ui'[j], b, p)
      BY <3>3, <3>4
    <3> QED BY <3>5 DEF ProgramIsTold, Leaves
  <2>5. CASE <<s, p>> \notin sent
    <3>1. ProgramIsTold(b, p, m)
      BY <1>3, <2>1, <2>2, <2>5 DEF ProgramsAreTold, NotToBeSent
    <3>2. \A j \in L + 1 .. Len(mq_to_ui') : Leaves(mq_to_ui'[j], b, p)
      <4> SUFFICES ASSUME NEW j \in L + 1 .. Len(mq_to_ui') PROVE Leaves(mq_to_ui'[j], b, p)
        OBVIOUS
      <4>1. CASE j = L + 1 /\ f = 1
        <5>1. mq_to_ui'[j] = SlotsNotice
          BY <1>2, <1>9, <4>1
        <5>2. s \in UsedSlots
          BY <2>1 DEF UsedSlots
        <5>3. b \in DOMAIN ListNow /\ p \in ListNow[b].used
          BY <2>1, <5>2, ListHasBanksInUse
        <5> QED BY <5>1, <5>3, ListHasBanksInUse DEF Leaves
      <4>2. CASE ~(j = L + 1 /\ f = 1)
        <5>1. j \in L + f + 1 .. L + f + n
          BY <1>2, <1>9, <4>2
        <5>2. PICK l \in 1 .. n : mq_to_ui'[j] = InstrumentNotice(order[l][1], order[l][2])
          BY <1>10, <5>1
        <5>3. order[l] \in sent
          BY <1>2
        <5>4. order[l] # <<s, p>>
          BY <2>5, <5>3
        <5> QED BY <2>3, <5>2, <5>4
      <4> QED BY <4>1, <4>2
    <3>3. CASE \E k \in 1 .. Len(mq_to_ui) :
                  /\ mq_to_ui[k] = m
                  /\ \A j \in k + 1 .. Len(mq_to_ui) : Leaves(mq_to_ui[j], b, p)
      <4>1. PICK k \in 1 .. L :
                  /\ mq_to_ui[k] = m
                  /\ \A j \in k + 1 .. L : Leaves(mq_to_ui[j], b, p)
        BY <1>9, <3>3
      <4>2. \A j \in k + 1 .. Len(mq_to_ui') : Leaves(mq_to_ui'[j], b, p)
        BY <1>2, <1>9, <3>2, <4>1
      <4>3. k \in 1 .. Len(mq_to_ui') /\ mq_to_ui'[k] = m
        BY <1>2, <1>9, <4>1
      <4>4. \E k2 \in 1 .. Len(mq_to_ui') :
               /\ mq_to_ui'[k2] = m
               /\ \A j \in k2 + 1 .. Len(mq_to_ui') : Leaves(mq_to_ui'[j], b, p)
        BY <4>2, <4>3
      <4> QED BY <4>4 DEF ProgramIsTold, Leaves
    <3>4. CASE /\ MapShows(b, p, m)
               /\ \A j \in 1 .. Len(mq_to_ui) : Leaves(mq_to_ui[j], b, p)
      <4>1. \A j \in 1 .. Len(mq_to_ui') : Leaves(mq_to_ui'[j], b, p)
        BY <1>2, <1>9, <3>2, <3>4
      <4>2. MapShows(b, p, m)'
        BY <1>3, <3>4 DEF MapShows
      <4> QED BY <4>1, <4>2 DEF ProgramIsTold, Leaves
    <3> QED BY <3>1, <3>3, <3>4 DEF ProgramIsTold
  <2> QED BY <2>4, <2>5
<1> QED BY <1>4, <1>5, <1>11, <1>12

-----------------------------------------------------------------------------
(* The editor's steps.                                                     *)

\* A notice is an instrument or a list.
LEMMA NoticeKinds ==
    ASSUME NEW m \in Notices
    PROVE  \/ m.kind = "slots" /\ m.entries \in BankLists
           \/ /\ m.kind = "instrument" /\ m.bank \in BankIds /\ m.program \in Programs
              /\ m.instrument \in Instruments
              /\ [instrument |-> m.instrument, name |-> m.name] \in Instrumented
BY DEF Notices, Instrumented

\* Without a change of the banks the list and the programs have to be looked for one
\* place nearer to the head of the queue; what the editor had of them it has, and what was
\* at the head.
LEMMA NoticeTaken ==
    ASSUME MirrorIInv, UNCHANGED <<vars, silent>>, MirrorTypeOK',
           mq_to_ui # <<>>, mq_to_ui' = Tail(mq_to_ui),
           NEW first, first = Head(mq_to_ui),
           first = SlotsNotice \/ (AgreesWith(first, ListNow) /\ MapLists(ListNow))
              => MapLists(ListNow)',
           \A s \in Slots, p \in Programs : \A b, m :
              (/\ ~silent /\ NotToBeSent(s, p) /\ b = slots[s].id /\ m = InstrumentNotice(s, p)
               /\ first = m \/ (Leaves(first, b, p) /\ MapShows(b, p, m)))
                 => MapShows(b, p, m)'
    PROVE  MirrorIInv'
<1> USE DEF MirrorIInv
<1>1. mq_to_ui \in Seq(Notices)
  BY DEF MirrorTypeOK
<1>2. PICK n \in Nat : /\ n > 0 /\ n = Len(mq_to_ui) /\ Len(mq_to_ui') = n - 1
                       /\ first = mq_to_ui[1]
                       /\ \A k \in 1 .. n - 1 : mq_to_ui'[k] = mq_to_ui[k + 1]
  BY <1>1, HeadTaken
<1>3. IInv'
  BY NextKeepsInvariant
<1>4. /\ SlotsNotice' = SlotsNotice /\ ListNow' = ListNow
      /\ silent' = silent /\ slots_notify_flag' = slots_notify_flag /\ slots' = slots
      /\ \A s, p : InstrumentNotice(s, p)' = InstrumentNotice(s, p)
                   /\ (NotToBeSent(s, p)' <=> NotToBeSent(s, p))
  BY DEF vars, SlotsNotice, ListNow, BanksInUse, UsedSlots, SlotOf, InstrumentNotice, NotToBeSent
<1>5. ListIsTold'
  <2>1. CASE silent \/ slots_notify_flag
    BY <1>4, <2>1 DEF ListIsTold
  <2>2. CASE \E k \in 1 .. Len(mq_to_ui) :
                /\ mq_to_ui[k] = SlotsNotice
                /\ \A j \in k + 1 .. Len(mq_to_ui) : AgreesWith(mq_to_ui[j], ListNow)
    <3>1. PICK k \in 1 .. n : /\ mq_to_ui[k] = SlotsNotice
                              /\ \A j \in k + 1 .. n : AgreesWith(mq_to_ui[j], ListNow)
      BY <1>2, <2>2
    <3>2. \A j \in k .. n - 1 : AgreesWith(mq_to_ui'[j], ListNow)
      BY <1>2, <3>1
    <3>3. CASE k = 1
      <4>1. MapLists(ListNow)'
        BY <1>2, <3>1, <3>3
      <4>2. \A j \in 1 .. Len(mq_to_ui') : AgreesWith(mq_to_ui'[j], ListNow)
        BY <1>2, <3>2, <3>3
      <4> QED BY <1>4, <4>1, <4>2 DEF ListIsTold, AgreesWith
    <3>4. CASE k # 1
      <4>1. PICK i \in 1 .. n - 1 : k = i + 1
        BY <3>4
      <4>2. i \in 1 .. Len(mq_to_ui') /\ mq_to_ui'[i] = SlotsNotice
        BY <1>2, <3>1, <4>1
      <4>3. \A j \in i + 1 .. Len(mq_to_ui') : AgreesWith(mq_to_ui'[j], ListNow)
        BY <1>2, <3>2, <4>1
      <4>4. \E i2 \in 1 .. Len(mq_to_ui') :
               /\ mq_to_ui'[i2] = SlotsNotice
               /\ \A j \in i2 + 1 .. Len(mq_to_ui') : AgreesWith(mq_to_ui'[j], ListNow)
        BY <4>2, <4>3
      <4> QED BY <1>4, <4>4 DEF ListIsTold, AgreesWith
    <3> QED BY <3>3, <3>4
  <2>3. CASE /\ MapLists(ListNow)
             /\ \A j \in 1 .. Len(mq_to_ui) : AgreesWith(mq_to_ui[j], ListNow)
    <3>1. AgreesWith(first, ListNow)
      BY <1>2, <2>3
    <3>2. MapLists(ListNow)'
      BY <2>3, <3>1
    <3>3. \A j \in 1 .. Len(mq_to_ui') : AgreesWith(mq_to_ui'[j], ListNow)
      BY <1>2, <2>3
    <3> QED BY <1>4, <3>2, <3>3 DEF ListIsTold, AgreesWith
  <2> QED BY <2>1, <2>2, <2>3 DEF ListIsTold
<1>6. ProgramsAreTold'
  <2> SUFFICES ASSUME ~silent', NEW s \in Slots, NEW p \in Programs, NotToBeSent(s, p)',
                      NEW b, NEW m, b = slots'[s].id, m = InstrumentNotice(s, p)'
               PROVE  ProgramIsTold(b, p, m)'
    BY EachProgramIsTold
  <2>1. /\ b = slots[s].id /\ m = InstrumentNotice(s, p) /\ ~silent /\ NotToBeSent(s, p)
        /\ ProgramIsTold(b, p, m)
    BY <1>4 DEF ProgramsAreTold
  <2>2. first = m \/ (Leaves(first, b, p) /\ MapShows(b, p, m)) => MapShows(b, p, m)'
    BY <2>1
  <2>3. CASE \E k \in 1 .. Len(mq_to_ui) :
                /\ mq_to_ui[k] = m
                /\ \A j \in k + 1 .. Len(mq_to_ui) : Leaves(mq_to_ui[j], b, p)
    <3>1. PICK k \in 1 .. n : /\ mq_to_ui[k] = m
                              /\ \A j \in k + 1 .. n : Leaves(mq_to_ui[j], b, p)
      BY <1>2, <2>3
    <3>2. \A j \in k .. n - 1 : Leaves(mq_to_ui'[j], b, p)
      BY <1>2, <3>1
    <3>3. CASE k = 1
      <4>1. MapShows(b, p, m)'
        BY <1>2, <2>2, <3>1, <3>3
      <4>2. \A j \in 1 .. Len(mq_to_ui') : Leaves(mq_to_ui'[j], b, p)
        BY <1>2, <3>2, <3>3
      <4> QED BY <4>1, <4>2 DEF ProgramIsTold, Leaves
    <3>4. CASE k # 1
      <4>1. PICK i \in 1 .. n - 1 : k = i + 1
        <5>1. k - 1 \in 1 .. n - 1 /\ k = (k - 1) + 1
          BY <3>1, <3>4
        <5> QED BY <5>1
      <4>2. i \in 1 .. Len(mq_to_ui') /\ mq_to_ui'[i] = m
        BY <1>2, <3>1, <4>1
      <4>3. \A j \in i + 1 .. Len(mq_to_ui') : Leaves(mq_to_ui'[j], b, p)
        BY <1>2, <3>2, <4>1
      <4>4. \E i2 \in 1 .. Len(mq_to_ui') :
               /\ mq_to_ui'[i2] = m
               /\ \A j \in i2 + 1 .. Len(mq_to_ui') : Leaves(mq_to_ui'[j], b, p)
        BY <4>2, <4>3
      <4> QED BY <4>4 DEF ProgramIsTold, Leaves
    <3> QED BY <3>3, <3>4
  <2>4. CASE /\ MapShows(b, p, m)
             /\ \A j \in 1 .. Len(mq_to_ui) : Leaves(mq_to_ui[j], b, p)
    <3>1. Leaves(first, b, p)
      BY <1>2, <2>4
    <3>2. MapShows(b, p, m)'
      BY <2>2, <2>4, <3>1
    <3>3. \A j \in 1 .. Len(mq_to_ui') : Leaves(mq_to_ui'[j], b, p)
      BY <1>2, <2>4
    <3> QED BY <3>2, <3>3 DEF ProgramIsTold, Leaves
  <2> QED BY <2>1, <2>3, <2>4 DEF ProgramIsTold
<1> QED BY <1>3, <1>5, <1>6

\* The editor takes the list of the banks.
LEMMA ReceiveBankSlotsKeeps ==
    ASSUME MirrorIInv, ReceiveBankSlots
    PROVE  MirrorIInv'
<1> USE DEF MirrorIInv
<1>1. /\ mq_to_ui # <<>> /\ mq_to_ui' = Tail(mq_to_ui) /\ UNCHANGED <<vars, silent>>
  BY DEF ReceiveBankSlots, vars
<1>2. mq_to_ui \in Seq(Notices)
  BY DEF MirrorTypeOK
<1>3. PICK first \in Notices : first = Head(mq_to_ui)
  BY <1>1, <1>2, HeadTaken
<1>4. PICK entries \in BankLists :
         /\ first.kind = "slots" /\ first.entries = entries
         /\ instrument_map' = [psid \in ListedNumbers(entries) |-> Listed(psid, entries)]
  BY <1>3, NoticeKinds DEF ReceiveBankSlots
<1>5. DOMAIN instrument_map' = ListedNumbers(entries)
  BY <1>4
<1>6. ASSUME NEW b \in DOMAIN entries
      PROVE  /\ PseudoId[b] \in DOMAIN instrument_map'
             /\ instrument_map'[PseudoId[b]] \in Entries
             /\ HalfIsAs(instrument_map'[PseudoId[b]], Half(b), Entry(PseudoId[b]).ins[Half(b)],
                         entries[b])
             /\ entries[b] \in Listing
  <2>1. PseudoId[b] \in ListedNumbers(entries)
    BY DEF ListedNumbers
  <2>2. instrument_map'[PseudoId[b]] = Listed(PseudoId[b], entries)
    BY <1>4, <2>1
  <2> QED BY <1>5, <2>1, <2>2, EntryAfterList, ListType
<1>7. MirrorTypeOK'
  <2>1. ListedNumbers(entries) \subseteq PseudoIds
    BY ListType, MirrorAssumption DEF ListedNumbers
  <2>2. instrument_map' \in [DOMAIN instrument_map' -> Entries]
    <3>1. \A psid \in ListedNumbers(entries) : Listed(psid, entries) \in Entries
      BY EntryAfterList
    <3> QED BY <1>4, <1>5, <3>1
  <2>3. mq_to_ui' \in Seq(Notices) /\ Len(mq_to_ui') <= MaxNotices
    <3>1. /\ Tail(mq_to_ui) \in Seq(Notices) /\ Len(mq_to_ui) \in Nat
          /\ Len(Tail(mq_to_ui)) = Len(mq_to_ui) - 1
      BY <1>1, <1>2, HeadTaken
    <3>2. Len(mq_to_ui) <= MaxNotices
      BY DEF MirrorTypeOK
    <3> QED BY <1>1, <3>1, <3>2, MirrorAssumption
  <2> QED BY <1>1, <1>5, <2>1, <2>2, <2>3 DEF MirrorTypeOK
<1>8. \A e \in Entries : \A b : e.ins[Half(b)] \in [Programs -> Instrumented]
  BY DEF Entries, Half, Halves
<1>9. ASSUME first = SlotsNotice PROVE MapLists(ListNow)'
  <2>1. entries = ListNow
    BY <1>4, <1>9, ListHasBanksInUse
  <2>2. ListNow' = ListNow
    BY <1>1 DEF vars, SlotsNotice, ListNow, BanksInUse, UsedSlots, SlotOf
  <2>3. ASSUME NEW b \in DOMAIN entries, NEW p \in Programs
        PROVE  instrument_map'[PseudoId[b]].ins[Half(b)][p].instrument.blank
                  = (p \notin entries[b].used)
    <3>1. PICK x \in Instrumented : x = Entry(PseudoId[b]).ins[Half(b)][p]
      BY <1>8, EntryType
    <3>2. instrument_map'[PseudoId[b]].ins[Half(b)][p] = WithBlank(x, p \notin entries[b].used)
      BY <1>6, <3>1 DEF HalfIsAs
    <3>3. PICK blank \in BOOLEAN : blank = (p \notin entries[b].used)
      OBVIOUS
    <3>4. WithBlank(x, blank).instrument.blank = blank
      BY BlankOrNot
    <3> QED BY <3>2, <3>3, <3>4
  <2>4. \A b \in DOMAIN entries : instrument_map'[PseudoId[b]].name[Half(b)] = entries[b].name
    BY <1>6 DEF HalfIsAs
  <2> QED BY <1>5, <2>1, <2>2, <2>3, <2>4 DEF MapLists, ListedNumbers, Half
<1>10. ~AgreesWith(first, ListNow)
  BY <1>4 DEF AgreesWith
<1>11. ASSUME NEW s \in Slots, NEW p \in Programs, NEW b, NEW m,
              NotToBeSent(s, p), b = slots[s].id, m = InstrumentNotice(s, p),
              first = m \/ (Leaves(first, b, p) /\ MapShows(b, p, m))
       PROVE  MapShows(b, p, m)'
  <2>1. /\ m.kind = "instrument" /\ m.instrument.blank = FALSE
        /\ [instrument |-> m.instrument, name |-> m.name] \in Instrumented
    BY <1>11, NoticeAgrees DEF NotToBeSent
  <2>2. Leaves(first, b, p) /\ MapShows(b, p, m)
    BY <1>4, <1>11, <2>1
  <2>3. b \in DOMAIN entries /\ p \in entries[b].used
    BY <1>4, <2>2 DEF Leaves
  <2>4. PICK x \in Instrumented : x = [instrument |-> m.instrument, name |-> m.name]
    BY <2>1
  <2>5. Entry(PseudoId[b]).ins[Half(b)][p] = x
    BY <2>2, <2>4 DEF MapShows, Entry
  <2>6. instrument_map'[PseudoId[b]].ins[Half(b)][p] = WithBlank(x, FALSE)
    <3>1. (p \notin entries[b].used) = FALSE
      BY <2>3
    <3> QED BY <1>6, <2>3, <2>5, <3>1 DEF HalfIsAs
  <2>7. WithBlank(x, FALSE) = x
    <3>1. x.instrument.blank = FALSE
      BY <2>1, <2>4
    <3> QED BY <3>1, BlankOrNot
  <2> QED BY <1>6, <2>3, <2>4, <2>6, <2>7 DEF MapShows
<1>12. first = SlotsNotice \/ (AgreesWith(first, ListNow) /\ MapLists(ListNow))
          => MapLists(ListNow)'
  BY <1>9, <1>10
<1>13. \A s \in Slots, p \in Programs : \A b, m :
          (/\ ~silent /\ NotToBeSent(s, p) /\ b = slots[s].id /\ m = InstrumentNotice(s, p)
           /\ first = m \/ (Leaves(first, b, p) /\ MapShows(b, p, m)))
             => MapShows(b, p, m)'
  BY <1>11
<1>14. MirrorIInv
  OBVIOUS
<1> HIDE DEF MirrorIInv
<1> QED BY <1>1, <1>3, <1>7, <1>12, <1>13, <1>14, NoticeTaken

\* The editor takes an instrument.
LEMMA ReceiveInstrumentKeeps ==
    ASSUME MirrorIInv, ReceiveInstrument
    PROVE  MirrorIInv'
<1>1. /\ mq_to_ui # <<>> /\ mq_to_ui' = Tail(mq_to_ui) /\ UNCHANGED <<vars, silent>>
  BY DEF ReceiveInstrument, vars
<1>2. IInv /\ MirrorTypeOK /\ mq_to_ui \in Seq(Notices)
  BY DEF MirrorTypeOK, MirrorIInv
<1>3. PICK first \in Notices : first = Head(mq_to_ui)
  BY <1>1, <1>2, HeadTaken
<1>4. first.kind = "instrument"
  BY <1>3 DEF ReceiveInstrument
<1>5. PICK c \in BankIds, q \in Programs, x \in Instrumented :
         /\ c = first.bank /\ q = first.program
         /\ x = [instrument |-> first.instrument, name |-> first.name]
         /\ x.instrument = first.instrument
  BY <1>4, NoticeKinds
<1>6. PICK psid \in PseudoIds, h \in Halves : psid = PseudoId[c] /\ h = Half(c)
  BY MirrorAssumption DEF Half, Halves
<1>7. PICK old \in Entries : old = Entry(psid)
  BY <1>2, EntryType
<1>8. PICK e \in Entries :
         /\ e = WithInstrument(old, h, q, x) /\ e.name = old.name /\ e.ins[h][q] = x
         /\ \A g \in Halves, p \in Programs : ~(g = h /\ p = q) => e.ins[g][p] = old.ins[g][p]
  BY InstrumentPut
<1>9. PICK numbers :
         /\ numbers = IF AllBlank(e) THEN DOMAIN instrument_map \ {psid}
                                     ELSE DOMAIN instrument_map \cup {psid}
         /\ instrument_map' = [i \in numbers |-> IF i = psid THEN e ELSE instrument_map[i]]
  <2>1. WithInstrument(Entry(PseudoId[first.bank]), Half(first.bank), first.program,
                       [instrument |-> first.instrument, name |-> first.name]) = e
    BY <1>5, <1>6, <1>7, <1>8
  <2>2. PseudoId[first.bank] = psid
    BY <1>5, <1>6
  <2> QED BY <1>3, <2>1, <2>2 DEF ReceiveInstrument
<1>10. /\ DOMAIN instrument_map' = numbers
       /\ \A i \in DOMAIN instrument_map : i # psid =>
             i \in numbers /\ instrument_map'[i] = instrument_map[i]
       /\ ~AllBlank(e) => psid \in numbers /\ instrument_map'[psid] = e
  BY <1>9
<1>11. MirrorTypeOK'
  <2>1. numbers \subseteq PseudoIds
    BY <1>2, <1>9 DEF MirrorTypeOK
  <2>2. instrument_map' \in [numbers -> Entries]
    BY <1>2, <1>9 DEF MirrorTypeOK
  <2>3. mq_to_ui' \in Seq(Notices) /\ Len(mq_to_ui') <= MaxNotices
    <3>1. /\ Tail(mq_to_ui) \in Seq(Notices) /\ Len(mq_to_ui) \in Nat
          /\ Len(Tail(mq_to_ui)) = Len(mq_to_ui) - 1
      BY <1>1, <1>2, HeadTaken
    <3>2. Len(mq_to_ui) <= MaxNotices
      BY <1>2 DEF MirrorTypeOK
    <3> QED BY <1>1, <3>1, <3>2, MirrorAssumption
  <2>4. silent' \in BOOLEAN
    BY <1>1, <1>2 DEF MirrorTypeOK
  <2> QED BY <1>10, <2>1, <2>2, <2>3, <2>4 DEF MirrorTypeOK
<1>12. psid \in DOMAIN instrument_map => old = instrument_map[psid]
  BY <1>7 DEF Entry
<1>13. psid \notin DOMAIN instrument_map
          => \A g \in Halves, p \in Programs : old.ins[g][p].instrument.blank
  BY <1>7, EmptyBankType DEF Entry
<1>14. ASSUME AgreesWith(first, ListNow), MapLists(ListNow)
       PROVE  MapLists(ListNow)'
  <2>1. PICK entries \in BankLists :
           /\ entries = ListNow /\ ListNow' = entries
           /\ \A b \in DOMAIN entries : entries[b].used # {} /\ entries[b].used \subseteq Programs
    <3>1. ListNow' = ListNow
      BY <1>1 DEF vars, SlotsNotice, ListNow, BanksInUse, UsedSlots, SlotOf
    <3> QED BY <1>2, <3>1, ListHasBanksInUse
  <2>2. DOMAIN entries \subseteq BankIds
    BY ListType
  <2>3. DOMAIN instrument_map = ListedNumbers(entries)
    BY <1>14, <2>1 DEF MapLists
  <2>4. ASSUME NEW b \in DOMAIN entries
        PROVE  /\ PseudoId[b] \in DOMAIN instrument_map
               /\ instrument_map[PseudoId[b]].name[Half(b)] = entries[b].name
               /\ \A p \in Programs :
                     instrument_map[PseudoId[b]].ins[Half(b)][p].instrument.blank
                        = (p \notin entries[b].used)
    BY <1>14, <2>1, <2>3 DEF MapLists, ListedNumbers
  <2>5. x.instrument.blank = ~(c \in DOMAIN entries /\ q \in entries[c].used)
    BY <1>5, <1>14, <2>1 DEF AgreesWith
  <2>6. ASSUME NEW b \in DOMAIN entries, PseudoId[b] = psid, NEW p \in Programs
        PROVE  e.ins[Half(b)][p].instrument.blank = (p \notin entries[b].used)
    <3>1. Half(b) \in Halves
      BY DEF Half, Halves
    <3>2. CASE Half(b) = h /\ p = q
      <4>1. b = c
        BY <1>6, <2>2, <2>6, <3>2, OneBankIsHalf
      <4>2. x.instrument.blank = (p \notin entries[b].used)
        BY <2>5, <3>2, <4>1
      <4> QED BY <1>8, <3>2, <4>2
    <3>3. CASE ~(Half(b) = h /\ p = q)
      <4>1. e.ins[Half(b)][p] = instrument_map[psid].ins[Half(b)][p]
        BY <1>8, <1>12, <2>4, <2>6, <3>1, <3>3
      <4> QED BY <2>4, <2>6, <4>1
    <3> QED BY <3>2, <3>3
  <2>7. ASSUME psid \in ListedNumbers(entries) PROVE ~AllBlank(e)
    <3>1. PICK b \in DOMAIN entries : PseudoId[b] = psid
      BY <2>7 DEF ListedNumbers
    <3>2. PICK p \in Programs : p \in entries[b].used
      BY <2>1
    <3>3. e.ins[Half(b)][p].instrument.blank = FALSE
      <4>1. (p \notin entries[b].used) = FALSE
        BY <3>2
      <4> QED BY <2>6, <3>1, <4>1
    <3> QED BY <3>3 DEF AllBlank, Half, Halves
  <2>8. ASSUME ~AllBlank(e) PROVE psid \in ListedNumbers(entries)
    <3>1. PICK g \in Halves, p \in Programs : ~e.ins[g][p].instrument.blank
      BY <2>8 DEF AllBlank
    <3>2. CASE g = h /\ p = q
      BY <1>6, <1>8, <2>5, <3>1, <3>2 DEF ListedNumbers
    <3>3. CASE ~(g = h /\ p = q)
      BY <1>8, <1>13, <2>3, <3>1, <3>3
    <3> QED BY <3>2, <3>3
  <2>9. DOMAIN instrument_map' = ListedNumbers(entries)
    BY <1>9, <1>10, <2>3, <2>7, <2>8
  <2>10. ASSUME NEW b \in DOMAIN entries
         PROVE  /\ instrument_map'[PseudoId[b]].name[Half(b)] = entries[b].name
                /\ \A p \in Programs :
                      instrument_map'[PseudoId[b]].ins[Half(b)][p].instrument.blank
                         = (p \notin entries[b].used)
    <3>1. CASE PseudoId[b] # psid
      BY <1>10, <2>4, <3>1
    <3>2. CASE PseudoId[b] = psid
      <4>1. instrument_map'[PseudoId[b]] = e
        BY <1>10, <2>7, <3>2 DEF ListedNumbers
      <4>2. e.name[Half(b)] = entries[b].name
        BY <1>8, <1>12, <2>4, <3>2
      <4> QED BY <2>6, <3>2, <4>1, <4>2
    <3> QED BY <3>1, <3>2
  <2> QED BY <2>1, <2>9, <2>10 DEF MapLists, ListedNumbers, Half
<1>15. ASSUME NEW s \in Slots, NEW p \in Programs, NEW b, NEW m,
              NotToBeSent(s, p), b = slots[s].id, m = InstrumentNotice(s, p),
              first = m \/ (Leaves(first, b, p) /\ MapShows(b, p, m))
       PROVE  MapShows(b, p, m)'
  <2>1. slots[s].id # NoBank /\ p \in slots[s].used
    BY <1>15 DEF NotToBeSent
  <2>2. /\ m.bank = b /\ m.program = p /\ m.instrument.blank = FALSE
    BY <1>2, <1>15, <2>1, NoticeAgrees
  <2>3. b \in BankIds /\ Half(b) \in Halves
    BY <1>2, <1>15, <2>1 DEF IInv, TypeOK, SlotRecords, Half, Halves
  <2>4. CASE first = m
    <3>1. c = b /\ q = p /\ x = [instrument |-> m.instrument, name |-> m.name]
      BY <1>5, <2>2, <2>4
    <3>2. x.instrument.blank = FALSE
      BY <1>5, <2>2, <2>4
    <3>3. ~AllBlank(e)
      BY <1>8, <3>2 DEF AllBlank
    <3> QED BY <1>6, <1>8, <1>10, <3>1, <3>3 DEF MapShows
  <2>5. CASE Leaves(first, b, p) /\ MapShows(b, p, m)
    <3>1. ~(c = b /\ q = p)
      BY <1>4, <1>5, <2>5 DEF Leaves
    <3>2. /\ PseudoId[b] \in DOMAIN instrument_map
          /\ instrument_map[PseudoId[b]].ins[Half(b)][p] =
                [instrument |-> m.instrument, name |-> m.name]
      BY <2>5 DEF MapShows
    <3>3. CASE PseudoId[b] # psid
      BY <1>10, <3>2, <3>3 DEF MapShows
    <3>4. CASE PseudoId[b] = psid
      <4>1. ~(Half(b) = h /\ p = q)
        BY <1>6, <2>3, <3>1, <3>4, OneBankIsHalf
      <4>2. e.ins[Half(b)][p] = [instrument |-> m.instrument, name |-> m.name]
        BY <1>8, <1>12, <2>3, <3>2, <3>4, <4>1
      <4>3. e.ins[Half(b)][p].instrument.blank = FALSE
        BY <2>2, <4>2
      <4>4. ~AllBlank(e)
        BY <2>3, <4>3 DEF AllBlank
      <4> QED BY <1>10, <3>4, <4>2, <4>4 DEF MapShows
    <3> QED BY <3>3, <3>4
  <2> QED BY <1>15, <2>4, <2>5
<1>16. first = SlotsNotice \/ (AgreesWith(first, ListNow) /\ MapLists(ListNow))
          => MapLists(ListNow)'
  <2>1. first # SlotsNotice
    BY <1>4 DEF SlotsNotice
  <2> QED BY <1>14, <2>1
<1>17. \A s \in Slots, p \in Programs : \A b, m :
          (/\ ~silent /\ NotToBeSent(s, p) /\ b = slots[s].id /\ m = InstrumentNotice(s, p)
           /\ first = m \/ (Leaves(first, b, p) /\ MapShows(b, p, m)))
             => MapShows(b, p, m)'
  BY <1>15
<1> QED BY <1>1, <1>3, <1>11, <1>16, <1>17, NoticeTaken

-----------------------------------------------------------------------------
(* The editor and the bank manager together.                               *)

\* An editor that was just opened is still to be told of everything.
LEMMA MirrorInitHolds == MirrorInit => MirrorIInv
<1> SUFFICES ASSUME MirrorInit PROVE MirrorIInv
  OBVIOUS
<1>1. IInv
  BY InitInvariant DEF MirrorInit
<1>2. MirrorTypeOK
  <2>1. instrument_map = <<>> /\ mq_to_ui = <<>> /\ silent = TRUE
    BY DEF MirrorInit
  <2>2. DOMAIN instrument_map = {} /\ instrument_map \in [{} -> Entries]
    BY <2>1
  <2>3. mq_to_ui \in Seq(Notices) /\ Len(mq_to_ui) = 0
    BY <2>1
  <2> QED BY <2>1, <2>2, <2>3, MirrorAssumption DEF MirrorTypeOK
<1> QED BY <1>1, <1>2 DEF MirrorInit, MirrorIInv, ListIsTold, ProgramsAreTold

\* Every step keeps what was told and what is still to be told.
LEMMA MirrorNextKeeps == MirrorIInv /\ [MirrorNext]_mirror_vars => MirrorIInv'
<1> SUFFICES ASSUME MirrorIInv, [MirrorNext]_mirror_vars
             PROVE  MirrorIInv'
  OBVIOUS
<1>1. CASE EditNotifying
  BY <1>1, EditNotifyingKeeps
<1>2. CASE EditSilently
  BY <1>2, EditSilentlyKeeps
<1>3. CASE Measured
  BY <1>3, MeasuredKeeps
<1>4. CASE RequestSlots \/ RequestEverything
  BY <1>4, RequestKeeps
<1>5. CASE \E sent \in SUBSET ToNotify : Send(sent)
  BY <1>5, SendKeeps
<1>6. CASE ReceiveBankSlots
  BY <1>6, ReceiveBankSlotsKeeps
<1>7. CASE ReceiveInstrument
  BY <1>7, ReceiveInstrumentKeeps
<1>8. CASE UNCHANGED mirror_vars
  <2>1. /\ UNCHANGED vars /\ mq_to_ui' = mq_to_ui /\ instrument_map' = instrument_map
        /\ silent' = silent /\ slots_notify_flag' = slots_notify_flag
    BY <1>8 DEF mirror_vars, vars
  <2>2. IInv'
    BY <2>1, NextKeepsInvariant DEF MirrorIInv
  <2>3. MirrorTypeOK'
    BY <2>1 DEF MirrorIInv, MirrorTypeOK
  <2>4. /\ SlotsNotice' = SlotsNotice /\ ListNow' = ListNow
        /\ \A s, p : InstrumentNotice(s, p)' = InstrumentNotice(s, p)
                     /\ (NotToBeSent(s, p)' <=> NotToBeSent(s, p))
    BY <2>1 DEF vars, SlotsNotice, ListNow, BanksInUse, UsedSlots, SlotOf, InstrumentNotice,
                NotToBeSent
  <2>5. ListIsTold'
    <3>1. MapLists(ListNow)' <=> MapLists(ListNow)
      BY <2>1, <2>4 DEF MapLists
    <3> QED BY <2>1, <2>4, <3>1 DEF MirrorIInv, ListIsTold, AgreesWith
  <2>6. ProgramsAreTold'
    <3>1. ASSUME NEW s \in Slots, NEW p \in Programs, NEW b, NEW m,
                 ~silent', NotToBeSent(s, p)', b = slots'[s].id, m = InstrumentNotice(s, p)'
          PROVE  ProgramIsTold(b, p, m)'
      <4>1. ProgramIsTold(b, p, m)
        BY <2>1, <2>4, <3>1 DEF MirrorIInv, ProgramsAreTold, vars
      <4> QED BY <2>1, <4>1 DEF ProgramIsTold, MapShows, Leaves
    <3> QED BY <3>1, EachProgramIsTold
  <2> QED BY <2>2, <2>3, <2>5, <2>6 DEF MirrorIInv
<1> QED BY <1>1, <1>2, <1>3, <1>4, <1>5, <1>6, <1>7, <1>8 DEF MirrorNext

\* So the invariant holds all along.
LEMMA MirrorInvariance == MirrorSpec => []MirrorIInv
BY MirrorInitHolds, MirrorNextKeeps, PTL DEF MirrorSpec

\* The editor's entries are of their types, whatever notices come in whatever order, and
\* the queue never holds more than it has room for.
THEOREM MirrorTypeCorrect == MirrorSpec => []MirrorTypeOK
<1>1. MirrorIInv => MirrorTypeOK
  BY DEF MirrorIInv
<1>2. QED
  BY <1>1, MirrorInvariance, PTL

\* What is told to the editor is all it has to know.
LEMMA EditorIsTold == MirrorIInv => EditorMatchesTheBanks
<1> SUFFICES ASSUME MirrorIInv, Told
             PROVE  EditorMatchesTheBanks
  BY DEF EditorMatchesTheBanks
<1>1. IInv /\ MirrorTypeOK /\ ~silent /\ ~slots_notify_flag /\ ToNotify = {} /\ mq_to_ui = <<>>
  BY DEF MirrorIInv, Told
<1>2. MapLists(ListNow)
  BY <1>1 DEF MirrorIInv, ListIsTold
<1>3. PICK entries \in BankLists :
         /\ entries = ListNow /\ DOMAIN entries = BanksInUse
         /\ \A s \in UsedSlots : /\ slots[s].id \in DOMAIN entries
                                 /\ entries[slots[s].id].used = slots[s].used
                                 /\ entries[slots[s].id].name = slots[s].bank_name
  BY <1>1, ListHasBanksInUse
<1>4. DOMAIN instrument_map = {PseudoId[b] : b \in BanksInUse}
  BY <1>2, <1>3 DEF MapLists, ListedNumbers
<1>5. ASSUME NEW s \in UsedSlots, NEW b, b = slots[s].id
      PROVE  /\ Entry(PseudoId[b]).name[Half(b)] = slots[s].bank_name
             /\ \A p \in Programs :
                   IF p \in slots[s].used
                   THEN Entry(PseudoId[b]).ins[Half(b)][p] =
                           [instrument |-> ins[b][p], name |-> slots[s].ins_names[p]]
                   ELSE Entry(PseudoId[b]).ins[Half(b)][p].instrument.blank
  <2>1. PICK e : e = instrument_map[PseudoId[b]] /\ e = Entry(PseudoId[b])
    BY <1>3, <1>4, <1>5 DEF Entry
  <2>2. b \in DOMAIN entries /\ entries[b].used = slots[s].used
        /\ entries[b].name = slots[s].bank_name
    BY <1>3, <1>5
  <2>3. /\ e.name[Half(b)] = entries[b].name
        /\ \A p \in Programs : e.ins[Half(b)][p].instrument.blank = (p \notin entries[b].used)
    <3>1. MapLists(entries)
      BY <1>2, <1>3
    <3>2. /\ instrument_map[PseudoId[b]].name[Half(b)] = entries[b].name
          /\ \A p \in Programs :
                instrument_map[PseudoId[b]].ins[Half(b)][p].instrument.blank
                   = (p \notin entries[b].used)
      BY <2>2, <3>1 DEF MapLists
    <3> QED BY <2>1, <3>2
  <2>4. ASSUME NEW p \in Programs, p \in slots[s].used
        PROVE  e.ins[Half(b)][p] =
                  [instrument |-> ins[b][p], name |-> slots[s].ins_names[p]]
    <3>1. s \in Slots /\ NotToBeSent(s, p)
      <4>1. s \in Slots /\ slots[s].id # NoBank /\ <<s, p>> \in Slots \X Programs
        BY <1>5 DEF UsedSlots
      <4>2. <<s, p>> \notin ToNotify
        BY <1>1
      <4>3. p \notin slots[s].to_notify
        BY <4>1, <4>2 DEF ToNotify
      <4> QED BY <2>4, <4>1, <4>3 DEF NotToBeSent
    <3>2. ProgramIsTold(b, p, InstrumentNotice(s, p))
      BY <1>1, <1>5, <3>1 DEF MirrorIInv, ProgramsAreTold
    <3>3. MapShows(b, p, InstrumentNotice(s, p))
      BY <1>1, <3>2 DEF ProgramIsTold
    <3> QED BY <1>5, <2>1, <3>3 DEF MapShows, InstrumentNotice
  <2>5. ASSUME NEW p \in Programs, p \notin slots[s].used
        PROVE  e.ins[Half(b)][p].instrument.blank
    <3>1. (p \notin entries[b].used) = TRUE
      BY <2>2, <2>5
    <3> QED BY <2>3, <3>1
  <2> QED BY <2>1, <2>2, <2>3, <2>4, <2>5
<1> QED BY <1>4, <1>5 DEF EditorMatchesTheBanks

\* An editor that was told of everything shows the banks in use as the bank manager has
\* them, whatever was edited, evicted or measured while notices were on their way.
THEOREM EditorMirrorCorrect == MirrorSpec => []EditorMatchesTheBanks
BY EditorIsTold, MirrorInvariance, PTL
=============================================================================
