-------------------------- MODULE BankFilesProofs --------------------------
(***************************************************************************)
(* Proofs about the bank files and the dialogs of the editor.  A bank file *)
(* is taken in many steps, with the messages of other dialogs before and   *)
(* after it; the argument notes for each message that waits which file it  *)
(* belongs to, if any, and how far the file is taken when its turn comes.  *)
(***************************************************************************)
EXTENDS BankFiles, BankProofs

-----------------------------------------------------------------------------
(* What the state is made of.                                              *)

\* A file, and what was there when it was saved.
Files ==
    {file \in [banks : BanksOfFiles, there : BanksOfFiles] :
        \A b \in DOMAIN file.there :
            /\ b \in DOMAIN file.banks /\ file.there[b] = file.banks[b]
            /\ DOMAIN file.there[b].ins # {}}

\* A dialog that is open, for a program and with the names there were.
Dialogs == [kind : DialogKinds, place : Places2, pgm_name : Names, bank_name : Names]

\* What the editor asks for.
MessageKinds ==
    {"load", "load told", "create", "delete program", "delete bank", "delete all", "clear",
     "rename bank", "rename program", "everything"}

\* The messages from the editor.
FileMessageSet ==
    [kind : MessageKinds, bank : BankIds, program : Programs,
     content : Instrumented \cup Names \cup Files \cup {NoFile}, goes : SUBSET Places2]

\* What a message has for the processor, and the programs that go by it.
MessageOK(m) ==
    /\ m.kind \in {"load", "load told", "create"} => m.content \in Instrumented
    /\ m.kind \in {"rename bank", "rename program"} => m.content \in Names
    /\ m.kind = "everything" => m.content \in Files
    /\ m.kind \in {"load", "load told", "delete program"} => <<m.bank, m.program>> \in m.goes
    /\ m.kind = "delete bank" => \A p \in Programs : <<m.bank, p>> \in m.goes
    /\ m.kind \in {"delete all", "clear"} => m.goes = Places2

\* The dialog, the files and the messages are of their types.
FilesTypeOK ==
    /\ dialog = Closed \/ dialog \in Dialogs
    /\ box \in Places2
    /\ bankFile = NoFile \/ bankFile \in Files
    /\ insFile = NoFile \/ insFile \in Instrumented
    /\ messages \in Seq(FileMessageSet)
    /\ \A k \in 1 .. Len(messages) : MessageOK(messages[k])

-----------------------------------------------------------------------------
(* A bank file on its way.                                                 *)

\* Program p of the j-th bank has been taken.
Passed(j, p, bank, step) == j < bank \/ (j = bank /\ p < step)

\* The file as far as the given step of the given bank of it: no program is there but
\* those that were taken, and these are, with their names and the names of their banks.
Taken(file, order, bank, step) ==
    /\ \A b \in BankIds, p \in Programs :
          ~ins[b][p].blank =>
              \E j \in DOMAIN order : /\ order[j] = b /\ p \in DOMAIN file.banks[b].ins
                                      /\ Passed(j, p, bank, step)
    /\ \A j \in DOMAIN order : \A p \in DOMAIN file.banks[order[j]].ins :
          Passed(j, p, bank, step) =>
              /\ ins[order[j]][p] = file.banks[order[j]].ins[p].instrument
              /\ \A s \in Slots : slots[s].id = order[j] =>
                    slots[s].ins_names[p] = file.banks[order[j]].ins[p].name
    /\ \A j \in DOMAIN order :
          j < bank /\ DOMAIN file.banks[order[j]].ins # {} =>
              \A s \in Slots : slots[s].id = order[j] =>
                  slots[s].bank_name = file.banks[order[j]].name

\* As many banks as there are in the file.
Size(file) == Cardinality(DOMAIN file.banks)

\* Message m is the one for the given step of the given bank of the file: before the first
\* bank all banks go, and after the last the editor is told.
IsStep(m, file, order, bank, step) ==
    /\ file \in Files /\ order \in Orders(file)
    /\ bank \in 0 .. Size(file) + 1 /\ step \in 0 .. NumPrograms
    /\ bank = 0 => step = NumPrograms /\ m.kind = "clear"
    /\ bank = Size(file) + 1 => step = 0 /\ m.kind = "everything" /\ m.content = file
    /\ bank \in 1 .. Size(file) =>
          /\ m.bank = order[bank] /\ m.goes # {}
          /\ step < NumPrograms =>
                /\ m.kind = "load" /\ m.program = step
                /\ IF step \in DOMAIN file.banks[order[bank]].ins
                   THEN m.content = file.banks[order[bank]].ins[step]
                   ELSE m.content.instrument.blank
          /\ step = NumPrograms =>
                m.kind = "rename bank" /\ m.content = file.banks[order[bank]].name

\* A message of no file.
IsAlone(m) ==
    /\ m.kind \notin {"load", "clear", "everything"}
    /\ m.kind = "rename bank" => m.goes = {}

\* The message before that of a note is that of the step before.
Follows(note, before) ==
    /\ before.ofFile /\ before.file = note.file /\ before.order = note.order
    /\ IF note.step > 0
       THEN before.bank = note.bank /\ before.step = note.step - 1
       ELSE before.bank = note.bank - 1 /\ before.step = NumPrograms

\* The notes to the messages that wait.
Noted(notes) ==
    /\ DOMAIN notes = 1 .. Len(messages)
    /\ \A k \in 1 .. Len(messages) :
          IF notes[k].ofFile
          THEN /\ IsStep(messages[k], notes[k].file, notes[k].order, notes[k].bank, notes[k].step)
               /\ notes[k].bank > 0 /\ k > 1 => Follows(notes[k], notes[k - 1])
               /\ notes[k].bank > 0 /\ k = 1 =>
                     /\ silent
                     /\ Size(notes[k].file) <= NumSlots =>
                           Taken(notes[k].file, notes[k].order, notes[k].bank, notes[k].step)
          ELSE IsAlone(messages[k])

\* The file that was taken last is all there.
AllTaken ==
    loaded # NoFile =>
        /\ loaded \in Files
        /\ Size(loaded) <= NumSlots =>
              \E order \in Orders(loaded) : Taken(loaded, order, Size(loaded) + 1, 0)

\* The editor's copy, the messages with the files they belong to, and the file taken last.
FilesIInv ==
    /\ MirrorIInv
    /\ FilesTypeOK
    /\ \E notes : Noted(notes)
    /\ AllTaken

-----------------------------------------------------------------------------
(* What the operations of the bank manager do to the programs.             *)

\* The programs that are not blank are there, each in the slot of its bank.
LEMMA ThereIsNotBlank ==
    ASSUME IInv
    PROVE  /\ ProgramsThere = {x \in Places2 : ~ins[x[1]][x[2]].blank}
           /\ \A b \in BankIds, p \in Programs :
                 ~ins[b][p].blank => \E s \in Slots : slots[s].id = b /\ p \in slots[s].used
<1>1. ASSUME NEW b \in BankIds, NEW p \in Programs, ~ins[b][p].blank
      PROVE  \E s \in Slots : slots[s].id = b /\ p \in slots[s].used
  <2>1. b \in held
    BY <1>1, BlankType DEF IInv, AbsentBankIsBlank
  <2>2. PICK s \in Slots : slots[s].id = b /\ b # NoBank
    BY <2>1 DEF IInv, SlotsAreTheBanksHeld
  <2> QED BY <1>1, <2>2 DEF IInv, UsedIsNotBlank, NonBlank
<1>2. ASSUME NEW s \in Slots, NEW b \in BankIds, slots[s].id = b
      PROVE  SlotOf(b) = s /\ slots[s].used = NonBlank(ins[b])
  <2>1. b # NoBank
    BY ConstantsAssumption
  <2>2. \A t \in Slots : slots[t].id = b => t = s
    BY <1>2, <2>1 DEF IInv, SlotsAreTheBanksHeld
  <2> QED BY <1>2, <2>1, <2>2 DEF SlotOf, IInv, UsedIsNotBlank
<1>3. ASSUME NEW b \in BankIds, NEW p \in Programs
      PROVE  b \in BanksInUse /\ p \in slots[SlotOf(b)].used <=> ~ins[b][p].blank
  <2>1. CASE ~ins[b][p].blank
    <3>1. PICK s \in Slots : slots[s].id = b /\ p \in slots[s].used
      BY <1>1, <2>1
    <3>2. SlotOf(b) = s /\ s \in UsedSlots
      BY <1>2, <3>1, ConstantsAssumption DEF UsedSlots
    <3> QED BY <2>1, <3>1, <3>2 DEF BanksInUse
  <2>2. ASSUME b \in BanksInUse, p \in slots[SlotOf(b)].used PROVE ~ins[b][p].blank
    <3>1. PICK s \in Slots : slots[s].id = b
      BY <2>2 DEF BanksInUse, UsedSlots
    <3> QED BY <1>2, <2>2, <3>1 DEF NonBlank
  <2> QED BY <2>1, <2>2
<1>4. ProgramsThere = {x \in Places2 : ~ins[x[1]][x[2]].blank}
  <2>1. \A x \in Places2 : x[1] \in BankIds /\ x[2] \in Programs /\ x = <<x[1], x[2]>>
    BY DEF Places2
  <2>2. \A x \in Places2 : x \in ProgramsThere <=> x[1] \in BanksInUse /\ x[2] \in slots[SlotOf(x[1])].used
    BY <2>1 DEF ProgramsThere
  <2>3. ProgramsThere \subseteq Places2
    BY DEF ProgramsThere
  <2> QED BY <1>3, <2>1, <2>2, <2>3
<1> QED BY <1>1, <1>4

\* And so they are after a step.
LEMMA ThereIsNotBlankAfter ==
    IInv' => ProgramsThere' = {x \in Places2 : ~ins'[x[1]][x[2]].blank}
<1>1. IInv => ProgramsThere = {x \in Places2 : ~ins[x[1]][x[2]].blank}
  BY ThereIsNotBlank
<1>2. (IInv => ProgramsThere = {x \in Places2 : ~ins[x[1]][x[2]].blank})'
  BY <1>1, PTL
<1> QED BY <1>2

\* A program of a bank that has a slot and nothing in use there is blank.
LEMMA UnusedIsBlank ==
    ASSUME IInv, NEW s \in Slots, NEW b \in BankIds, NEW p \in Programs,
           slots[s].id = b, p \notin slots[s].used
    PROVE  ins[b][p].blank
BY ConstantsAssumption DEF IInv, UsedIsNotBlank, NonBlank

\* What a program that is loaded and taken changes: that program, and blank programs of a
\* bank that is evicted for it.
ProgramLoaded(id, p, i, name) ==
    /\ ins'[id][p] = i
    /\ \A b \in BankIds, q \in Programs :
          b # id \/ q # p => \/ ins'[b][q] = ins[b][q]
                             \/ ins[b][q].blank /\ ins'[b][q].blank
    /\ \A t \in Slots : slots'[t].id = id => slots'[t].ins_names[p] = name
    /\ \A t \in Slots, b \in BankIds, q \in Programs :
          slots'[t].id = b /\ ~ins[b][q].blank =>
              /\ slots[t].id = b /\ slots'[t].bank_name = slots[t].bank_name
              /\ b # id \/ q # p => slots'[t].ins_names[q] = slots[t].ins_names[q]

\* So a program is loaded, into the slot of its bank or an empty one.
LEMMA LoadLoads ==
    ASSUME IInv, NEW id \in BankIds, NEW p \in Programs, NEW i \in Instruments,
           NEW name \in Names, NEW flags, "KeepName" \notin flags,
           LoadProgram(id, p, i, name, flags, "taken")
    PROVE  ProgramLoaded(id, p, i, name)
<1>1. slots \in [Slots -> SlotRecords] /\ ins \in [BankIds -> [Programs -> Instruments]]
  BY DEF IInv, TypeOK
<1>2. ASSUME NEW info \in SlotRecords
      PROVE  /\ Recorded(info, p, i, name, flags).id = info.id
             /\ Recorded(info, p, i, name, flags).bank_name = info.bank_name
             /\ Recorded(info, p, i, name, flags).ins_names = [info.ins_names EXCEPT ![p] = name]
  BY DEF Recorded, SlotRecords
<1>3. PICK s \in Slots :
         \/ LoadIntoExistingBank(s, id, p, i, name, flags)
         \/ LoadIntoEmptySlot(s, id, p, i, name, flags, "taken")
  BY DEF LoadProgram
<1>4. CASE LoadIntoExistingBank(s, id, p, i, name, flags)
  <2>1. slots[s].id = id /\ \A t \in Slots \ {s} : slots[t].id # id
    BY <1>4, SlotFound DEF LoadIntoExistingBank
  <2>2. /\ slots' = [slots EXCEPT ![s] = Recorded(slots[s], p, i, name, flags)]
        /\ ins' = [ins EXCEPT ![id][p] = i]
    BY <1>4 DEF LoadIntoExistingBank
  <2>3. /\ slots'[s].id = id /\ slots'[s].bank_name = slots[s].bank_name
        /\ slots'[s].ins_names = [slots[s].ins_names EXCEPT ![p] = name]
        /\ slots[s].ins_names \in [Programs -> Names]
    BY <1>1, <1>2, <2>1, <2>2 DEF SlotRecords
  <2>4. \A t \in Slots \ {s} : slots'[t] = slots[t]
    BY <1>1, <2>2
  <2>5. /\ ins'[id][p] = i
        /\ \A b \in BankIds, q \in Programs : b # id \/ q # p => ins'[b][q] = ins[b][q]
    BY <1>1, <2>2
  <2>6. \A t \in Slots : slots'[t].id = id => slots'[t].ins_names[p] = name
    BY <2>1, <2>3, <2>4
  <2>7. \A t \in Slots, b \in BankIds, q \in Programs :
          slots'[t].id = b =>
              /\ slots[t].id = b /\ slots'[t].bank_name = slots[t].bank_name
              /\ b # id \/ q # p => slots'[t].ins_names[q] = slots[t].ins_names[q]
    BY <2>1, <2>3, <2>4
  <2> QED BY <2>5, <2>6, <2>7 DEF ProgramLoaded
<1>5. CASE LoadIntoEmptySlot(s, id, p, i, name, flags, "taken")
  <2>1. PICK info \in SlotRecords :
           /\ info = [EmptySlot EXCEPT !.id = id] /\ info.id = id
    <3>1. [EmptySlot EXCEPT !.id = id] \in SlotRecords
      BY EmptySlotType DEF SlotRecords
    <3>2. [EmptySlot EXCEPT !.id = id].id = id
      BY EmptySlotType DEF SlotRecords
    <3> QED BY <3>1, <3>2
  <2>2. /\ SlotsOf(id) = {} /\ s \in EmptySlots
        /\ slots' = [slots EXCEPT ![s] = Recorded(info, p, i, name, flags)]
        /\ ins' = [InsWithout(s) EXCEPT ![id][p] = i]
    BY <1>5, <2>1 DEF LoadIntoEmptySlot, IsFirst
  <2>3. \A t \in Slots : slots[t].id # id
    BY <2>2 DEF SlotsOf
  <2>4. /\ slots'[s].id = id
        /\ slots'[s].ins_names = [info.ins_names EXCEPT ![p] = name]
        /\ info.ins_names \in [Programs -> Names]
        /\ \A t \in Slots \ {s} : slots'[t] = slots[t]
    BY <1>1, <1>2, <2>1, <2>2 DEF SlotRecords
  <2>5. \A b \in BankIds, q \in Programs : slots[s].id = b => ins[b][q].blank
    <3>1. slots[s].id = NoBank \/ slots[s].used = {}
      BY <2>2 DEF EmptySlots
    <3> QED BY <3>1, UnusedIsBlank, ConstantsAssumption
  <2>6. \A q \in Programs : ins[id][q].blank
    BY <2>3, ThereIsNotBlank
  <2>7. InsWithout(s) \in [BankIds -> [Programs -> Instruments]]
    BY <1>1, BlankType DEF InsWithout
  <2>8. \A b \in BankIds, q \in Programs :
           InsWithout(s)[b][q] = IF b = slots[s].id THEN BlankInstrument ELSE ins[b][q]
    BY DEF InsWithout
  <2>9. /\ ins'[id][p] = i
        /\ \A b \in BankIds, q \in Programs :
              b # id \/ q # p => ins'[b][q] = InsWithout(s)[b][q]
    BY <2>2, <2>7
  <2>10. \A b \in BankIds, q \in Programs :
            b # id \/ q # p => \/ ins'[b][q] = ins[b][q]
                               \/ ins[b][q].blank /\ ins'[b][q].blank
    BY <2>5, <2>8, <2>9, BlankType
  <2>11. \A t \in Slots : slots'[t].id = id => slots'[t].ins_names[p] = name
    BY <2>3, <2>4
  <2>12. \A t \in Slots, b \in BankIds, q \in Programs :
            slots'[t].id = b /\ ~ins[b][q].blank => t # s
    BY <2>4, <2>6
  <2> QED BY <2>4, <2>9, <2>10, <2>11, <2>12 DEF ProgramLoaded
<1> QED BY <1>3, <1>4, <1>5

-----------------------------------------------------------------------------
(* The processor takes a message.                                          *)

\* The kinds that are told to the editor when the whole file was taken.
IsSilent(m) == m.kind \in {"load", "clear"} \/ (m.kind = "rename bank" /\ m.goes # {})

\* What a message does keeps the bookkeeping, and is told to the editor.
LEMMA DoesKeeps ==
    ASSUME IInv, NEW m \in FileMessageSet, MessageOK(m), Does(m)
    PROVE  IInv' /\ (IsSilent(m) \/ m.kind = "everything" \/ ChangeIsTold)
<1>1. m.bank \in BankIds /\ m.program \in Programs
  BY DEF FileMessageSet
<1>2. ASSUME m.kind \in {"load", "load told", "create"}
      PROVE  m.content.instrument \in Instruments /\ m.content.name \in Names
  BY <1>2 DEF MessageOK, Instrumented
<1>3. ASSUME NEW flags \in SUBSET Flags, m.kind \in {"load", "load told", "create"},
             LoadProgram(m.bank, m.program, m.content.instrument, m.content.name, flags, "taken")
      PROVE  IInv' /\ ("Notify" \in flags => ChangeIsTold)
  <2>1. PICK id \in BankIds, p \in Programs, i \in Instruments, name \in Names :
           id = m.bank /\ p = m.program /\ i = m.content.instrument /\ name = m.content.name
    BY <1>1, <1>2, <1>3
  <2>2. PICK s \in Slots : \/ LoadIntoExistingBank(s, id, p, i, name, flags)
                           \/ LoadIntoEmptySlot(s, id, p, i, name, flags, "taken")
    BY <1>3, <2>1 DEF LoadProgram
  <2>3. CASE LoadIntoExistingBank(s, id, p, i, name, flags)
    BY <2>3, LoadExistingKeeps, LoadExistingIsTold
  <2>4. CASE LoadIntoEmptySlot(s, id, p, i, name, flags, "taken")
    BY <2>4, LoadEmptyKeeps, LoadEmptyIsTold
  <2> QED BY <2>2, <2>3, <2>4
<1>4. CASE m.kind = "load" /\ LoadProgram(m.bank, m.program, m.content.instrument,
                                          m.content.name, {}, "taken")
  BY <1>3, <1>4 DEF IsSilent
<1>5. CASE m.kind = "load told" /\ LoadProgram(m.bank, m.program, m.content.instrument,
                                     m.content.name, {"Notify", "NeedMeasurement"}, "taken")
  <2>1. PICK flags \in SUBSET Flags : flags = {"Notify", "NeedMeasurement"} /\ "Notify" \in flags
    <3>1. {"Notify", "NeedMeasurement"} \in SUBSET Flags
      BY DEF Flags
    <3> QED BY <3>1
  <2> QED BY <1>3, <1>5, <2>1
<1>6. CASE m.kind = "create" /\ LoadProgram(m.bank, m.program, m.content.instrument,
                                  m.content.name, {"Notify", "NoReplaceExisting"}, "taken")
  <2>1. PICK flags \in SUBSET Flags : flags = {"Notify", "NoReplaceExisting"} /\ "Notify" \in flags
    <3>1. {"Notify", "NoReplaceExisting"} \in SUBSET Flags
      BY DEF Flags
    <3> QED BY <3>1
  <2> QED BY <1>3, <1>6, <2>1
<1>7. PICK notify \in BOOLEAN : notify = TRUE
  OBVIOUS
<1>8. CASE DeleteProgram(m.bank, m.program, TRUE)
  BY <1>1, <1>7, <1>8, DeleteProgramKeeps, DeleteIsTold
<1>9. CASE DeleteBank(m.bank, TRUE)
  BY <1>1, <1>7, <1>9, DeleteBankKeeps, DeleteIsTold
<1>10. CASE m.kind \in {"delete all", "clear"} /\ ClearBanks(m.kind = "delete all")
  <2>1. PICK b \in BOOLEAN : b = (m.kind = "delete all")
    OBVIOUS
  <2>2. IInv'
    BY <1>10, <2>1, ClearBanksKeeps
  <2>3. CASE m.kind = "delete all"
    <3>1. ClearBanks(TRUE)
      BY <1>10, <2>3
    <3> QED BY <1>1, <2>2, <3>1, DeleteIsTold
  <2> QED BY <1>10, <2>2, <2>3 DEF IsSilent
<1>11. CASE m.kind = "rename bank" /\ RenameBank(m.bank, m.content, m.goes = {})
  <2>1. PICK b \in BOOLEAN : b = (m.goes = {})
    OBVIOUS
  <2>2. IInv'
    BY <1>1, <1>11, <2>1, RenameBankKeeps DEF MessageOK
  <2>3. CASE m.goes = {}
    <3>1. RenameBank(m.bank, m.content, TRUE)
      BY <1>11, <2>3
    <3> QED BY <1>1, <2>2, <3>1, RenameBankIsTold
  <2> QED BY <1>11, <2>2, <2>3 DEF IsSilent
<1>12. CASE m.kind = "rename program" /\ RenameProgram(m.bank, m.program, m.content, TRUE)
  BY <1>1, <1>7, <1>12, RenameProgramKeeps, RenameProgramIsTold DEF MessageOK
<1>13. CASE m.kind = "everything" /\ MarkEverythingForNotification
  BY <1>13, MarkKeeps
<1> QED BY <1>4, <1>5, <1>6, <1>8, <1>9, <1>10, <1>11, <1>12, <1>13 DEF Does

\* A message that is taken, and what is left of those that wait.
LEMMA MessageTaken ==
    ASSUME FilesTypeOK, HandleFileMessage
    PROVE  \E m \in FileMessageSet :
              /\ m = Head(messages) /\ m = messages[1] /\ MessageOK(m) /\ Len(messages) > 0
              /\ messages' = Tail(messages)
              /\ IF NothingToDo(m) THEN UNCHANGED vars ELSE Does(m)
              /\ silent' = (m.kind # "everything" /\ (silent \/ m.kind = "clear"))
              /\ loaded' = IF m.kind = "everything" THEN m.content ELSE NoFile
              /\ UNCHANGED <<mq_to_ui, instrument_map, dialog, box, bankFile, insFile>>
<1>1. messages \in Seq(FileMessageSet) /\ messages # <<>>
  BY DEF FilesTypeOK, HandleFileMessage
<1>2. Len(messages) \in Nat /\ Len(messages) > 0 /\ Head(messages) = messages[1]
      /\ messages[1] \in FileMessageSet
  BY <1>1
<1>3. MessageOK(messages[1])
  BY <1>2 DEF FilesTypeOK
<1> QED BY <1>2, <1>3 DEF HandleFileMessage

\* The editor is told of what a message changed, or will be when the file was taken.
LEMMA HandleKeepsMirror ==
    ASSUME MirrorIInv, FilesTypeOK, HandleFileMessage, NEW m, m = Head(messages),
           IsSilent(m) => silent \/ m.kind = "clear"
    PROVE  MirrorIInv'
<1>1. IInv /\ MirrorTypeOK
  BY DEF MirrorIInv
<1>2. /\ m \in FileMessageSet /\ MessageOK(m)
      /\ IF NothingToDo(m) THEN UNCHANGED vars ELSE Does(m)
      /\ silent' = (m.kind # "everything" /\ (silent \/ m.kind = "clear"))
      /\ UNCHANGED <<mq_to_ui, instrument_map>>
  BY MessageTaken
<1>3. IInv' /\ (IsSilent(m) \/ m.kind = "everything" \/ ChangeIsTold \/ UNCHANGED vars)
  <2>1. CASE NothingToDo(m)
    <3>1. UNCHANGED vars
      BY <1>2, <2>1
    <3> QED BY <1>1, <3>1, NextKeepsInvariant
  <2> QED BY <1>1, <1>2, <2>1, DoesKeeps
<1>4. CASE silent'
  BY <1>1, <1>2, <1>3, <1>4 DEF MirrorIInv, ListIsTold, ProgramsAreTold, MirrorTypeOK
<1>5. CASE m.kind = "everything"
  <2>1. ~NothingToDo(m)
    BY <1>5 DEF NothingToDo
  <2>2. MarkEverythingForNotification
    BY <1>2, <1>5, <2>1 DEF Does
  <2>3. RequestEverything
    BY <1>2, <1>5, <2>2 DEF RequestEverything
  <2> QED BY <2>3, RequestKeeps
<1>6. CASE ~silent' /\ m.kind # "everything"
  <2>1. silent' = silent /\ ~IsSilent(m)
    BY <1>1, <1>2, <1>6 DEF MirrorTypeOK, IsSilent
  <2>2. CASE ChangeIsTold
    BY <1>2, <1>3, <2>1, <2>2, ToldChangeKeeps
  <2>3. CASE UNCHANGED vars
    <3>1. UNCHANGED mirror_vars
      BY <1>2, <2>1, <2>3 DEF vars, mirror_vars
    <3> QED BY <3>1, MirrorNextKeeps
  <2> QED BY <1>3, <1>6, <2>1, <2>2, <2>3
<1> QED BY <1>4, <1>5, <1>6

\* The programs that go are those of the message.
LEMMA OnlyThoseGo ==
    ASSUME IInv, NEW m \in FileMessageSet, MessageOK(m), Does(m),
           NEW b \in BankIds, NEW p \in Programs, ~ins[b][p].blank, ins'[b][p].blank
    PROVE  <<b, p>> \in m.goes
<1>1. ins \in [BankIds -> [Programs -> Instruments]] /\ m.bank \in BankIds /\ m.program \in Programs
  BY DEF IInv, TypeOK, FileMessageSet
<1>2. ASSUME NEW flags, "KeepName" \notin flags, m.kind \in {"load", "load told", "create"},
             LoadProgram(m.bank, m.program, m.content.instrument, m.content.name, flags, "taken")
      PROVE  b = m.bank /\ p = m.program
  <2>1. m.content.instrument \in Instruments /\ m.content.name \in Names
    BY <1>2 DEF MessageOK, Instrumented
  <2>2. ProgramLoaded(m.bank, m.program, m.content.instrument, m.content.name)
    BY <1>1, <1>2, <2>1, LoadLoads
  <2> QED BY <2>2 DEF ProgramLoaded
<1>3. CASE m.kind = "load" /\ LoadProgram(m.bank, m.program, m.content.instrument,
                                          m.content.name, {}, "taken")
  BY <1>2, <1>3 DEF MessageOK
<1>4. CASE m.kind = "load told" /\ LoadProgram(m.bank, m.program, m.content.instrument,
                                     m.content.name, {"Notify", "NeedMeasurement"}, "taken")
  BY <1>2, <1>4 DEF MessageOK
<1>5. CASE m.kind = "create" /\ LoadProgram(m.bank, m.program, m.content.instrument,
                                  m.content.name, {"Notify", "NoReplaceExisting"}, "taken")
  <2>1. b = m.bank /\ p = m.program
    BY <1>2, <1>5
  <2>2. PICK flags : flags = {"Notify", "NoReplaceExisting"} /\ "NoReplaceExisting" \in flags
    <3>1. "NoReplaceExisting" \in {"Notify", "NoReplaceExisting"}
      OBVIOUS
    <3> QED BY <3>1
  <2>3. PICK s \in Slots :
           \/ LoadIntoExistingBank(s, m.bank, m.program, m.content.instrument, m.content.name, flags)
           \/ LoadIntoEmptySlot(s, m.bank, m.program, m.content.instrument, m.content.name,
                                flags, "taken")
    BY <1>5, <2>2 DEF LoadProgram
  <2>4. \/ ins[m.bank][m.program].blank
        \/ \A t \in Slots : slots[t].id # m.bank
    BY <2>2, <2>3 DEF LoadIntoExistingBank, LoadIntoEmptySlot, SlotsOf
  <2>5. ins[m.bank][m.program].blank
    BY <1>1, <2>4, ThereIsNotBlank
  <2> QED BY <2>1, <2>5
<1>6. CASE m.kind = "delete program" /\ DeleteProgram(m.bank, m.program, TRUE)
  <2>1. ins' = [ins EXCEPT ![m.bank][m.program].blank = TRUE]
    BY <1>6 DEF DeleteProgram
  <2>2. b = m.bank /\ p = m.program
    BY <1>1, <2>1
  <2> QED BY <1>6, <2>2 DEF MessageOK
<1>7. CASE m.kind = "delete bank" /\ DeleteBank(m.bank, TRUE)
  <2>1. PICK s \in Slots : slots[s].id = m.bank /\ ins' = InsWithout(s)
    BY <1>7 DEF DeleteBank, IsFirst, SlotsOf
  <2>2. b = m.bank
    BY <2>1 DEF InsWithout
  <2> QED BY <1>7, <2>2 DEF MessageOK
<1>8. CASE m.kind \in {"delete all", "clear"}
  BY <1>8 DEF MessageOK, Places2
<1>9. CASE ins' = ins
  BY <1>9
<1> QED BY <1>3, <1>4, <1>5, <1>6, <1>7, <1>8, <1>9
        DEF Does, RenameBank, RenameProgram, MarkEverythingForNotification

-----------------------------------------------------------------------------
(* The banks of a file are taken, one message at a time.                   *)

\* The banks of a file.
LEMMA FileBanksTyped ==
    ASSUME NEW file \in Files
    PROVE  /\ DOMAIN file.banks \subseteq BankIds /\ IsFiniteSet(DOMAIN file.banks)
           /\ Size(file) \in Nat
           /\ \A b \in DOMAIN file.banks :
                 /\ file.banks[b].name \in Names /\ DOMAIN file.banks[b].ins \subseteq Programs
                 /\ \A p \in DOMAIN file.banks[b].ins :
                       /\ file.banks[b].ins[p] \in Instrumented
                       /\ ~file.banks[b].ins[p].instrument.blank
<1>1. file.banks \in BanksOfFiles
  BY DEF Files
<1>2. PICK B \in SUBSET BankIds : file.banks \in [B -> FileBanks]
  BY <1>1 DEF BanksOfFiles
<1>3. DOMAIN file.banks = B /\ IsFiniteSet(B)
  BY <1>2, FilesAssumption, FS_Subset
<1>4. Size(file) \in Nat
  BY <1>3, FS_CardinalityType DEF Size
<1>5. ASSUME NEW b \in B
      PROVE  /\ file.banks[b].name \in Names /\ DOMAIN file.banks[b].ins \subseteq Programs
             /\ \A p \in DOMAIN file.banks[b].ins :
                   /\ file.banks[b].ins[p] \in Instrumented
                   /\ ~file.banks[b].ins[p].instrument.blank
  <2>1. file.banks[b] \in FileBanks
    BY <1>2
  <2>2. PICK P \in SUBSET Programs : file.banks[b].ins \in [P -> Instrumented]
    BY <2>1 DEF FileBanks
  <2> QED BY <2>1, <2>2 DEF FileBanks
<1> QED BY <1>3, <1>4, <1>5

\* The banks of a file and the way to go through them: each bank once.
LEMMA FileBanksInOrder ==
    ASSUME NEW file \in Files, NEW order \in Orders(file)
    PROVE  /\ Size(file) \in Nat /\ order \in [1 .. Size(file) -> DOMAIN file.banks]
           /\ DOMAIN file.banks \subseteq BankIds
           /\ \A j, k \in 1 .. Size(file) : order[j] = order[k] => j = k
           /\ \A b \in DOMAIN file.banks : \E j \in 1 .. Size(file) : order[j] = b
           /\ \A b \in DOMAIN file.banks :
                 /\ file.banks[b].name \in Names /\ DOMAIN file.banks[b].ins \subseteq Programs
                 /\ \A p \in DOMAIN file.banks[b].ins :
                       /\ file.banks[b].ins[p] \in Instrumented
                       /\ ~file.banks[b].ins[p].instrument.blank
<1>1. PICK B : B = DOMAIN file.banks /\ IsFiniteSet(B)
  BY FileBanksTyped
<1>2. PICK n \in Nat : n = Size(file) /\ n = Cardinality(B)
  BY <1>1, FS_CardinalityType DEF Size
<1>3. /\ order \in [1 .. n -> B]
      /\ \A j, k \in 1 .. n : j < k => order[j] # order[k]
  BY <1>1, <1>2 DEF Orders, Size
<1>4. \A j, k \in 1 .. n : order[j] = order[k] => j = k
  <2> SUFFICES ASSUME NEW j \in 1 .. n, NEW k \in 1 .. n, j # k PROVE order[j] # order[k]
    OBVIOUS
  <2>1. j < k \/ k < j
    OBVIOUS
  <2> QED BY <1>3, <2>1
<1>5. \A b \in B : \E j \in 1 .. n : order[j] = b
  <2>1. order \in Injection(1 .. n, B)
    BY <1>3, <1>4 DEF Injection, IsInjective
  <2>2. IsFiniteSet(1 .. n) /\ Cardinality(1 .. n) = n
    BY FS_Interval
  <2>3. order \in Surjection(1 .. n, B)
    BY <1>1, <1>2, <2>1, <2>2, FS_Injection
  <2> QED BY <2>3 DEF Surjection
<1> QED BY <1>1, <1>2, <1>3, <1>4, <1>5, FileBanksTyped

\* The banks as they are, up to what is still to be told or measured.
SameBanks ==
    /\ ins' = ins
    /\ \A s \in Slots : /\ slots'[s].id = slots[s].id
                        /\ slots'[s].bank_name = slots[s].bank_name
                        /\ slots'[s].ins_names = slots[s].ins_names

\* While the banks are as they are, a file is taken as far as it was.
LEMMA TakenKept ==
    ASSUME SameBanks, NEW file, NEW order, NEW bank, NEW step, Taken(file, order, bank, step)
    PROVE  Taken(file, order, bank, step)'
BY DEF SameBanks, Taken, Passed

\* Telling the editor, and being asked to, leaves the banks as they are.
LEMMA TellingIsSameBanks ==
    ASSUME IInv, MarkEverythingForNotification \/ \E sent \in SUBSET ToNotify : Send(sent)
    PROVE  SameBanks
<1>1. slots \in [Slots -> SlotRecords]
  BY DEF IInv, TypeOK
<1>2. CASE MarkEverythingForNotification
  <2>1. \A s \in Slots : slots'[s] = IF slots[s].id = NoBank THEN slots[s]
                                     ELSE [slots[s] EXCEPT !.to_notify = slots[s].used]
    BY <1>2 DEF MarkEverythingForNotification
  <2>2. ins' = ins
    BY <1>2 DEF MarkEverythingForNotification
  <2> QED BY <1>1, <2>1, <2>2 DEF SameBanks, SlotRecords
<1>3. CASE \E sent \in SUBSET ToNotify : Send(sent)
  <2>1. PICK sent \in SUBSET ToNotify : SendNotifications(sent)
    BY <1>3 DEF Send
  <2>2. \A s \in Slots : slots'[s] =
           [slots[s] EXCEPT !.to_notify = {p \in slots[s].to_notify : <<s, p>> \notin sent}]
    BY <1>1, <2>1 DEF SendNotifications, SlotRecords
  <2>3. ins' = ins
    BY <2>1 DEF SendNotifications
  <2> QED BY <1>1, <2>2, <2>3 DEF SameBanks, SlotRecords
<1> QED BY <1>2, <1>3

\* At first nothing is there.
LEMMA ClearStarts ==
    ASSUME IInv, NEW file \in Files, NEW order \in Orders(file), ClearBanks(FALSE)
    PROVE  Taken(file, order, 1, 0)'
<1>1. \A b \in BankIds, p \in Programs : ins'[b][p].blank
  <2> SUFFICES ASSUME NEW b \in BankIds, NEW p \in Programs PROVE ins'[b][p].blank
    OBVIOUS
  <2>1. CASE SlotsOf(b) # {}
    BY <2>1, BlankType DEF ClearBanks
  <2>2. CASE SlotsOf(b) = {}
    BY <2>2, ThereIsNotBlank DEF ClearBanks, SlotsOf
  <2> QED BY <2>1, <2>2
<1>2. /\ Size(file) \in Nat /\ DOMAIN order = 1 .. Size(file)
      /\ \A j \in DOMAIN order : DOMAIN file.banks[order[j]].ins \subseteq Programs
  BY FileBanksInOrder
<1>3. \A j \in DOMAIN order, p \in Programs : ~Passed(j, p, 1, 0) /\ ~(j < 1)
  BY <1>2 DEF Passed, Programs
<1> QED BY <1>1, <1>2, <1>3 DEF Taken

\* While a file that fits is taken there is a slot for each bank of it.
LEMMA RoomForBank ==
    ASSUME IInv, NEW file \in Files, NEW order \in Orders(file), NEW bank \in 1 .. Size(file),
           NEW step, Taken(file, order, bank, step), Size(file) <= NumSlots,
           SlotsOf(order[bank]) = {}
    PROVE  EmptySlots # {}
<1> SUFFICES ASSUME EmptySlots = {} PROVE FALSE
  OBVIOUS
<1>1. /\ Size(file) \in Nat /\ order \in [1 .. Size(file) -> DOMAIN file.banks]
  BY FileBanksInOrder
<1>2. PICK n \in Nat : n = bank - 1 /\ n < NumSlots
  BY <1>1, ConstantsAssumption
<1>3. ASSUME NEW s \in Slots
      PROVE  \E j \in 1 .. n : slots[s].id = order[j]
  <2>1. slots[s].id # NoBank /\ slots[s].used # {} /\ slots[s] \in SlotRecords
    BY DEF EmptySlots, IInv, TypeOK
  <2>2. PICK b \in BankIds : b = slots[s].id
    BY <2>1 DEF SlotRecords
  <2>3. PICK p \in Programs : ~ins[b][p].blank
    BY <2>1, <2>2 DEF IInv, UsedIsNotBlank, NonBlank
  <2>4. PICK j \in DOMAIN order : order[j] = b /\ Passed(j, p, bank, step)
    BY <2>3 DEF Taken
  <2>5. b # order[bank]
    BY <2>2 DEF SlotsOf
  <2>6. j \in 1 .. Size(file) /\ j < bank
    BY <1>1, <2>4, <2>5 DEF Passed
  <2>7. j \in 1 .. n
    BY <1>1, <1>2, <2>6
  <2> QED BY <2>2, <2>4, <2>7
<1> DEFINE J == {j \in 1 .. n : \E s \in Slots : slots[s].id = order[j]}
           f == [j \in J |-> CHOOSE s \in Slots : slots[s].id = order[j]]
<1>4. \A s \in Slots : \E j \in J : f[j] = s
  <2> SUFFICES ASSUME NEW s \in Slots PROVE \E j \in J : f[j] = s
    OBVIOUS
  <2>1. PICK j \in 1 .. n : slots[s].id = order[j]
    BY <1>3
  <2>2. slots[s].id # NoBank
    BY DEF EmptySlots
  <2>3. \A t \in Slots : slots[t].id = order[j] => t = s
    BY <2>1, <2>2 DEF IInv, SlotsAreTheBanksHeld
  <2> QED BY <2>1, <2>3
<1>5. f \in Surjection(J, Slots)
  BY <1>4 DEF Surjection
<1>6. J \in SUBSET (1 .. n)
  OBVIOUS
<1> HIDE DEF J, f
<1>7. IsFiniteSet(1 .. n) /\ Cardinality(1 .. n) = n /\ Cardinality(Slots) = NumSlots
  BY <1>2, FS_Interval, ConstantsAssumption DEF Slots
<1>8. IsFiniteSet(J) /\ Cardinality(J) <= n
  BY <1>6, <1>7, FS_Subset
<1>9. Cardinality(Slots) <= Cardinality(J) /\ Cardinality(J) \in Nat
  BY <1>5, <1>8, FS_Surjection, FS_CardinalityType
<1> QED BY <1>2, <1>7, <1>8, <1>9, ConstantsAssumption

\* A program of the file is taken, or a blank one.
LEMMA LoadTakes ==
    ASSUME IInv, NEW file \in Files, NEW order \in Orders(file), NEW bank \in 1 .. Size(file),
           NEW step \in Programs, Taken(file, order, bank, step), NEW c \in Instrumented,
           IF step \in DOMAIN file.banks[order[bank]].ins
           THEN c = file.banks[order[bank]].ins[step] ELSE c.instrument.blank,
           LoadProgram(order[bank], step, c.instrument, c.name, {}, "taken")
    PROVE  Taken(file, order, bank, step + 1)'
<1>1. /\ Size(file) \in Nat /\ order \in [1 .. Size(file) -> DOMAIN file.banks]
      /\ DOMAIN order = 1 .. Size(file)
      /\ DOMAIN file.banks \subseteq BankIds
      /\ \A j, k \in 1 .. Size(file) : order[j] = order[k] => j = k
  BY FileBanksInOrder
<1>2. \A j \in 1 .. Size(file) :
         /\ order[j] \in BankIds /\ DOMAIN file.banks[order[j]].ins \subseteq Programs
         /\ \A p \in DOMAIN file.banks[order[j]].ins : ~file.banks[order[j]].ins[p].instrument.blank
  BY <1>1, FileBanksInOrder
<1>3. PICK id \in BankIds : id = order[bank]
  BY <1>2
<1>4. ProgramLoaded(id, step, c.instrument, c.name)
  <2>1. c.instrument \in Instruments /\ c.name \in Names
    BY DEF Instrumented
  <2> QED BY <1>3, <2>1, LoadLoads
<1>5. \A j \in 1 .. Size(file), p \in Programs :
         /\ Passed(j, p, bank, step + 1) <=> Passed(j, p, bank, step) \/ (j = bank /\ p = step)
         /\ j < bank => Passed(j, p, bank, step)
  BY <1>1 DEF Passed, Programs
<1>6. \A j \in 1 .. Size(file), p \in Programs :
         p \in DOMAIN file.banks[order[j]].ins /\ Passed(j, p, bank, step) =>
            /\ ~ins[order[j]][p].blank /\ ~(j = bank /\ p = step)
            /\ ins[order[j]][p] = file.banks[order[j]].ins[p].instrument
  <2> SUFFICES ASSUME NEW j \in 1 .. Size(file), NEW p \in Programs,
                      p \in DOMAIN file.banks[order[j]].ins, Passed(j, p, bank, step)
               PROVE  /\ ~ins[order[j]][p].blank /\ ~(j = bank /\ p = step)
                      /\ ins[order[j]][p] = file.banks[order[j]].ins[p].instrument
    OBVIOUS
  <2>1. ins[order[j]][p] = file.banks[order[j]].ins[p].instrument
    BY <1>1 DEF Taken
  <2>2. ~(j = bank /\ p = step)
    BY <1>1 DEF Passed, Programs
  <2> QED BY <1>2, <2>1, <2>2
<1>7. ASSUME NEW b \in BankIds, NEW p \in Programs, ~ins'[b][p].blank
      PROVE  \E j \in DOMAIN order : /\ order[j] = b /\ p \in DOMAIN file.banks[b].ins
                                     /\ Passed(j, p, bank, step + 1)
  <2>1. CASE b = id /\ p = step
    <3>1. ~c.instrument.blank
      BY <1>4, <1>7, <2>1 DEF ProgramLoaded
    <3>2. step \in DOMAIN file.banks[order[bank]].ins
      BY <3>1
    <3> QED BY <1>1, <1>3, <1>5, <2>1, <3>2
  <2>2. CASE b # id \/ p # step
    <3>1. ~ins[b][p].blank
      BY <1>4, <1>7, <2>2 DEF ProgramLoaded
    <3>2. PICK j \in DOMAIN order : /\ order[j] = b /\ p \in DOMAIN file.banks[b].ins
                                    /\ Passed(j, p, bank, step)
      BY <3>1 DEF Taken
    <3> QED BY <1>1, <1>5, <3>2
  <2> QED BY <2>1, <2>2
<1>8. ASSUME NEW j \in DOMAIN order, NEW p \in DOMAIN file.banks[order[j]].ins,
             Passed(j, p, bank, step + 1)
      PROVE  /\ ins'[order[j]][p] = file.banks[order[j]].ins[p].instrument
             /\ \A s \in Slots : slots'[s].id = order[j] =>
                   slots'[s].ins_names[p] = file.banks[order[j]].ins[p].name
  <2>1. j \in 1 .. Size(file) /\ p \in Programs /\ order[j] \in BankIds
    BY <1>1, <1>2
  <2>2. CASE j = bank /\ p = step
    <3>1. c = file.banks[order[j]].ins[p]
      BY <2>2
    <3> QED BY <1>3, <1>4, <2>2, <3>1 DEF ProgramLoaded
  <2>3. CASE ~(j = bank /\ p = step)
    <3>1. Passed(j, p, bank, step)
      BY <1>5, <1>8, <2>1, <2>3
    <3>2. ~ins[order[j]][p].blank /\ ins[order[j]][p] = file.banks[order[j]].ins[p].instrument
      BY <1>6, <2>1, <3>1
    <3>3. order[j] # id \/ p # step
      BY <1>1, <1>3, <2>1, <2>3
    <3>4. ins'[order[j]][p] = ins[order[j]][p]
      BY <1>4, <2>1, <3>2, <3>3 DEF ProgramLoaded
    <3>5. ASSUME NEW s \in Slots, slots'[s].id = order[j]
          PROVE  slots'[s].ins_names[p] = file.banks[order[j]].ins[p].name
      <4>1. slots[s].id = order[j] /\ slots'[s].ins_names[p] = slots[s].ins_names[p]
        BY <1>4, <2>1, <3>2, <3>3, <3>5 DEF ProgramLoaded
      <4> QED BY <3>1, <4>1 DEF Taken
    <3> QED BY <3>2, <3>4, <3>5
  <2> QED BY <2>2, <2>3
<1>9. ASSUME NEW j \in DOMAIN order, j < bank, DOMAIN file.banks[order[j]].ins # {},
             NEW s \in Slots, slots'[s].id = order[j]
      PROVE  slots'[s].bank_name = file.banks[order[j]].name
  <2>1. j \in 1 .. Size(file) /\ order[j] \in BankIds
    BY <1>1, <1>2
  <2>2. PICK p \in Programs : p \in DOMAIN file.banks[order[j]].ins
    BY <1>2, <1>9, <2>1
  <2>3. ~ins[order[j]][p].blank
    BY <1>5, <1>6, <1>9, <2>1, <2>2
  <2>4. slots[s].id = order[j] /\ slots'[s].bank_name = slots[s].bank_name
    BY <1>4, <1>9, <2>1, <2>3 DEF ProgramLoaded
  <2> QED BY <1>9, <2>4 DEF Taken
<1> QED BY <1>7, <1>8, <1>9 DEF Taken, Passed

\* The name of a bank of the file is taken, if the bank is there.
LEMMA RenameTakes ==
    ASSUME IInv, NEW file \in Files, NEW order \in Orders(file), NEW bank \in 1 .. Size(file),
           Taken(file, order, bank, NumPrograms),
           \/ RenameBank(order[bank], file.banks[order[bank]].name, FALSE)
           \/ /\ UNCHANGED vars
              /\ \/ SlotsOf(order[bank]) = {}
                 \/ slots[CHOOSE s \in SlotsOf(order[bank]) : TRUE].bank_name
                       = file.banks[order[bank]].name
    PROVE  Taken(file, order, bank + 1, 0)'
<1>1. /\ Size(file) \in Nat /\ order \in [1 .. Size(file) -> DOMAIN file.banks]
      /\ DOMAIN order = 1 .. Size(file)
      /\ \A j, k \in 1 .. Size(file) : order[j] = order[k] => j = k
      /\ \A j \in 1 .. Size(file) :
            order[j] \in BankIds /\ DOMAIN file.banks[order[j]].ins \subseteq Programs
  BY FileBanksInOrder
<1>2. \A j \in 1 .. Size(file), p \in Programs :
         /\ Passed(j, p, bank + 1, 0) <=> Passed(j, p, bank, NumPrograms)
         /\ j < bank + 1 <=> j < bank \/ j = bank
  BY <1>1, ConstantsAssumption DEF Passed, Programs
<1>3. \A t \in Slots : slots[t].id = order[bank] =>
         \A s \in Slots : slots[s].id = order[bank] => s = t
  BY <1>1, ConstantsAssumption DEF IInv, SlotsAreTheBanksHeld
<1>4. /\ ins' = ins
      /\ \A s \in Slots : /\ slots'[s].id = slots[s].id /\ slots'[s].ins_names = slots[s].ins_names
                          /\ slots'[s].bank_name =
                                IF slots[s].id = order[bank] THEN file.banks[order[bank]].name
                                ELSE slots[s].bank_name
  <2>1. CASE RenameBank(order[bank], file.banks[order[bank]].name, FALSE)
    <3>1. PICK t \in Slots :
             /\ slots[t].id = order[bank]
             /\ slots' = [slots EXCEPT ![t].bank_name = file.banks[order[bank]].name]
             /\ ins' = ins
      BY <2>1 DEF RenameBank, IsFirst, SlotsOf
    <3>2. slots \in [Slots -> SlotRecords]
      BY DEF IInv, TypeOK
    <3>3. \A s \in Slots :
             /\ slots'[s].id = slots[s].id /\ slots'[s].ins_names = slots[s].ins_names
             /\ slots'[s].bank_name = IF s = t THEN file.banks[order[bank]].name
                                      ELSE slots[s].bank_name
      BY <3>1, <3>2 DEF SlotRecords
    <3> QED BY <1>3, <3>1, <3>3
  <2>2. CASE UNCHANGED vars /\ SlotsOf(order[bank]) = {}
    BY <2>2 DEF vars, SlotsOf
  <2>3. CASE /\ UNCHANGED vars
             /\ SlotsOf(order[bank]) # {}
             /\ slots[CHOOSE s \in SlotsOf(order[bank]) : TRUE].bank_name
                   = file.banks[order[bank]].name
    <3>1. PICK t \in SlotsOf(order[bank]) : slots[t].bank_name = file.banks[order[bank]].name
      BY <2>3
    <3>2. t \in Slots /\ slots[t].id = order[bank]
      BY DEF SlotsOf
    <3> QED BY <1>3, <2>3, <3>1, <3>2 DEF vars
  <2> QED BY <2>1, <2>2, <2>3
<1>5. ASSUME NEW b \in BankIds, NEW p \in Programs, ~ins'[b][p].blank
      PROVE  \E j \in DOMAIN order : /\ order[j] = b /\ p \in DOMAIN file.banks[b].ins
                                     /\ Passed(j, p, bank + 1, 0)
  <2>1. PICK j \in DOMAIN order : /\ order[j] = b /\ p \in DOMAIN file.banks[b].ins
                                  /\ Passed(j, p, bank, NumPrograms)
    BY <1>4, <1>5 DEF Taken
  <2> QED BY <1>1, <1>2, <2>1
<1>6. ASSUME NEW j \in DOMAIN order, NEW p \in DOMAIN file.banks[order[j]].ins,
             Passed(j, p, bank + 1, 0)
      PROVE  /\ ins'[order[j]][p] = file.banks[order[j]].ins[p].instrument
             /\ \A s \in Slots : slots'[s].id = order[j] =>
                   slots'[s].ins_names[p] = file.banks[order[j]].ins[p].name
  <2>1. Passed(j, p, bank, NumPrograms)
    BY <1>1, <1>2, <1>6
  <2> QED BY <1>4, <2>1 DEF Taken
<1>7. ASSUME NEW j \in DOMAIN order, j < bank + 1, DOMAIN file.banks[order[j]].ins # {},
             NEW s \in Slots, slots'[s].id = order[j]
      PROVE  slots'[s].bank_name = file.banks[order[j]].name
  <2>1. CASE j = bank
    BY <1>4, <1>7, <2>1
  <2>2. CASE j # bank
    <3>1. j < bank /\ order[j] # order[bank]
      BY <1>1, <1>2, <1>7, <2>2
    <3> QED BY <1>4, <1>7, <3>1 DEF Taken
  <2> QED BY <2>1, <2>2
<1> QED BY <1>5, <1>6, <1>7 DEF Taken, Passed

\* When a message of a file was taken, the file is taken as far as the message after it
\* has to find it.
LEMMA StepTakes ==
    ASSUME IInv, NEW m \in FileMessageSet, MessageOK(m),
           IF NothingToDo(m) THEN UNCHANGED vars ELSE Does(m),
           NEW file, NEW order, NEW bank, NEW step, IsStep(m, file, order, bank, step),
           Size(file) <= NumSlots, bank # 0 => Taken(file, order, bank, step)
    PROVE  /\ bank = 0 => Taken(file, order, 1, 0)'
           /\ bank \in 1 .. Size(file) /\ step < NumPrograms => Taken(file, order, bank, step + 1)'
           /\ bank \in 1 .. Size(file) /\ step = NumPrograms => Taken(file, order, bank + 1, 0)'
           /\ bank = Size(file) + 1 => Taken(file, order, bank, step)'
<1>1. file \in Files /\ order \in Orders(file) /\ step \in 0 .. NumPrograms
  BY DEF IsStep
<1>2. Size(file) \in Nat
  BY <1>1, FileBanksInOrder
<1>3. ASSUME bank = 0 PROVE Taken(file, order, 1, 0)'
  <2>1. m.kind = "clear"
    BY <1>3 DEF IsStep
  <2>2. ~NothingToDo(m)
    BY <2>1 DEF NothingToDo
  <2>3. ClearBanks(m.kind = "delete all")
    BY <2>1, <2>2 DEF Does
  <2>4. ClearBanks(FALSE)
    BY <2>1, <2>3 DEF ClearBanks
  <2> QED BY <1>1, <2>4, ClearStarts
<1>4. ASSUME bank \in 1 .. Size(file), step < NumPrograms
      PROVE  Taken(file, order, bank, step + 1)'
  <2>1. step \in Programs /\ Taken(file, order, bank, step)
    BY <1>1, <1>4, ConstantsAssumption DEF Programs
  <2>2. /\ m.bank = order[bank] /\ m.kind = "load" /\ m.program = step
        /\ IF step \in DOMAIN file.banks[order[bank]].ins
           THEN m.content = file.banks[order[bank]].ins[step]
           ELSE m.content.instrument.blank
    BY <1>4 DEF IsStep
  <2>3. m.content \in Instrumented
    BY <2>2 DEF MessageOK
  <2>4. ~NothingToDo(m)
    BY <1>1, <1>4, <2>1, <2>2, RoomForBank DEF NothingToDo
  <2>5. LoadProgram(order[bank], step, m.content.instrument, m.content.name, {}, "taken")
    BY <2>2, <2>4 DEF Does
  <2> QED BY <1>1, <1>4, <2>1, <2>2, <2>3, <2>5, LoadTakes
<1>5. ASSUME bank \in 1 .. Size(file), step = NumPrograms
      PROVE  Taken(file, order, bank + 1, 0)'
  <2>1. Taken(file, order, bank, NumPrograms)
    BY <1>2, <1>5
  <2>2. m.bank = order[bank] /\ m.goes # {} /\ m.kind = "rename bank"
        /\ m.content = file.banks[order[bank]].name
    BY <1>5 DEF IsStep
  <2>3. CASE NothingToDo(m)
    <3>1. UNCHANGED vars
      BY <2>3
    <3>2. \/ SlotsOf(order[bank]) = {}
          \/ slots[CHOOSE s \in SlotsOf(order[bank]) : TRUE].bank_name
                = file.banks[order[bank]].name
      BY <2>2, <2>3 DEF NothingToDo
    <3> QED BY <1>1, <1>5, <2>1, <3>1, <3>2, RenameTakes
  <2>4. CASE ~NothingToDo(m)
    <3>1. RenameBank(m.bank, m.content, m.goes = {})
      BY <2>2, <2>4 DEF Does
    <3>2. RenameBank(order[bank], file.banks[order[bank]].name, FALSE)
      BY <2>2, <3>1 DEF RenameBank
    <3> QED BY <1>1, <1>5, <2>1, <3>2, RenameTakes
  <2> QED BY <2>3, <2>4
<1>6. ASSUME bank = Size(file) + 1 PROVE Taken(file, order, bank, step)'
  <2>1. m.kind = "everything" /\ Taken(file, order, bank, step)
    BY <1>2, <1>6 DEF IsStep
  <2>2. ~NothingToDo(m)
    BY <2>1 DEF NothingToDo
  <2>3. MarkEverythingForNotification
    BY <2>1, <2>2 DEF Does
  <2> QED BY <2>1, <2>3, TellingIsSameBanks, TakenKept
<1> QED BY <1>3, <1>4, <1>5, <1>6

-----------------------------------------------------------------------------
(* The invariant.                                                          *)

\* A note to a message of no file.
NoNote == [ofFile |-> FALSE]

\* New messages come behind those that wait, each with a note.
LEMMA MessagesCome ==
    ASSUME NEW notes, Noted(notes), FilesTypeOK, SameBanks, silent' = silent,
           NEW new \in Seq(FileMessageSet), messages' = messages \o new,
           NEW add, DOMAIN add = 1 .. Len(new),
           \A k \in 1 .. Len(new) :
              IF add[k].ofFile
              THEN /\ IsStep(new[k], add[k].file, add[k].order, add[k].bank, add[k].step)
                   /\ add[k].bank > 0 => k > 1 /\ Follows(add[k], add[k - 1])
              ELSE IsAlone(new[k])
    PROVE  (\E all : Noted(all))'
<1>1. messages \in Seq(FileMessageSet)
  BY DEF FilesTypeOK
<1>2. PICK n \in Nat, l \in Nat : n = Len(messages) /\ l = Len(new)
  BY <1>1
<1>3. Len(messages') = n + l
  BY <1>1, <1>2
<1>4. \A k \in 1 .. n + l : messages'[k] = IF k <= n THEN messages[k] ELSE new[k - n]
  BY <1>1, <1>2
<1> DEFINE all == [k \in 1 .. n + l |-> IF k <= n THEN notes[k] ELSE add[k - n]]
<1>5. \A k \in 1 .. n : all[k] = notes[k]
  BY <1>2
<1>6. \A k \in n + 1 .. n + l : all[k] = add[k - n] /\ k - n \in 1 .. l /\ messages'[k] = new[k - n]
  BY <1>2, <1>4
<1>7. DOMAIN all = 1 .. Len(messages')
  BY <1>3
<1> HIDE DEF all
<1>8. ASSUME NEW k \in 1 .. n
      PROVE  IF all[k].ofFile
             THEN /\ IsStep(messages'[k], all[k].file, all[k].order, all[k].bank, all[k].step)
                  /\ all[k].bank > 0 /\ k > 1 => Follows(all[k], all[k - 1])
                  /\ all[k].bank > 0 /\ k = 1 =>
                        /\ silent'
                        /\ Size(all[k].file) <= NumSlots =>
                              Taken(notes[k].file, notes[k].order, notes[k].bank, notes[k].step)'
             ELSE IsAlone(messages'[k])
  <2>1. all[k] = notes[k] /\ messages'[k] = messages[k] /\ k \in 1 .. Len(messages)
    BY <1>2, <1>4, <1>5
  <2>2. k > 1 => all[k - 1] = notes[k - 1]
    BY <1>2, <1>5
  <2>3. CASE ~notes[k].ofFile
    BY <2>1, <2>3 DEF Noted
  <2>4. CASE notes[k].ofFile
    <3>1. /\ IsStep(messages[k], notes[k].file, notes[k].order, notes[k].bank, notes[k].step)
          /\ notes[k].bank > 0 /\ k > 1 => Follows(notes[k], notes[k - 1])
          /\ notes[k].bank > 0 /\ k = 1 =>
                /\ silent
                /\ Size(notes[k].file) <= NumSlots =>
                      Taken(notes[k].file, notes[k].order, notes[k].bank, notes[k].step)
      BY <2>1, <2>4 DEF Noted
    <3>2. Taken(notes[k].file, notes[k].order, notes[k].bank, notes[k].step) =>
             Taken(notes[k].file, notes[k].order, notes[k].bank, notes[k].step)'
      BY TakenKept
    <3> QED BY <2>1, <2>2, <2>4, <3>1, <3>2
  <2> QED BY <2>3, <2>4
<1>9. ASSUME NEW k \in n + 1 .. n + l
      PROVE  IF all[k].ofFile
             THEN /\ IsStep(messages'[k], all[k].file, all[k].order, all[k].bank, all[k].step)
                  /\ all[k].bank > 0 => k > 1 /\ Follows(all[k], all[k - 1])
             ELSE IsAlone(messages'[k])
  <2>1. all[k] = add[k - n] /\ messages'[k] = new[k - n] /\ k - n \in 1 .. Len(new)
    BY <1>2, <1>6
  <2>2. k - n > 1 => all[k - 1] = add[k - n - 1] /\ k > 1
    <3> SUFFICES ASSUME k - n > 1 PROVE all[k - 1] = add[k - n - 1] /\ k > 1
      OBVIOUS
    <3>1. k - 1 \in n + 1 .. n + l /\ (k - 1) - n = k - n - 1
      BY <1>2
    <3> QED BY <1>2, <1>6, <3>1
  <2>3. (k - n) - 1 = k - n - 1
    BY <1>2
  <2> QED BY <2>1, <2>2, <2>3
<1>10. Noted(all)'
  <2>1. ASSUME NEW k \in 1 .. Len(messages')
        PROVE  IF all[k].ofFile
               THEN /\ IsStep(messages'[k], all[k].file, all[k].order, all[k].bank, all[k].step)
                    /\ all[k].bank > 0 /\ k > 1 => Follows(all[k], all[k - 1])
                    /\ all[k].bank > 0 /\ k = 1 =>
                          /\ silent'
                          /\ Size(all[k].file) <= NumSlots =>
                                Taken(all[k].file, all[k].order, all[k].bank, all[k].step)'
               ELSE IsAlone(messages'[k])
    <3>1. CASE k \in 1 .. n
      BY <1>5, <1>8, <3>1
    <3>2. CASE k \in n + 1 .. n + l
      BY <1>9, <3>2
    <3> QED BY <1>2, <1>3, <3>1, <3>2
  <2> QED BY <1>7, <2>1 DEF Noted
<1> QED BY <1>10

\* The file that was taken last is as it was while the banks are.
LEMMA LoadedKept ==
    ASSUME FilesIInv, SameBanks, loaded' = loaded
    PROVE  AllTaken'
<1>1. PICK file : file = loaded
  OBVIOUS
<1>2. AllTaken
  BY DEF FilesIInv
<1>3. file # NoFile =>
         /\ file \in Files
         /\ Size(file) <= NumSlots =>
               \E order \in Orders(file) : Taken(file, order, Size(file) + 1, 0)
  BY <1>1, <1>2 DEF AllTaken
<1>4. \A order : Taken(file, order, Size(file) + 1, 0) => Taken(file, order, Size(file) + 1, 0)'
  BY TakenKept
<1> QED BY <1>1, <1>3, <1>4 DEF AllTaken

\* Messages that come are messages, as those are that wait.
LEMMA MessagesTyped ==
    ASSUME FilesTypeOK, NEW new \in Seq(FileMessageSet), messages' = messages \o new,
           \A k \in 1 .. Len(new) : MessageOK(new[k])
    PROVE  /\ messages' \in Seq(FileMessageSet)
           /\ \A k \in 1 .. Len(messages') : MessageOK(messages'[k])
<1>1. messages \in Seq(FileMessageSet)
  BY DEF FilesTypeOK
<1>2. PICK n \in Nat, l \in Nat : n = Len(messages) /\ l = Len(new) /\ Len(messages') = n + l
  BY <1>1
<1>3. messages' \in Seq(FileMessageSet)
  BY <1>1
<1>4. ASSUME NEW k \in 1 .. n + l PROVE MessageOK(messages'[k])
  <2>1. CASE k <= n
    <3>1. messages'[k] = messages[k] /\ k \in 1 .. Len(messages)
      BY <1>1, <1>2, <2>1
    <3> QED BY <3>1 DEF FilesTypeOK
  <2>2. CASE k > n
    <3>1. messages'[k] = new[k - n] /\ k - n \in 1 .. Len(new)
      BY <1>1, <1>2, <2>2
    <3> QED BY <3>1
  <2> QED BY <1>2, <2>1, <2>2
<1> QED BY <1>2, <1>3, <1>4

\* What the messages and the files are does not change while nothing of it is written.
LEMMA OthersKeep ==
    ASSUME FilesIInv, MirrorIInv', FilesTypeOK', SameBanks,
           UNCHANGED <<messages, loaded, silent>>
    PROVE  FilesIInv'
<1>1. PICK notes : Noted(notes)
  BY DEF FilesIInv
<1>2. messages \in Seq(FileMessageSet)
  BY DEF FilesIInv, FilesTypeOK
<1>3. PICK new \in Seq(FileMessageSet) : new = <<>> /\ messages' = messages \o new
  <2>1. <<>> \in Seq(FileMessageSet) /\ messages' = messages \o <<>>
    BY <1>2
  <2> QED BY <2>1
<1>4. (\E all : Noted(all))'
  <2>1. PICK add : DOMAIN add = {}
    OBVIOUS
  <2>2. Len(new) = 0
    BY <1>3
  <2>3. DOMAIN add = 1 .. Len(new)
    BY <2>1, <2>2
  <2>4. \A k : k \notin 1 .. Len(new)
    BY <2>2
  <2> QED BY <1>1, <1>3, <2>3, <2>4, MessagesCome DEF FilesIInv
<1>5. AllTaken'
  BY LoadedKept
<1> QED BY <1>4, <1>5 DEF FilesIInv

\* The steps of a file, from the first to the last.
LEMMA StepsOfFile ==
    ASSUME NEW m, NEW file, NEW order, NEW bank, NEW step, IsStep(m, file, order, bank, step)
    PROVE  /\ file \in Files /\ order \in Orders(file) /\ Size(file) \in Nat
           /\ bank \in Nat /\ bank <= Size(file) + 1 /\ step \in Nat /\ step <= NumPrograms
           /\ bank = 0 => step = NumPrograms /\ m.kind = "clear"
           /\ bank = Size(file) + 1 => step = 0 /\ m.kind = "everything" /\ m.content = file
<1>1. file \in Files /\ order \in Orders(file)
  BY DEF IsStep
<1>2. Size(file) \in Nat
  BY <1>1, FileBanksInOrder
<1>3. bank \in 0 .. Size(file) + 1 /\ step \in 0 .. NumPrograms
  BY DEF IsStep
<1>4. bank \in Nat /\ bank <= Size(file) + 1 /\ step \in Nat /\ step <= NumPrograms
  BY <1>2, <1>3, ConstantsAssumption
<1>5. /\ bank = 0 => step = NumPrograms /\ m.kind = "clear"
      /\ bank = Size(file) + 1 => step = 0 /\ m.kind = "everything" /\ m.content = file
  BY DEF IsStep
<1> QED BY <1>1, <1>2, <1>4, <1>5

\* Between the first and the last are the programs and the names of the banks.
LEMMA KindOfStep ==
    ASSUME NEW m, NEW file, NEW order, NEW bank, NEW step, IsStep(m, file, order, bank, step),
           bank \in 1 .. Size(file)
    PROVE  m.kind \in {"load", "rename bank"}
<1>1. step < NumPrograms => m.kind = "load"
  BY DEF IsStep
<1>2. step = NumPrograms => m.kind = "rename bank"
  BY DEF IsStep
<1>3. step < NumPrograms \/ step = NumPrograms
  BY StepsOfFile, ConstantsAssumption
<1> QED BY <1>1, <1>2, <1>3

\* The message that is taken goes, and the next one finds its file taken so far.
LEMMA HandleKeepsNotes ==
    ASSUME IInv, FilesTypeOK, HandleFileMessage, NEW notes, Noted(notes)
    PROVE  (\E all : Noted(all))'
<1>1. messages \in Seq(FileMessageSet)
  BY DEF FilesTypeOK
<1>2. PICK m \in FileMessageSet :
         /\ m = messages[1] /\ MessageOK(m) /\ Len(messages) > 0
         /\ messages' = Tail(messages)
         /\ IF NothingToDo(m) THEN UNCHANGED vars ELSE Does(m)
         /\ silent' = (m.kind # "everything" /\ (silent \/ m.kind = "clear"))
  BY MessageTaken
<1>3. PICK n \in Nat : n = Len(messages) /\ n > 0 /\ Len(messages') = n - 1
  BY <1>1, <1>2
<1>4. \A k \in 1 .. n - 1 : messages'[k] = messages[k + 1] /\ k + 1 \in 1 .. n
  BY <1>1, <1>2, <1>3
<1> DEFINE all == [k \in 1 .. n - 1 |-> notes[k + 1]]
<1>5. DOMAIN all = 1 .. Len(messages') /\ \A k \in 1 .. n - 1 : all[k] = notes[k + 1]
  BY <1>3
<1> HIDE DEF all
<1>6. ASSUME NEW k \in 1 .. n - 1, k > 1
      PROVE  all[k - 1] = notes[k]
  <2>1. k - 1 \in 1 .. n - 1 /\ (k - 1) + 1 = k
    BY <1>6
  <2> QED BY <1>5, <2>1
<1>7. ASSUME 1 \in 1 .. n - 1, notes[2].ofFile, notes[2].bank > 0
      PROVE  /\ silent'
             /\ Size(notes[2].file) <= NumSlots =>
                   Taken(notes[2].file, notes[2].order, notes[2].bank, notes[2].step)'
  <2>1. 2 \in 1 .. Len(messages) /\ 1 \in 1 .. Len(messages) /\ 2 > 1 /\ 2 - 1 = 1
    BY <1>3, <1>7
  <2>2. /\ IsStep(messages[2], notes[2].file, notes[2].order, notes[2].bank, notes[2].step)
        /\ Follows(notes[2], notes[1])
    BY <1>7, <2>1 DEF Noted
  <2>3. PICK file \in Files : file = notes[2].file
    BY <2>2 DEF IsStep
  <2>4. PICK order \in Orders(file) : order = notes[2].order
    BY <2>2, <2>3 DEF IsStep
  <2>5. PICK bank \in Nat : bank = notes[2].bank /\ bank > 0 /\ bank <= Size(file) + 1
    <3>1. notes[2].bank \in Nat /\ notes[2].bank <= Size(notes[2].file) + 1
      BY <2>2, StepsOfFile
    <3> QED BY <1>7, <2>3, <3>1
  <2>6. PICK step \in Nat : step = notes[2].step
    BY <2>2, StepsOfFile
  <2>7. /\ notes[1].ofFile /\ notes[1].file = file /\ notes[1].order = order
        /\ step > 0 => notes[1].bank = bank /\ notes[1].step = step - 1
        /\ step = 0 => notes[1].bank = bank - 1 /\ notes[1].step = NumPrograms
    BY <2>2, <2>3, <2>4, <2>5, <2>6 DEF Follows
  <2>8. Size(file) \in Nat
    BY FileBanksInOrder
  <2>9. PICK bank1 \in Nat : bank1 = notes[1].bank
    <3>1. CASE step > 0
      BY <2>5, <2>7, <3>1
    <3>2. CASE step = 0
      BY <2>5, <2>7, <3>2
    <3> QED BY <2>6, <3>1, <3>2
  <2>10. PICK step1 \in Nat : step1 = notes[1].step
    <3>1. CASE step > 0
      BY <2>6, <2>7, <3>1
    <3>2. CASE step = 0
      BY <2>7, <3>2, ConstantsAssumption
    <3> QED BY <2>6, <3>1, <3>2
  <2>11. /\ IsStep(m, file, order, bank1, step1)
         /\ bank1 > 0 => /\ silent
                         /\ Size(file) <= NumSlots => Taken(file, order, bank1, step1)
    BY <1>2, <2>1, <2>7, <2>9, <2>10 DEF Noted
  <2>12. bank1 \in 0 .. Size(file) + 1 /\ step1 \in 0 .. NumPrograms
    BY <2>11 DEF IsStep
  <2>13. bank1 # Size(file) + 1
    <3>1. CASE step > 0
      <4>1. bank # Size(file) + 1
        <5>1. IsStep(messages[2], file, order, bank, step)
          BY <2>2, <2>3, <2>4, <2>5, <2>6
        <5>2. bank = Size(file) + 1 => step = 0
          BY <5>1, StepsOfFile
        <5> QED BY <3>1, <5>2
      <4> QED BY <2>7, <2>9, <3>1, <4>1
    <3>2. CASE step = 0
      BY <2>5, <2>7, <2>8, <2>9, <3>2
    <3> QED BY <2>6, <3>1, <3>2
  <2>14. m.kind \in {"clear", "load", "rename bank"} /\ (bank1 = 0 => m.kind = "clear")
    <3>1. bank1 = 0 => m.kind = "clear"
      BY <2>11, StepsOfFile
    <3>2. ASSUME bank1 # 0 PROVE bank1 \in 1 .. Size(file)
      BY <2>8, <2>9, <2>12, <2>13, <3>2
    <3>3. ASSUME bank1 \in 1 .. Size(file) PROVE m.kind \in {"load", "rename bank"}
      BY <2>11, <3>3, KindOfStep
    <3> QED BY <3>1, <3>2, <3>3
  <2>15. silent'
    <3>1. m.kind # "everything"
      BY <2>14
    <3>2. silent \/ m.kind = "clear"
      <4>1. CASE bank1 = 0
        BY <2>14, <4>1
      <4>2. CASE bank1 > 0
        BY <2>11, <4>2
      <4> QED BY <4>1, <4>2
    <3> QED BY <1>2, <3>1, <3>2
  <2>16. ASSUME Size(file) <= NumSlots PROVE Taken(file, order, bank, step)'
    <3>1. bank1 # 0 => Taken(file, order, bank1, step1)
      BY <2>9, <2>11, <2>16
    <3>2. /\ bank1 = 0 => Taken(file, order, 1, 0)'
          /\ bank1 \in 1 .. Size(file) /\ step1 < NumPrograms
                => Taken(file, order, bank1, step1 + 1)'
          /\ bank1 \in 1 .. Size(file) /\ step1 = NumPrograms
                => Taken(file, order, bank1 + 1, 0)'
      BY <1>2, <2>11, <2>16, <3>1, StepTakes
    <3>3. CASE bank1 = 0
      <4>1. step1 = NumPrograms
        BY <2>11, <3>3 DEF IsStep
      <4>2. bank = 1 /\ step = 0
        <5>1. step = 0
          BY <2>5, <2>6, <2>7, <2>9, <3>3
        <5> QED BY <2>5, <2>7, <2>9, <3>3, <5>1
      <4> QED BY <3>2, <3>3, <4>2
    <3>4. CASE bank1 # 0 /\ step > 0
      <4>1. bank1 = bank /\ step1 = step - 1 /\ bank1 \in 1 .. Size(file)
        BY <2>5, <2>7, <2>8, <2>9, <2>10, <2>12, <2>13, <3>4
      <4>2. step1 + 1 = step
        BY <2>6, <2>10, <4>1
      <4>3. step1 < NumPrograms
        <5>1. step \in 0 .. NumPrograms
          BY <2>2, <2>6 DEF IsStep
        <5> QED BY <2>6, <2>10, <4>2, <5>1, ConstantsAssumption
      <4> QED BY <3>2, <4>1, <4>2, <4>3
    <3>5. CASE bank1 # 0 /\ step = 0
      <4>1. bank1 = bank - 1 /\ step1 = NumPrograms /\ bank1 \in 1 .. Size(file)
        BY <2>5, <2>7, <2>8, <2>9, <2>10, <2>12, <2>13, <3>5
      <4>2. bank1 + 1 = bank
        BY <2>5, <2>9, <4>1
      <4> QED BY <3>2, <3>5, <4>1, <4>2
    <3> QED BY <2>6, <3>3, <3>4, <3>5
  <2> QED BY <2>3, <2>4, <2>5, <2>6, <2>15, <2>16
<1>8. ASSUME NEW k \in 1 .. n - 1
      PROVE  IF all[k].ofFile
             THEN /\ IsStep(messages'[k], all[k].file, all[k].order, all[k].bank, all[k].step)
                  /\ all[k].bank > 0 /\ k > 1 => Follows(all[k], all[k - 1])
                  /\ all[k].bank > 0 /\ k = 1 =>
                        /\ silent'
                        /\ Size(all[k].file) <= NumSlots =>
                              Taken(all[k].file, all[k].order, all[k].bank, all[k].step)'
             ELSE IsAlone(messages'[k])
  <2>1. all[k] = notes[k + 1] /\ messages'[k] = messages[k + 1] /\ k + 1 \in 1 .. Len(messages)
    BY <1>3, <1>4, <1>5
  <2>2. /\ notes[k + 1].ofFile =>
              /\ IsStep(messages[k + 1], notes[k + 1].file, notes[k + 1].order,
                        notes[k + 1].bank, notes[k + 1].step)
              /\ notes[k + 1].bank > 0 => Follows(notes[k + 1], notes[k])
        /\ ~notes[k + 1].ofFile => IsAlone(messages[k + 1])
    <3>1. k + 1 > 1 /\ (k + 1) - 1 = k
      OBVIOUS
    <3> QED BY <2>1, <3>1 DEF Noted
  <2>3. k > 1 => all[k - 1] = notes[k]
    BY <1>6
  <2>4. CASE k = 1
    <3>1. k + 1 = 2 /\ 1 \in 1 .. n - 1
      BY <2>4
    <3> QED BY <1>7, <2>1, <2>2, <2>4, <3>1
  <2>5. CASE k # 1
    BY <2>1, <2>2, <2>3, <2>5
  <2> QED BY <2>4, <2>5
<1>9. Noted(all)'
  BY <1>3, <1>5, <1>8 DEF Noted
<1> QED BY <1>9

\* Everything holds after a message was taken, and no program went but those of the message.
LEMMA HandleKeeps ==
    ASSUME FilesIInv, HandleFileMessage
    PROVE  FilesIInv' /\ GoesAsConfirmed
<1>1. MirrorIInv /\ FilesTypeOK /\ IInv
  BY DEF FilesIInv, MirrorIInv
<1>2. PICK notes : Noted(notes)
  BY DEF FilesIInv
<1>3. PICK m \in FileMessageSet :
         /\ m = Head(messages) /\ m = messages[1] /\ MessageOK(m) /\ Len(messages) > 0
         /\ messages' = Tail(messages)
         /\ IF NothingToDo(m) THEN UNCHANGED vars ELSE Does(m)
         /\ silent' = (m.kind # "everything" /\ (silent \/ m.kind = "clear"))
         /\ loaded' = IF m.kind = "everything" THEN m.content ELSE NoFile
         /\ UNCHANGED <<mq_to_ui, instrument_map, dialog, box, bankFile, insFile>>
  BY <1>1, MessageTaken
<1>4. messages \in Seq(FileMessageSet) /\ 1 \in 1 .. Len(messages)
  BY <1>1, <1>3 DEF FilesTypeOK
<1>5. IF notes[1].ofFile
      THEN /\ IsStep(m, notes[1].file, notes[1].order, notes[1].bank, notes[1].step)
           /\ notes[1].bank > 0 =>
                 /\ silent
                 /\ Size(notes[1].file) <= NumSlots =>
                       Taken(notes[1].file, notes[1].order, notes[1].bank, notes[1].step)
      ELSE IsAlone(m)
  BY <1>2, <1>3, <1>4 DEF Noted
<1>6. IsSilent(m) => silent \/ m.kind = "clear"
  <2>1. CASE notes[1].ofFile
    <3>1. IsStep(m, notes[1].file, notes[1].order, notes[1].bank, notes[1].step)
      BY <1>5, <2>1
    <3>2. notes[1].bank \in Nat /\ (notes[1].bank = 0 => m.kind = "clear")
      BY <3>1, StepsOfFile
    <3>3. CASE notes[1].bank = 0
      BY <3>2, <3>3
    <3>4. CASE notes[1].bank > 0
      BY <1>5, <2>1, <3>4
    <3> QED BY <3>2, <3>3, <3>4
  <2>2. CASE ~notes[1].ofFile
    BY <1>5, <2>2 DEF IsAlone, IsSilent
  <2> QED BY <2>1, <2>2
<1>7. MirrorIInv' /\ IInv'
  <2>1. MirrorIInv'
    BY <1>1, <1>3, <1>6, HandleKeepsMirror
  <2> QED BY <2>1 DEF MirrorIInv
<1>8. FilesTypeOK'
  <2>1. messages' \in Seq(FileMessageSet) /\ Len(messages') = Len(messages) - 1
        /\ \A k \in 1 .. Len(messages') : messages'[k] = messages[k + 1]
                                          /\ k + 1 \in 1 .. Len(messages)
    BY <1>3, <1>4
  <2>2. \A k \in 1 .. Len(messages') : MessageOK(messages'[k])
    BY <1>1, <2>1 DEF FilesTypeOK
  <2> QED BY <1>1, <1>3, <2>1, <2>2 DEF FilesTypeOK
<1>9. (\E all : Noted(all))'
  BY <1>1, <1>2, HandleKeepsNotes
<1>10. AllTaken'
  <2>1. CASE m.kind # "everything"
    BY <1>3, <2>1 DEF AllTaken
  <2>2. CASE m.kind = "everything"
    <3>1. notes[1].ofFile
      BY <1>5, <2>2 DEF IsAlone
    <3>2. PICK file : file = notes[1].file
      OBVIOUS
    <3>3. PICK order : order = notes[1].order
      OBVIOUS
    <3>4. PICK bank : bank = notes[1].bank
      OBVIOUS
    <3>5. PICK step : step = notes[1].step
      OBVIOUS
    <3>6. IsStep(m, file, order, bank, step)
      BY <1>5, <3>1, <3>2, <3>3, <3>4, <3>5
    <3>7. /\ file \in Files /\ order \in Orders(file) /\ Size(file) \in Nat
          /\ bank \in Nat /\ bank <= Size(file) + 1 /\ step \in Nat
          /\ bank = 0 => m.kind = "clear"
      BY <3>6, StepsOfFile
    <3>8. bank = Size(file) + 1 => step = 0 /\ m.content = file
      BY <3>6, <3>7, StepsOfFile
    <3>9. bank # 0 /\ bank # Size(file) + 1 => m.kind # "everything"
      <4>1. ASSUME bank # 0, bank # Size(file) + 1 PROVE bank \in 1 .. Size(file)
        BY <3>7, <4>1
      <4>2. ASSUME bank \in 1 .. Size(file) PROVE m.kind # "everything"
        BY <3>6, <4>2, KindOfStep
      <4> QED BY <4>1, <4>2
    <3>10. bank # 0 /\ bank = Size(file) + 1
      <4>1. bank # 0
        BY <2>2, <3>7
      <4>2. CASE bank # Size(file) + 1
        BY <2>2, <3>9, <4>1, <4>2
      <4> QED BY <4>1, <4>2
    <3>11. loaded' = file /\ step = 0
      BY <1>3, <2>2, <3>8, <3>10
    <3>12. ASSUME Size(file) <= NumSlots PROVE Taken(file, order, Size(file) + 1, 0)'
      <4>1. bank > 0
        BY <3>7, <3>10
      <4>2. Taken(file, order, bank, step)
        BY <1>5, <3>1, <3>2, <3>3, <3>4, <3>5, <3>12, <4>1
      <4>3. bank = Size(file) + 1 => Taken(file, order, bank, step)'
        BY <1>1, <1>3, <3>6, <3>12, <4>2, StepTakes
      <4> QED BY <3>10, <3>11, <4>3
    <3> QED BY <3>7, <3>11, <3>12 DEF AllTaken
  <2> QED BY <2>1, <2>2
<1>11. GoesAsConfirmed
  <2> SUFFICES ASSUME NEW x \in ProgramsThere, x \notin ProgramsThere'
               PROVE  messages # <<>> /\ messages' = Tail(messages) /\ x \in Head(messages).goes
    BY DEF GoesAsConfirmed
  <2>1. ProgramsThere = {y \in Places2 : ~ins[y[1]][y[2]].blank}
    BY <1>1, ThereIsNotBlank
  <2>2. ProgramsThere' = {y \in Places2 : ~ins'[y[1]][y[2]].blank}
    BY <1>7, ThereIsNotBlankAfter
  <2>3. x \in Places2 /\ ~ins[x[1]][x[2]].blank /\ ins'[x[1]][x[2]].blank
    BY <2>1, <2>2
  <2>4. x[1] \in BankIds /\ x[2] \in Programs /\ x = <<x[1], x[2]>>
    BY <2>3 DEF Places2
  <2>5. ~NothingToDo(m)
    <3>1. ins' # ins
      BY <2>3
    <3> QED BY <1>3, <3>1 DEF vars
  <2>6. <<x[1], x[2]>> \in m.goes
    BY <1>1, <1>3, <2>3, <2>4, <2>5, OnlyThoseGo
  <2> QED BY <1>3, <2>4, <2>6
<1> QED BY <1>7, <1>8, <1>9, <1>10, <1>11 DEF FilesIInv

-----------------------------------------------------------------------------
(* The editor sends messages.                                              *)

\* Nothing of the banks and of what the editor was told changes.
LEMMA EditorStepKeepsMirror ==
    ASSUME FilesIInv, UNCHANGED mirror_vars
    PROVE  MirrorIInv' /\ SameBanks /\ silent' = silent
<1>1. MirrorIInv'
  BY MirrorNextKeeps DEF FilesIInv
<1> QED BY <1>1 DEF mirror_vars, SameBanks

\* Messages of a dialog come behind those that wait.
LEMMA DialogIsSent ==
    ASSUME FilesIInv, UNCHANGED mirror_vars, UNCHANGED <<box, bankFile, insFile, loaded>>,
           dialog' = Closed,
           NEW new \in Seq(FileMessageSet), messages' = messages \o new,
           \A k \in 1 .. Len(new) : MessageOK(new[k]) /\ IsAlone(new[k])
    PROVE  FilesIInv'
<1>1. MirrorIInv' /\ SameBanks /\ silent' = silent
  BY EditorStepKeepsMirror
<1>2. PICK notes : Noted(notes)
  BY DEF FilesIInv
<1>3. FilesTypeOK /\ messages \in Seq(FileMessageSet)
  BY DEF FilesIInv, FilesTypeOK
<1> DEFINE add == [k \in 1 .. Len(new) |-> NoNote]
<1>4. DOMAIN add = 1 .. Len(new) /\ \A k \in 1 .. Len(new) : ~add[k].ofFile
  BY DEF NoNote
<1> HIDE DEF add
<1>5. (\E all : Noted(all))'
  BY <1>1, <1>2, <1>3, <1>4, MessagesCome
<1>6. FilesTypeOK'
  BY <1>3, MessagesTyped DEF FilesTypeOK
<1> QED BY <1>1, <1>5, <1>6, LoadedKept DEF FilesIInv

\* The record of a message.
LEMMA MessageType ==
    ASSUME NEW kind \in {"load", "load told", "create", "delete program", "delete bank",
                         "delete all", "clear", "rename bank", "rename program", "everything"},
           NEW b \in BankIds, NEW p \in Programs,
           NEW content \in Instrumented \cup Names \cup Files \cup {NoFile},
           NEW goes \in SUBSET Places2
    PROVE  [kind |-> kind, bank |-> b, program |-> p, content |-> content, goes |-> goes]
              \in FileMessageSet
BY DEF FileMessageSet, MessageKinds

\* A dialog that is open is about a program and its names.
LEMMA OpenDialogHas ==
    ASSUME FilesIInv, dialog.kind # "none"
    PROVE  /\ dialog.kind \in DialogKinds /\ dialog.pgm_name \in Names /\ dialog.bank_name \in Names
           /\ \E b \in BankIds, p \in Programs :
                 dialog.place = <<b, p>> /\ dialog.place[1] = b /\ dialog.place[2] = p
<1>1. dialog # Closed
  BY DEF Closed
<1>2. dialog \in Dialogs
  BY <1>1 DEF FilesIInv, FilesTypeOK
<1>3. dialog.place \in Places2
  BY <1>2 DEF Dialogs
<1>4. PICK b \in BankIds, p \in Programs : dialog.place = <<b, p>>
  BY <1>3 DEF Places2
<1>5. dialog.place[1] = b /\ dialog.place[2] = p
  BY <1>4
<1> QED BY <1>2, <1>4, <1>5 DEF Dialogs

\* What a confirmed box sends.
LEMMA ConfirmKeeps ==
    ASSUME FilesIInv, Confirm
    PROVE  FilesIInv'
<1>1. dialog.kind \in {"delete program", "delete bank", "delete all"}
  BY DEF Confirm
<1>2. PICK b \in BankIds, p \in Programs :
         dialog.place = <<b, p>> /\ dialog.place[1] = b /\ dialog.place[2] = p
  BY <1>1, OpenDialogHas
<1>3. 0 \in Programs
  BY ConstantsAssumption DEF Programs
<1>4. SaidToGo(dialog) \in SUBSET Places2
  <2>1. dialog.place \in Places2
    BY <1>2 DEF Places2
  <2>2. CASE dialog.kind = "delete program"
    BY <2>1, <2>2 DEF SaidToGo
  <2>3. CASE dialog.kind = "delete bank"
    BY <2>3 DEF SaidToGo
  <2>4. CASE dialog.kind = "delete all"
    BY <2>4 DEF SaidToGo
  <2> QED BY <1>1, <2>2, <2>3, <2>4
<1>5. CASE dialog.kind = "delete bank"
  <2>1. PICK other \in SUBSET BankIds :
           /\ HalvesFrom(b) = IF other = {} THEN <<b>> ELSE <<b, CHOOSE c \in other : TRUE>>
           /\ \A c \in other : PseudoId[c] = PseudoId[b]
    <3>1. {c \in BankIds : PseudoId[c] = PseudoId[b] /\ c # b} \in SUBSET BankIds
      OBVIOUS
    <3> QED BY <3>1 DEF HalvesFrom
  <2>2. PICK halves \in Seq(BankIds) :
           halves = HalvesFrom(b) /\ \A k \in 1 .. Len(halves) : PseudoId[halves[k]] = PseudoId[b]
    <3>1. CASE other = {}
      <4>1. <<b>> \in Seq(BankIds) /\ Len(<<b>>) = 1 /\ <<b>>[1] = b
        OBVIOUS
      <4>2. \A k \in 1 .. 1 : k = 1
        OBVIOUS
      <4> QED BY <2>1, <3>1, <4>1, <4>2
    <3>2. CASE other # {}
      <4>1. PICK c \in other : HalvesFrom(b) = <<b, c>>
        BY <2>1, <3>2
      <4>2. <<b, c>> \in Seq(BankIds) /\ Len(<<b, c>>) = 2
        BY <4>1
      <4>3. \A k \in 1 .. 2 : PseudoId[<<b, c>>[k]] = PseudoId[b]
        BY <2>1
      <4> QED BY <4>1, <4>2, <4>3
    <3> QED BY <3>1, <3>2
  <2> DEFINE new == [k \in DOMAIN halves |->
                        Message("delete bank", <<halves[k], 0>>, NoFile, SaidToGo(dialog))]
  <2>3. messages' = messages \o new
    <3>1. HalvesFrom(dialog.place[1]) = halves
      BY <1>2, <2>2
    <3>2. messages' = messages \o
             [k \in DOMAIN HalvesFrom(dialog.place[1]) |->
                Message("delete bank", <<HalvesFrom(dialog.place[1])[k], 0>>, NoFile,
                        SaidToGo(dialog))]
      BY <1>5 DEF Confirm, Meant
    <3> QED BY <3>1, <3>2
  <2>4. DOMAIN halves = 1 .. Len(halves) /\ Len(halves) \in Nat
    OBVIOUS
  <2>5. ASSUME NEW k \in 1 .. Len(halves)
        PROVE  /\ new[k] \in FileMessageSet /\ MessageOK(new[k]) /\ IsAlone(new[k])
    <3>1. halves[k] \in BankIds /\ PseudoId[halves[k]] = PseudoId[b]
      BY <2>2
    <3>2. new[k] = [kind |-> "delete bank", bank |-> halves[k], program |-> 0,
                    content |-> NoFile, goes |-> SaidToGo(dialog)]
      BY <2>4 DEF Message
    <3>3. \A q \in Programs : <<halves[k], q>> \in SaidToGo(dialog)
      <4>1. SaidToGo(dialog) = {x \in Places2 : PseudoId[x[1]] = PseudoId[b]}
        BY <1>2, <1>5 DEF SaidToGo
      <4> QED BY <3>1, <4>1 DEF Places2
    <3>4. new[k] \in FileMessageSet
      BY <1>3, <1>4, <3>1, <3>2, MessageType
    <3>5. ASSUME NEW m, m = [kind |-> "delete bank", bank |-> halves[k], program |-> 0,
                             content |-> NoFile, goes |-> SaidToGo(dialog)]
          PROVE  MessageOK(m) /\ IsAlone(m)
      BY <3>3, <3>5 DEF MessageOK, IsAlone
    <3> QED BY <3>2, <3>4, <3>5
  <2>6. new \in Seq(FileMessageSet) /\ Len(new) = Len(halves)
    <3>1. DOMAIN new = 1 .. Len(halves) /\ new = [k \in 1 .. Len(halves) |-> new[k]]
      BY <2>4
    <3> HIDE DEF new
    <3>2. new \in [1 .. Len(halves) -> FileMessageSet]
      BY <2>5, <3>1
    <3> QED BY <2>4, <3>2
  <2> HIDE DEF new
  <2> QED BY <2>3, <2>5, <2>6, DialogIsSent DEF Confirm
<1>6. CASE dialog.kind # "delete bank"
  <2>1. PICK m : m = Message(dialog.kind, dialog.place, NoFile, SaidToGo(dialog))
    OBVIOUS
  <2>2. m = [kind |-> dialog.kind, bank |-> b, program |-> p, content |-> NoFile,
             goes |-> SaidToGo(dialog)]
    BY <1>2, <2>1 DEF Message
  <2>3. messages' = messages \o <<m>>
    BY <1>6, <2>1 DEF Confirm, Meant
  <2>4. m \in FileMessageSet
    BY <1>1, <1>4, <2>2, MessageType
  <2>5. MessageOK(m) /\ IsAlone(m)
    BY <1>1, <1>2, <1>6, <2>2 DEF MessageOK, IsAlone, SaidToGo
  <2>6. <<m>> \in Seq(FileMessageSet) /\ \A k \in 1 .. Len(<<m>>) : <<m>>[k] = m
    BY <2>4
  <2> QED BY <2>3, <2>5, <2>6, DialogIsSent DEF Confirm
<1> QED BY <1>5, <1>6

\* One message more.
LEMMA OneIsSent ==
    ASSUME FilesIInv, UNCHANGED mirror_vars, UNCHANGED <<box, bankFile, insFile, loaded>>,
           dialog' = Closed, NEW m \in FileMessageSet, MessageOK(m), IsAlone(m),
           messages' = Append(messages, m)
    PROVE  FilesIInv'
<1>1. messages \in Seq(FileMessageSet)
  BY DEF FilesIInv, FilesTypeOK
<1>2. messages' = messages \o <<m>>
  BY <1>1
<1>3. <<m>> \in Seq(FileMessageSet) /\ \A k \in 1 .. Len(<<m>>) : <<m>>[k] = m
  OBVIOUS
<1> QED BY <1>2, <1>3, DialogIsSent

\* What the dialogs of names send.
LEMMA NamesKeep ==
    ASSUME FilesIInv,
           \/ \E name \in Names : \E which \in {"bank", "program"} : EditOk(name, which)
           \/ \E place \in Places2 : AddOk(place)
    PROVE  FilesIInv'
<1>1. ASSUME NEW name \in Names, NEW which, EditOk(name, which) PROVE FilesIInv'
  <2>1. dialog.kind = "edit"
    BY <1>1 DEF EditOk
  <2>2. /\ dialog.pgm_name \in Names /\ dialog.bank_name \in Names
        /\ \E b \in BankIds, p \in Programs :
              dialog.place = <<b, p>> /\ dialog.place[1] = b /\ dialog.place[2] = p
    BY <2>1, OpenDialogHas
  <2>3. PICK b \in BankIds, p \in Programs : dialog.place[1] = b /\ dialog.place[2] = p
    BY <2>2
  <2>4. PICK bankName \in Names : bankName = IF which = "bank" THEN name ELSE dialog.bank_name
    BY <2>2
  <2>5. PICK pgmName \in Names : pgmName = IF which = "program" THEN name ELSE dialog.pgm_name
    BY <2>2
  <2>6. PICK m1, m2 :
           /\ m1 = [kind |-> "rename bank", bank |-> b, program |-> p, content |-> bankName,
                    goes |-> {}]
           /\ m2 = [kind |-> "rename program", bank |-> b, program |-> p, content |-> pgmName,
                    goes |-> {}]
    OBVIOUS
  <2>7. messages' = messages \o <<m1, m2>>
    BY <1>1, <2>3, <2>4, <2>5, <2>6 DEF EditOk, Message
  <2>8. m1 \in FileMessageSet /\ m2 \in FileMessageSet
    BY <2>6, MessageType
  <2>9. MessageOK(m1) /\ MessageOK(m2) /\ IsAlone(m1) /\ IsAlone(m2)
    BY <2>6 DEF MessageOK, IsAlone
  <2>10. /\ <<m1, m2>> \in Seq(FileMessageSet) /\ Len(<<m1, m2>>) = 2
         /\ \A k \in 1 .. 2 : <<m1, m2>>[k] \in {m1, m2}
    BY <2>8
  <2> QED BY <1>1, <2>7, <2>9, <2>10, DialogIsSent DEF EditOk
<1>2. ASSUME NEW place \in Places2, AddOk(place) PROVE FilesIInv'
  <2>1. PICK b \in BankIds, p \in Programs : place[1] = b /\ place[2] = p
    BY DEF Places2
  <2>2. PICK m : m = [kind |-> "create", bank |-> b, program |-> p, content |-> NewInstrument,
                      goes |-> {}]
    OBVIOUS
  <2>3. messages' = Append(messages, m)
    BY <1>2, <2>1, <2>2 DEF AddOk, Message
  <2>4. m \in FileMessageSet
    BY <2>2, FilesAssumption, MessageType
  <2>5. MessageOK(m) /\ IsAlone(m)
    BY <2>2, FilesAssumption DEF MessageOK, IsAlone
  <2> QED BY <1>2, <2>3, <2>4, <2>5, OneIsSent DEF AddOk
<1> QED BY <1>1, <1>2

\* What an instrument file sends.
LEMMA LoadInstrumentFileKeeps ==
    ASSUME FilesIInv, LoadInstrumentFile
    PROVE  FilesIInv'
<1>1. dialog.kind = "load instrument" /\ insFile # NoFile
  BY DEF LoadInstrumentFile
<1>2. insFile \in Instrumented
  BY <1>1 DEF FilesIInv, FilesTypeOK
<1>3. PICK b \in BankIds, p \in Programs :
         dialog.place = <<b, p>> /\ dialog.place[1] = b /\ dialog.place[2] = p
  BY <1>1, OpenDialogHas
<1>4. PICK m : m = [kind |-> "load told", bank |-> b, program |-> p, content |-> insFile,
                    goes |-> {<<b, p>>}]
  OBVIOUS
<1>5. messages' = Append(messages, m)
  BY <1>3, <1>4 DEF LoadInstrumentFile, Message
<1>6. m \in FileMessageSet
  <2>1. {<<b, p>>} \in SUBSET Places2
    BY DEF Places2
  <2> QED BY <1>2, <1>4, <2>1, MessageType
<1>7. MessageOK(m) /\ IsAlone(m)
  BY <1>2, <1>4 DEF MessageOK, IsAlone
<1> QED BY <1>5, <1>6, <1>7, OneIsSent DEF LoadInstrumentFile

-----------------------------------------------------------------------------
(* The editor sends a bank file.                                           *)

\* Dividing by the number of messages of a bank.
LEMMA Divided ==
    ASSUME NEW size \in Nat \ {0}, NEW x \in Nat
    PROVE  x \div size \in Nat /\ x % size \in 0 .. size - 1
OBVIOUS

\* The division of the number before.
LEMMA DividedBefore ==
    ASSUME NEW size \in Nat \ {0}, NEW x \in Nat \ {0}
    PROVE  IF x % size > 0
           THEN (x - 1) \div size = x \div size /\ (x - 1) % size = (x % size) - 1
           ELSE (x - 1) \div size = (x \div size) - 1 /\ (x - 1) % size = size - 1
OBVIOUS

\* A number below a product divides to one below the factor, and the product to the factor.
LEMMA DividedBound ==
    ASSUME NEW size \in Nat \ {0}, NEW n \in Nat, NEW x \in Nat
    PROVE  /\ x < n * size => x \div size < n
           /\ (n * size) \div size = n /\ (n * size) % size = 0
OBVIOUS

\* The messages of a bank are its steps: its programs, blank or not, and its name.
LEMMA BankMessageIsStep ==
    ASSUME NEW file \in Files, NEW order \in Orders(file), NEW bank \in 1 .. Size(file),
           NEW step \in 0 .. NumPrograms,
           NEW m, m = BankMessages(file.banks, order[bank])[step + 1]
    PROVE  m \in FileMessageSet /\ MessageOK(m) /\ IsStep(m, file, order, bank, step)
<1>1. Size(file) \in Nat /\ order[bank] \in DOMAIN file.banks
  BY FileBanksInOrder
<1>2. PICK b \in DOMAIN file.banks : b = order[bank]
  BY <1>1
<1>3. /\ b \in BankIds /\ file.banks[b].name \in Names
      /\ \A p \in DOMAIN file.banks[b].ins : file.banks[b].ins[p] \in Instrumented
  BY FileBanksTyped
<1>4. NumPrograms \in Nat \ {0} /\ 0 \in Programs /\ <<b, 0>> \in Places2
  BY <1>3, ConstantsAssumption DEF Programs, Places2
<1>5. PICK blank \in Instrumented : /\ blank = [instrument |-> BlankInstrument, name |-> NoName]
                                    /\ blank.instrument.blank
  <2>1. [instrument |-> BlankInstrument, name |-> NoName] \in Instrumented
    BY BlankType, ConstantsAssumption DEF Instrumented
  <2> QED BY <2>1, BlankType
<1> DEFINE OfProgram(p) == IF p \in DOMAIN file.banks[b].ins THEN file.banks[b].ins[p] ELSE blank
           loads == [k \in 1 .. NumPrograms |->
                        Message("load", <<b, k - 1>>, OfProgram(k - 1), Places2)]
           rename == Message("rename bank", <<b, 0>>, file.banks[b].name, Places2)
<1>6. BankMessages(file.banks, b) = loads \o <<rename>>
  BY <1>5 DEF BankMessages
<1>7. ASSUME NEW k \in 1 .. NumPrograms
      PROVE  loads[k] = [kind |-> "load", bank |-> b, program |-> k - 1,
                         content |-> OfProgram(k - 1), goes |-> Places2]
  BY <1>7 DEF Message
<1>8. rename = [kind |-> "rename bank", bank |-> b, program |-> 0,
                content |-> file.banks[b].name, goes |-> Places2]
  BY DEF Message
<1>9. \A p : OfProgram(p) \in Instrumented
  BY <1>3, <1>5
<1>10. \A k \in 1 .. NumPrograms : loads[k] \in FileMessageSet
  <2> SUFFICES ASSUME NEW k \in 1 .. NumPrograms PROVE loads[k] \in FileMessageSet
    OBVIOUS
  <2>1. k - 1 \in Programs /\ OfProgram(k - 1) \in Instrumented /\ Places2 \in SUBSET Places2
    BY <1>9, ConstantsAssumption DEF Programs
  <2>2. PICK content \in Instrumented :
            loads[k] = [kind |-> "load", bank |-> b, program |-> k - 1,
                        content |-> content, goes |-> Places2]
    BY <1>7, <2>1
  <2> HIDE DEF OfProgram, loads
  <2> QED BY <1>3, <2>1, <2>2, MessageType
<1>11. rename \in FileMessageSet
  BY <1>3, <1>4, <1>8, MessageType
<1>12. loads \in Seq(FileMessageSet) /\ Len(loads) = NumPrograms
  <2>1. loads \in [1 .. NumPrograms -> FileMessageSet]
    BY <1>10
  <2> HIDE DEF loads
  <2> QED BY <1>4, <2>1
<1>13. bank \in 0 .. Size(file) + 1 /\ bank # 0 /\ bank # Size(file) + 1
  BY <1>1
<1> HIDE DEF OfProgram, loads, rename
<1>14. CASE step < NumPrograms
  <2>1. step + 1 \in 1 .. NumPrograms /\ (step + 1) - 1 = step
    BY <1>4, <1>14
  <2>2. m = loads[step + 1]
    BY <1>2, <1>6, <1>11, <1>12, <2>1
  <2>3. m = [kind |-> "load", bank |-> b, program |-> step, content |-> OfProgram(step),
             goes |-> Places2]
    BY <1>7, <2>1, <2>2
  <2>4. m \in FileMessageSet
    BY <1>10, <2>1, <2>2
  <2>5. step \in Programs /\ <<b, step>> \in Places2
    BY <1>3, <1>4, <1>14 DEF Programs, Places2
  <2>6. MessageOK(m)
    BY <1>9, <2>3, <2>5 DEF MessageOK
  <2>7. IF step \in DOMAIN file.banks[b].ins THEN m.content = file.banks[b].ins[step]
        ELSE m.content.instrument.blank
    BY <1>5, <2>3 DEF OfProgram
  <2>8. m.bank = b /\ m.goes # {} /\ m.kind = "load" /\ m.program = step
    BY <2>3, <2>5
  <2>9. step # NumPrograms
    BY <1>4, <1>14
  <2> QED BY <1>2, <1>13, <1>14, <2>4, <2>6, <2>7, <2>8, <2>9 DEF IsStep
<1>15. CASE step = NumPrograms
  <2>1. m = rename
    BY <1>2, <1>4, <1>6, <1>11, <1>12, <1>15
  <2>2. PICK name, all :
           /\ name = file.banks[b].name /\ name \in Names /\ all = Places2
           /\ m = [kind |-> "rename bank", bank |-> b, program |-> 0, content |-> name,
                   goes |-> all]
    BY <1>3, <1>8, <2>1
  <2>3. m.bank = b /\ m.goes = all /\ m.kind = "rename bank" /\ m.content = name
    BY ONLY <2>2
  <2>4. MessageOK(m) /\ m.goes # {}
    BY <1>4, <2>2, <2>3 DEF MessageOK
  <2>5. ~(step < NumPrograms)
    BY <1>4, <1>15
  <2> QED BY <1>2, <1>11, <1>13, <1>15, <2>1, <2>2, <2>3, <2>4, <2>5 DEF IsStep
<1>16. step < NumPrograms \/ step = NumPrograms
  BY <1>4
<1> QED BY <1>14, <1>15, <1>16

\* The messages of a file: all banks go, the banks of the file come, the editor is told.
LEMMA FileMessagesAre ==
    ASSUME box \in Places2, NEW file \in Files, NEW order \in Orders(file)
    PROVE  \E new \in Seq(FileMessageSet), size \in Nat, total \in Nat :
              /\ new = FileMessages(file, order)
              /\ size = NumPrograms + 1 /\ total = Size(file) * size
              /\ Len(new) = total + 2
              /\ \A k \in 1 .. total + 2 : MessageOK(new[k])
              /\ new[1].kind = "clear"
              /\ new[total + 2].kind = "everything" /\ new[total + 2].content = file
              /\ \A x \in 0 .. total - 1 :
                    IsStep(new[x + 2], file, order, x \div size + 1, x % size)
<1>1. /\ Size(file) \in Nat /\ order \in [1 .. Size(file) -> DOMAIN file.banks]
  BY FileBanksInOrder
<1>2. PICK n \in Nat : n = Size(file) /\ Len(order) = n
  BY <1>1
<1>14. PICK size \in Nat : size = NumPrograms + 1
  BY ConstantsAssumption
<1>15. PICK total \in Nat : total = Size(file) * size /\ total = n * size
  BY <1>2
<1>16. PICK new : new = FileMessages(file, order)
  OBVIOUS
<1>3. PICK b \in BankIds, p \in Programs : box = <<b, p>> /\ box[1] = b /\ box[2] = p
  BY DEF Places2
<1> DEFINE clear == Message("clear", box, NoFile, Places2)
           end == Message("everything", box, file, {})
           banks == [j \in 1 .. Len(order) * size |->
                        BankMessages(file.banks, order[(j - 1) \div size + 1])[((j - 1) % size) + 1]]
<1>4. new = <<clear>> \o banks \o <<end>>
  BY <1>14, <1>16 DEF FileMessages
<1>5. clear \in FileMessageSet /\ MessageOK(clear) /\ clear.kind = "clear"
  <2>1. clear = [kind |-> "clear", bank |-> b, program |-> p, content |-> NoFile,
                 goes |-> Places2]
    BY <1>3 DEF Message
  <2>2. Places2 \in SUBSET Places2
    OBVIOUS
  <2> HIDE DEF clear
  <2>3. clear \in FileMessageSet
    BY <2>1, <2>2, MessageType
  <2> QED BY <2>1, <2>3 DEF MessageOK
<1>6. end \in FileMessageSet /\ MessageOK(end) /\ end.kind = "everything" /\ end.content = file
  <2>1. end = [kind |-> "everything", bank |-> b, program |-> p, content |-> file, goes |-> {}]
    BY <1>3 DEF Message
  <2> HIDE DEF end
  <2>2. end \in FileMessageSet
    BY <2>1, MessageType
  <2> QED BY <2>1, <2>2 DEF MessageOK
<1>7. DOMAIN banks = 1 .. total
  BY <1>2, <1>15
<1>8. ASSUME NEW x \in Nat, x < total
      PROVE  /\ banks[x + 1] \in FileMessageSet /\ MessageOK(banks[x + 1])
             /\ IsStep(banks[x + 1], file, order, x \div size + 1, x % size)
  <2>1. size \in Nat \ {0}
    BY <1>14, ConstantsAssumption
  <2>2. PICK q \in Nat : q = x \div size
    BY <2>1, Divided
  <2>3. PICK r \in 0 .. NumPrograms : r = x % size
    <3>1. x % size \in 0 .. size - 1 /\ size - 1 = NumPrograms
      BY <1>14, <2>1, Divided, ConstantsAssumption
    <3> QED BY <3>1
  <2>4. q < n
    BY <1>2, <1>8, <1>15, <2>1, <2>2, DividedBound
  <2>5. PICK bank \in 1 .. Size(file) : bank = q + 1
    BY <1>2, <2>4
  <2>6. PICK j \in 1 .. total : j = x + 1 /\ j - 1 = x
    BY <1>8
  <2>7. banks[j] = BankMessages(file.banks, order[(j - 1) \div size + 1])[((j - 1) % size) + 1]
    BY <1>2, <1>15
  <2> HIDE DEF banks
  <2>8. PICK m : m = banks[j] /\ m = BankMessages(file.banks, order[bank])[r + 1]
    BY <2>2, <2>3, <2>5, <2>6, <2>7
  <2> HIDE DEF banks
  <2>9. m \in FileMessageSet /\ MessageOK(m) /\ IsStep(m, file, order, bank, r)
    BY <2>8, BankMessageIsStep
  <2> QED BY <2>2, <2>3, <2>5, <2>6, <2>8, <2>9
<1>9. ASSUME NEW j \in 1 .. total
      PROVE  banks[j] \in FileMessageSet /\ MessageOK(banks[j])
  <2>1. PICK x \in Nat : x = j - 1 /\ x < total /\ j = x + 1
    OBVIOUS
  <2> HIDE DEF banks
  <2> QED BY <1>8, <2>1
<1>10. banks \in Seq(FileMessageSet) /\ Len(banks) = total
  <2>1. banks = [j \in 1 .. total |-> banks[j]]
    BY <1>7
  <2> HIDE DEF banks
  <2>2. banks \in [1 .. total -> FileMessageSet]
    BY <1>9, <2>1
  <2> QED BY <2>2
<1> HIDE DEF clear, end, banks
<1>11. /\ new \in Seq(FileMessageSet) /\ Len(new) = total + 2
       /\ new[1] = clear /\ new[total + 2] = end
       /\ \A k \in 2 .. total + 1 : new[k] = banks[k - 1]
  BY <1>4, <1>5, <1>6, <1>10
<1>12. ASSUME NEW x \in 0 .. total - 1
       PROVE  IsStep(new[x + 2], file, order, x \div size + 1, x % size)
  <2>1. x \in Nat /\ x < total /\ x + 2 \in 2 .. total + 1 /\ (x + 2) - 1 = x + 1
    OBVIOUS
  <2>2. new[x + 2] = banks[x + 1]
    BY <1>11, <2>1
  <2> QED BY <1>8, <2>1, <2>2
<1>13. ASSUME NEW k \in 1 .. total + 2 PROVE MessageOK(new[k])
  <2>1. k = 1 \/ k = total + 2 \/ k \in 2 .. total + 1
    OBVIOUS
  <2>2. ASSUME k \in 2 .. total + 1 PROVE MessageOK(new[k])
    <3>1. k - 1 \in 1 .. total /\ new[k] = banks[k - 1]
      BY <1>11, <2>2
    <3> QED BY <1>9, <3>1
  <2> QED BY <1>5, <1>6, <1>11, <2>1, <2>2
<1> QED BY <1>5, <1>6, <1>11, <1>12, <1>13, <1>14, <1>15, <1>16

\* A bank file that is sent comes behind what waits.
LEMMA LoadBankFileKeeps ==
    ASSUME FilesIInv, NEW file \in ({bankFile} \ {NoFile}) \cup OtherFiles, LoadBankFile(file)
    PROVE  FilesIInv'
<1>1. FilesTypeOK /\ box \in Places2
  BY DEF FilesIInv, FilesTypeOK
<1>2. file \in Files
  <2>1. CASE file \in {bankFile} \ {NoFile}
    BY <1>1, <2>1 DEF FilesTypeOK
  <2>2. CASE file \in OtherFiles
    <3>1. file \in [banks : BanksOfFiles, there : {<<>>}]
      BY <2>2, FilesAssumption
    <3>2. <<>> \in BanksOfFiles
      <4>1. <<>> \in [{} -> FileBanks] /\ {} \in SUBSET BankIds
        OBVIOUS
      <4> QED BY <4>1 DEF BanksOfFiles
    <3>3. file.banks \in BanksOfFiles /\ file.there = <<>> /\ file \in [banks : BanksOfFiles, there : BanksOfFiles]
      BY <3>1, <3>2
    <3>4. DOMAIN file.there = {}
      BY <3>3
    <3> QED BY <3>3, <3>4 DEF Files
  <2> QED BY <2>1, <2>2
<1>3. PICK order \in Orders(file) : messages' = messages \o FileMessages(file, order)
  BY DEF LoadBankFile
<1>4. PICK n \in Nat : n = Size(file)
  BY <1>2, FileBanksTyped
<1>5. PICK new \in Seq(FileMessageSet), size \in Nat, total \in Nat :
         /\ new = FileMessages(file, order)
         /\ size = NumPrograms + 1 /\ total = Size(file) * size
         /\ Len(new) = total + 2
         /\ \A k \in 1 .. total + 2 : MessageOK(new[k])
         /\ new[1].kind = "clear"
         /\ new[total + 2].kind = "everything" /\ new[total + 2].content = file
         /\ \A x \in 0 .. total - 1 :
               IsStep(new[x + 2], file, order, x \div size + 1, x % size)
  BY <1>1, <1>2, FileMessagesAre
<1>6. total = n * size
  BY <1>4, <1>5
<1> DEFINE add == [k \in 1 .. total + 2 |->
                      IF k = 1 THEN [ofFile |-> TRUE, file |-> file, order |-> order,
                                     bank |-> 0, step |-> NumPrograms]
                      ELSE [ofFile |-> TRUE, file |-> file, order |-> order,
                            bank |-> (k - 2) \div size + 1, step |-> (k - 2) % size]]
<1>9. DOMAIN add = 1 .. Len(new)
  BY <1>5
<1>10. /\ add[1].ofFile /\ add[1].file = file /\ add[1].order = order
       /\ add[1].bank = 0 /\ add[1].step = NumPrograms
  OBVIOUS
<1>11. ASSUME NEW x \in 0 .. total
       PROVE  /\ add[x + 2].ofFile /\ add[x + 2].file = file /\ add[x + 2].order = order
              /\ add[x + 2].bank = x \div size + 1 /\ add[x + 2].step = x % size
  <2>1. x + 2 \in 1 .. total + 2 /\ x + 2 # 1 /\ (x + 2) - 2 = x
    OBVIOUS
  <2>2. PICK k \in 1 .. total + 2 : k = x + 2 /\ k # 1 /\ k - 2 = x
    BY <2>1
  <2> QED BY <2>2
<1> HIDE DEF add
<1>12. ASSUME NEW x \in 0 .. total
       PROVE  /\ x \div size \in Nat /\ x % size \in 0 .. NumPrograms
              /\ IsStep(new[x + 2], file, order, x \div size + 1, x % size)
              /\ Follows(add[x + 2], add[x + 1])
  <2>1. size \in Nat \ {0} /\ x \in Nat /\ size - 1 = NumPrograms
    BY <1>4, <1>5, ConstantsAssumption
  <2>2. x \div size \in Nat /\ x % size \in 0 .. NumPrograms
    BY <2>1, Divided
  <2>3. IsStep(new[x + 2], file, order, x \div size + 1, x % size)
    <3>1. CASE x < total
      BY <1>5, <3>1
    <3>2. CASE x = total
      <4>1. x \div size = n /\ x % size = 0
        BY <1>6, <2>1, <3>2, DividedBound
      <4>2. PICK m : m = new[x + 2] /\ m.kind = "everything" /\ m.content = file
        BY <1>5, <3>2
      <4>3. Size(file) + 1 \in 0 .. Size(file) + 1 /\ 0 \in 0 .. NumPrograms
            /\ Size(file) + 1 # 0 /\ Size(file) + 1 \notin 1 .. Size(file)
        BY <1>4, ConstantsAssumption
      <4>4. IsStep(m, file, order, Size(file) + 1, 0)
        BY <1>2, <4>2, <4>3 DEF IsStep
      <4> QED BY <1>4, <1>5, <4>1, <4>2, <4>4
    <3> QED BY <3>1, <3>2
  <2>4. CASE x = 0
    <3>1. x \div size = 0 /\ x % size = 0 /\ x + 1 = 1 /\ x + 2 = 2
      BY <2>1, <2>4
    <3>2. /\ add[2].ofFile /\ add[2].file = file /\ add[2].order = order
          /\ add[2].bank = 1 /\ add[2].step = 0
      BY <1>11, <3>1
    <3> QED BY <1>10, <2>2, <2>3, <3>1, <3>2 DEF Follows
  <2>5. CASE x # 0
    <3>1. PICK y \in 0 .. total : y = x - 1 /\ y + 2 = x + 1
      BY <2>5
    <3>2. /\ add[x + 1].ofFile /\ add[x + 1].file = file /\ add[x + 1].order = order
          /\ add[x + 1].bank = (x - 1) \div size + 1 /\ add[x + 1].step = (x - 1) % size
      BY <1>11, <3>1
    <3>3. IF x % size > 0
          THEN (x - 1) \div size = x \div size /\ (x - 1) % size = (x % size) - 1
          ELSE (x - 1) \div size = (x \div size) - 1 /\ (x - 1) % size = size - 1
      BY <2>1, <2>5, DividedBefore
    <3>4. /\ add[x + 2].ofFile /\ add[x + 2].file = file /\ add[x + 2].order = order
          /\ add[x + 2].bank = x \div size + 1 /\ add[x + 2].step = x % size
      BY <1>11
    <3>5. PICK note : note = add[x + 2]
      OBVIOUS
    <3>6. PICK before : before = add[x + 1]
      OBVIOUS
    <3>7. PICK q \in Nat : q = x \div size
      BY <2>2
    <3>8. /\ before.ofFile /\ before.file = note.file /\ before.order = note.order
      BY <3>2, <3>4, <3>5, <3>6
    <3>9. IF note.step > 0 THEN before.bank = note.bank /\ before.step = note.step - 1
          ELSE before.bank = note.bank - 1 /\ before.step = NumPrograms
      <4>1. note.bank = q + 1 /\ note.step = x % size
        BY <3>4, <3>5, <3>7
      <4>2. CASE x % size > 0
        <5>1. before.bank = q + 1 /\ before.step = (x % size) - 1
          BY <3>2, <3>3, <3>6, <3>7, <4>2
        <5> QED BY <4>1, <4>2, <5>1
      <4>3. CASE ~(x % size > 0)
        <5>1. before.bank = (q - 1) + 1 /\ before.step = NumPrograms
          BY <2>1, <3>2, <3>3, <3>6, <3>7, <4>3
        <5>2. (q - 1) + 1 = (q + 1) - 1
          OBVIOUS
        <5> QED BY <4>1, <4>3, <5>1, <5>2
      <4> QED BY <4>2, <4>3
    <3>10. Follows(note, before)
      BY <3>8, <3>9 DEF Follows
    <3> QED BY <2>2, <2>3, <3>5, <3>6, <3>10
  <2> QED BY <2>4, <2>5
<1>13. ASSUME NEW k \in 1 .. Len(new)
       PROVE  IF add[k].ofFile
              THEN /\ IsStep(new[k], add[k].file, add[k].order, add[k].bank, add[k].step)
                   /\ add[k].bank > 0 => k > 1 /\ Follows(add[k], add[k - 1])
              ELSE IsAlone(new[k])
  <2>1. CASE k = 1
    <3>1. PICK m : m = new[1] /\ m.kind = "clear"
      BY <1>5
    <3>2. /\ 0 \in 0 .. Size(file) + 1 /\ NumPrograms \in 0 .. NumPrograms
          /\ 0 # Size(file) + 1 /\ 0 \notin 1 .. Size(file)
      BY <1>4, ConstantsAssumption
    <3>3. IsStep(m, file, order, 0, NumPrograms)
      BY <1>2, <3>1, <3>2 DEF IsStep
    <3> QED BY <1>10, <2>1, <3>1, <3>3
  <2>2. CASE k # 1
    <3>1. PICK x \in 0 .. total : x = k - 2 /\ k = x + 2 /\ k - 1 = x + 1 /\ k > 1
      BY <1>5, <2>2
    <3>2. /\ add[k].ofFile /\ add[k].file = file /\ add[k].order = order
          /\ add[k].bank = x \div size + 1 /\ add[k].step = x % size
      BY <1>11, <3>1
    <3>3. IsStep(new[k], file, order, x \div size + 1, x % size) /\ Follows(add[k], add[k - 1])
      BY <1>12, <3>1
    <3> QED BY <3>1, <3>2, <3>3
  <2> QED BY <2>1, <2>2
<1>14. MirrorIInv' /\ SameBanks /\ silent' = silent
  BY EditorStepKeepsMirror DEF LoadBankFile
<1>15. PICK notes : Noted(notes)
  BY DEF FilesIInv
<1>16. messages' = messages \o new
  BY <1>3, <1>5
<1>17. (\E all : Noted(all))'
  BY <1>1, <1>5, <1>9, <1>13, <1>14, <1>15, <1>16, MessagesCome
<1>18. FilesTypeOK'
  <2>1. /\ messages' \in Seq(FileMessageSet)
        /\ \A k \in 1 .. Len(messages') : MessageOK(messages'[k])
    BY <1>1, <1>5, <1>16, MessagesTyped
  <2> QED BY <1>1, <2>1 DEF FilesTypeOK, LoadBankFile
<1>19. AllTaken'
  BY <1>14, LoadedKept DEF LoadBankFile
<1> QED BY <1>14, <1>17, <1>18, <1>19 DEF FilesIInv

-----------------------------------------------------------------------------
(* The other actions of the editor.                                        *)

\* What the editor has of a bank.
LEMMA EntryHas ==
    ASSUME MirrorTypeOK, NEW b \in BankIds
    PROVE  /\ Entry(PseudoId[b]).name[Half(b)] \in Names
           /\ \A p \in Programs : Entry(PseudoId[b]).ins[Half(b)][p] \in Instrumented
<1>1. Entry(PseudoId[b]) \in Entries
  BY EntryType
<1>2. Half(b) \in Halves
  BY DEF Half, Halves
<1> QED BY <1>1, <1>2 DEF Entries

\* Where neither the banks nor the messages change, the types are all there is to show.
LEMMA EditorActs ==
    ASSUME FilesIInv, UNCHANGED mirror_vars, UNCHANGED <<messages, loaded>>, FilesTypeOK'
    PROVE  FilesIInv'
BY EditorStepKeepsMirror, OthersKeep

\* Selecting, opening and closing.
LEMMA DialogsKeep ==
    ASSUME FilesIInv, Reselect \/ (\E kind \in DialogKinds : OpenDialog(kind)) \/ Cancel
    PROVE  FilesIInv'
<1>1. FilesTypeOK /\ MirrorTypeOK
  BY DEF FilesIInv, MirrorIInv
<1>2. CASE Reselect
  BY <1>1, <1>2, EditorActs DEF Reselect, FilesTypeOK
<1>3. CASE Cancel
  BY <1>1, <1>3, EditorActs DEF Cancel, FilesTypeOK
<1>4. ASSUME NEW kind \in DialogKinds, OpenDialog(kind) PROVE FilesIInv'
  <2>1. PICK b \in BankIds, p \in Programs : box = <<b, p>> /\ box[1] = b /\ box[2] = p
    BY <1>1 DEF FilesTypeOK, Places2
  <2>2. /\ Entry(PseudoId[b]).name[Half(b)] \in Names
        /\ Entry(PseudoId[b]).ins[Half(b)][p].name \in Names
    BY <1>1, EntryHas DEF Instrumented
  <2>3. Opened.name \in Names
    BY <2>1, <2>2 DEF Opened
  <2>4. dialog' = [kind |-> kind, place |-> box, pgm_name |-> Opened.name,
                   bank_name |-> Entry(PseudoId[b]).name[Half(b)]]
    BY <1>4, <2>1 DEF OpenDialog
  <2>5. dialog' \in Dialogs
    BY <1>1, <2>2, <2>3, <2>4 DEF Dialogs, FilesTypeOK
  <2> QED BY <1>1, <1>4, <2>5, EditorActs DEF OpenDialog, FilesTypeOK
<1> QED BY <1>2, <1>3, <1>4

\* An instrument file.
LEMMA SaveInstrumentKeeps ==
    ASSUME FilesIInv, SaveInstrument
    PROVE  FilesIInv'
<1>1. FilesTypeOK /\ MirrorTypeOK
  BY DEF FilesIInv, MirrorIInv
<1>2. dialog.kind = "save instrument"
  BY DEF SaveInstrument
<1>3. PICK b \in BankIds, p \in Programs :
         dialog.place = <<b, p>> /\ dialog.place[1] = b /\ dialog.place[2] = p
  BY <1>2, OpenDialogHas
<1>4. insFile' = Entry(PseudoId[b]).ins[Half(b)][p]
  BY <1>3 DEF SaveInstrument
<1>5. insFile' \in Instrumented
  BY <1>1, <1>4, EntryHas
<1> QED BY <1>1, <1>5, EditorActs DEF SaveInstrument, FilesTypeOK

\* What is saved of a bank.
LEMMA SavedIs ==
    /\ DOMAIN Saved =
          {b \in BankIds : \E p \in Programs : ~Entry(PseudoId[b]).ins[Half(b)][p].instrument.blank}
    /\ \A b \in DOMAIN Saved :
          Saved[b] =
             [name |-> Entry(PseudoId[b]).name[Half(b)],
              ins |-> [p \in {q \in Programs :
                                 ~Entry(PseudoId[b]).ins[Half(b)][q].instrument.blank} |->
                          Entry(PseudoId[b]).ins[Half(b)][p]]]
BY DEF Saved

\* A bank file, and what was there when it was saved.
LEMMA SavedIsFile ==
    ASSUME MirrorIInv
    PROVE  /\ Saved \in BanksOfFiles
           /\ Told => /\ Content \in BanksOfFiles
                      /\ \A b \in DOMAIN Content :
                            /\ b \in DOMAIN Saved /\ Content[b] = Saved[b]
                            /\ DOMAIN Content[b].ins # {}
<1>1. IInv /\ MirrorTypeOK /\ EditorMatchesTheBanks
  BY EditorIsTold DEF MirrorIInv
<1>2. DOMAIN Saved \in SUBSET BankIds
  BY SavedIs
<1>3. ASSUME NEW b \in DOMAIN Saved PROVE Saved[b] \in FileBanks
  <2>1. PICK P \in SUBSET Programs :
           P = {q \in Programs : ~Entry(PseudoId[b]).ins[Half(b)][q].instrument.blank}
    OBVIOUS
  <2>2. PICK x : x = Entry(PseudoId[b]).ins[Half(b)]
    OBVIOUS
  <2>3. Saved[b] = [name |-> Entry(PseudoId[b]).name[Half(b)], ins |-> [p \in P |-> x[p]]]
    BY <2>1, <2>2, SavedIs
  <2>4. \A p \in P : x[p] \in Instrumented /\ ~x[p].instrument.blank
    BY <1>1, <1>2, <2>1, <2>2, EntryHas
  <2>5. Entry(PseudoId[b]).name[Half(b)] \in Names
    BY <1>1, <1>2, EntryHas
  <2>6. Saved[b] \in [name : Names, ins : UNION {[Q -> Instrumented] : Q \in SUBSET Programs}]
    <3>1. [p \in P |-> x[p]] \in [P -> Instrumented]
      BY <2>4
    <3> QED BY <2>3, <2>5, <3>1
  <2>7. \A p \in DOMAIN Saved[b].ins : ~Saved[b].ins[p].instrument.blank
    BY <2>3, <2>4
  <2> QED BY <2>6, <2>7 DEF FileBanks
<1>4. Saved \in [DOMAIN Saved -> FileBanks]
  <2>1. Saved = [b \in DOMAIN Saved |-> Saved[b]]
    BY DEF Saved
  <2> QED BY <1>3, <2>1
<1>5. ASSUME Told, NEW b \in BanksInUse
      PROVE  b \in DOMAIN Saved /\ Content[b] = Saved[b] /\ DOMAIN Content[b].ins # {}
  <2>1. PICK s \in UsedSlots : slots[s].id = b
    BY DEF BanksInUse
  <2>2. /\ s \in Slots /\ b # NoBank /\ slots[s].used # {} /\ slots[s] \in SlotRecords
    BY <1>1, <2>1 DEF UsedSlots, IInv, TypeOK
  <2>3. b \in BankIds /\ slots[s].used \subseteq Programs
    BY <2>1, <2>2 DEF SlotRecords
  <2>4. SlotOf(b) = s
    <3>1. \A t \in Slots : slots[t].id = b => t = s
      BY <1>1, <2>1, <2>2 DEF IInv, SlotsAreTheBanksHeld
    <3> QED BY <2>1, <2>2, <3>1 DEF SlotOf
  <2>5. PICK name, x, used :
           /\ name = Entry(PseudoId[b]).name[Half(b)] /\ x = Entry(PseudoId[b]).ins[Half(b)]
           /\ used = slots[s].used
    OBVIOUS
  <2>6. /\ name = slots[s].bank_name
        /\ \A p \in Programs :
              IF p \in used
              THEN x[p] = [instrument |-> ins[b][p], name |-> slots[s].ins_names[p]]
              ELSE x[p].instrument.blank
    BY <1>1, <1>5, <2>1, <2>5 DEF EditorMatchesTheBanks
  <2>7. \A p \in Programs : p \in used <=> ~x[p].instrument.blank
    <3> SUFFICES ASSUME NEW p \in Programs, p \in used PROVE ~x[p].instrument.blank
      BY <2>6
    <3>1. ~ins[b][p].blank
      BY <1>1, <2>1, <2>2, <2>5 DEF IInv, UsedIsNotBlank, NonBlank
    <3>2. PICK i, n : i = ins[b][p] /\ x[p] = [instrument |-> i, name |-> n]
      BY <2>6
    <3>3. x[p].instrument = i
      BY ONLY <3>2
    <3> QED BY <3>1, <3>2, <3>3
  <2>8. used = {q \in Programs : ~x[q].instrument.blank}
    BY <2>3, <2>5, <2>7
  <2>9. b \in DOMAIN Saved
    BY <2>2, <2>3, <2>5, <2>7, SavedIs
  <2>10. Saved[b] = [name |-> name, ins |-> [p \in used |-> x[p]]]
    <3>1. PICK P :
             /\ P = {q \in Programs : ~Entry(PseudoId[b]).ins[Half(b)][q].instrument.blank}
             /\ P = used
      BY <2>5, <2>8
    <3>2. Saved[b] = [name |-> name, ins |-> [p \in P |-> x[p]]]
      BY <2>5, <2>9, <3>1, SavedIs
    <3> QED BY <3>1, <3>2
  <2>11. Content[b] =
            [name |-> name,
             ins |-> [p \in used |-> [instrument |-> ins[b][p], name |-> slots[s].ins_names[p]]]]
    BY <2>4, <2>5, <2>6 DEF Content
  <2>12. [p \in used |-> [instrument |-> ins[b][p], name |-> slots[s].ins_names[p]]]
            = [p \in used |-> x[p]]
    BY <2>3, <2>5, <2>6
  <2> QED BY <2>2, <2>5, <2>9, <2>10, <2>11, <2>12
<1>6. DOMAIN Content = BanksInUse /\ Content = [b \in BanksInUse |-> Content[b]]
  BY DEF Content
<1>7. ASSUME Told PROVE Content \in BanksOfFiles
  <2>1. \A b \in BanksInUse : Content[b] \in FileBanks /\ b \in BankIds
    BY <1>2, <1>3, <1>5, <1>7
  <2>2. Content \in [BanksInUse -> FileBanks]
    BY <1>6, <2>1
  <2> QED BY <2>1, <2>2 DEF BanksOfFiles
<1>8. Saved \in BanksOfFiles
  BY <1>2, <1>4 DEF BanksOfFiles
<1> QED BY <1>5, <1>6, <1>7, <1>8

\* A bank that is saved.
LEMMA SaveBankKeeps ==
    ASSUME FilesIInv, SaveBank
    PROVE  FilesIInv'
<1>1. FilesTypeOK /\ MirrorIInv
  BY DEF FilesIInv
<1>2. PICK there : /\ there = IF Told /\ messages = <<>> THEN Content ELSE <<>>
                   /\ bankFile' = [banks |-> Saved, there |-> there]
  BY DEF SaveBank
<1>3. Saved \in BanksOfFiles
  BY <1>1, SavedIsFile
<1>4. /\ there \in BanksOfFiles
      /\ \A b \in DOMAIN there :
            b \in DOMAIN Saved /\ there[b] = Saved[b] /\ DOMAIN there[b].ins # {}
  <2>1. CASE Told /\ messages = <<>>
    BY <1>1, <1>2, <2>1, SavedIsFile
  <2>2. CASE ~(Told /\ messages = <<>>)
    <3>1. there = <<>> /\ DOMAIN there = {}
      BY <1>2, <2>2
    <3>2. <<>> \in [{} -> FileBanks] /\ {} \in SUBSET BankIds
      OBVIOUS
    <3> QED BY <3>1, <3>2 DEF BanksOfFiles
  <2> QED BY <2>1, <2>2
<1>5. bankFile' \in Files
  BY <1>2, <1>3, <1>4 DEF Files
<1> QED BY <1>1, <1>5, EditorActs DEF SaveBank, FilesTypeOK

-----------------------------------------------------------------------------
(* The processor is released, and the editor is told.                      *)

\* Released, it forgets the messages, and asks that everything is told.
LEMMA ReleaseKeeps ==
    ASSUME FilesIInv, Release
    PROVE  FilesIInv' /\ SameBanks
<1>1. FilesTypeOK /\ MirrorIInv /\ IInv
  BY DEF FilesIInv, MirrorIInv
<1>2. /\ messages' = <<>> /\ mq_to_ui' = <<>> /\ silent' = FALSE
      /\ MarkEverythingForNotification
      /\ UNCHANGED <<instrument_map, dialog, box, bankFile, insFile, loaded>>
  BY DEF Release
<1>3. IInv'
  BY <1>1, <1>2, MarkKeeps
<1>4. MirrorTypeOK'
  <2>1. <<>> \in Seq(Notices) /\ Len(<<>>) = 0 /\ 0 <= MaxNotices
    BY MirrorAssumption
  <2> QED BY <1>1, <1>2, <2>1 DEF MirrorIInv, MirrorTypeOK
<1>5. ListIsTold'
  BY <1>2 DEF ListIsTold, MarkEverythingForNotification
<1>6. ProgramsAreTold'
  <2>1. ASSUME NEW s \in Slots, NEW p \in Programs, NotToBeSent(s, p)' PROVE FALSE
    <3>1. slots'[s] = IF slots[s].id = NoBank THEN slots[s]
                      ELSE [slots[s] EXCEPT !.to_notify = slots[s].used]
      BY <1>2 DEF MarkEverythingForNotification
    <3>2. slots[s] \in SlotRecords
      BY <1>1 DEF IInv, TypeOK
    <3> QED BY <2>1, <3>1, <3>2 DEF NotToBeSent, SlotRecords
  <2> QED BY <2>1 DEF ProgramsAreTold
<1>7. MirrorIInv'
  BY <1>3, <1>4, <1>5, <1>6 DEF MirrorIInv
<1>8. SameBanks
  BY <1>1, <1>2, TellingIsSameBanks
<1>9. FilesTypeOK'
  <2>1. <<>> \in Seq(FileMessageSet) /\ Len(<<>>) = 0
    OBVIOUS
  <2>2. messages' \in Seq(FileMessageSet) /\ \A k \in 1 .. Len(messages') : FALSE
    BY <1>2, <2>1
  <2> QED BY <1>1, <1>2, <2>2 DEF FilesTypeOK
<1>10. (\E all : Noted(all))'
  <2>1. DOMAIN <<>> = 1 .. Len(messages') /\ \A k \in 1 .. Len(messages') : FALSE
    BY <1>2
  <2>2. Noted(<<>>)'
    BY <2>1 DEF Noted
  <2> QED BY <2>2
<1>11. AllTaken'
  BY <1>2, <1>8, LoadedKept
<1> QED BY <1>7, <1>8, <1>9, <1>10, <1>11 DEF FilesIInv

\* Notifications that are sent and received.
LEMMA ToldOfKeeps ==
    ASSUME FilesIInv, ToldOf
    PROVE  FilesIInv' /\ SameBanks
<1>1. FilesTypeOK /\ MirrorIInv /\ IInv
  BY DEF FilesIInv, MirrorIInv
<1>2. UNCHANGED <<messages, dialog, box, bankFile, insFile, loaded>>
  BY DEF ToldOf, fileVars
<1>3. FilesTypeOK'
  BY <1>1, <1>2 DEF FilesTypeOK
<1>4. CASE \E sent \in SUBSET ToNotify : Send(sent)
  <2>1. MirrorIInv'
    BY <1>1, <1>4, SendKeeps
  <2>2. SameBanks
    BY <1>1, <1>4, TellingIsSameBanks
  <2>3. silent' = silent
    BY <1>4 DEF Send
  <2> QED BY <1>2, <1>3, <2>1, <2>2, <2>3, OthersKeep
<1>5. CASE ReceiveBankSlots \/ ReceiveInstrument
  <2>1. MirrorIInv'
    BY <1>1, <1>5, ReceiveBankSlotsKeeps, ReceiveInstrumentKeeps
  <2>2. UNCHANGED <<slots, ins, silent>>
    BY <1>5 DEF ReceiveBankSlots, ReceiveInstrument
  <2>3. SameBanks
    BY <2>2 DEF SameBanks
  <2> QED BY <1>2, <1>3, <2>1, <2>2, <2>3, OthersKeep
<1> QED BY <1>4, <1>5 DEF ToldOf

-----------------------------------------------------------------------------
(* The whole.                                                              *)

\* It holds at first,
LEMMA FilesInitHolds == FilesInit => FilesIInv
<1> SUFFICES ASSUME FilesInit PROVE FilesIInv
  OBVIOUS
<1>1. MirrorIInv
  BY MirrorInitHolds DEF FilesInit
<1>2. /\ messages = <<>> /\ dialog = Closed /\ box \in Places2
      /\ bankFile = NoFile /\ insFile = NoFile /\ loaded = NoFile
  BY DEF FilesInit
<1>3. <<>> \in Seq(FileMessageSet) /\ Len(<<>>) = 0 /\ DOMAIN <<>> = 1 .. Len(<<>>)
      /\ \A k \in 1 .. Len(<<>>) : FALSE
  OBVIOUS
<1>4. FilesTypeOK
  BY <1>2, <1>3 DEF FilesTypeOK
<1>5. Noted(<<>>)
  BY <1>2, <1>3 DEF Noted
<1>6. AllTaken
  BY <1>2 DEF AllTaken
<1> QED BY <1>1, <1>4, <1>5, <1>6 DEF FilesIInv

\* What leaves the banks as they are lets no program go.
LEMMA NoneGoes ==
    ASSUME FilesIInv, FilesIInv', ins' = ins
    PROVE  GoesAsConfirmed
<1>1. IInv /\ IInv'
  BY DEF FilesIInv, MirrorIInv
<1>2. ProgramsThere' = ProgramsThere
  BY <1>1, ThereIsNotBlank, ThereIsNotBlankAfter
<1> QED BY <1>2 DEF GoesAsConfirmed

\* after each step, and no step takes a program that it should not,
LEMMA FilesNextKeeps ==
    ASSUME FilesIInv, [FilesNext]_bankFilesVars
    PROVE  FilesIInv' /\ (GoesAsConfirmed \/ UNCHANGED bankFilesVars)
<1>1. CASE Reselect \/ (\E kind \in DialogKinds : OpenDialog(kind)) \/ Cancel
  <2>1. FilesIInv'
    BY <1>1, DialogsKeep
  <2>2. ins' = ins
    BY <1>1 DEF Reselect, OpenDialog, Cancel, mirror_vars
  <2> QED BY <2>1, <2>2, NoneGoes
<1>2. CASE Confirm
  BY <1>2, ConfirmKeeps, NoneGoes DEF Confirm, mirror_vars
<1>3. CASE \/ \E name \in Names : \E which \in {"bank", "program"} : EditOk(name, which)
           \/ \E place \in Places2 : AddOk(place)
  <2>1. FilesIInv'
    BY <1>3, NamesKeep
  <2>2. ins' = ins
    BY <1>3 DEF EditOk, AddOk, mirror_vars
  <2> QED BY <2>1, <2>2, NoneGoes
<1>4. CASE SaveBank
  BY <1>4, SaveBankKeeps, NoneGoes DEF SaveBank, mirror_vars
<1>5. CASE SaveInstrument
  BY <1>5, SaveInstrumentKeeps, NoneGoes DEF SaveInstrument, mirror_vars
<1>6. ASSUME NEW file \in ({bankFile} \ {NoFile}) \cup OtherFiles, LoadBankFile(file)
      PROVE  FilesIInv' /\ GoesAsConfirmed
  <2>1. FilesIInv'
    BY <1>6, LoadBankFileKeeps
  <2>2. ins' = ins
    BY <1>6 DEF LoadBankFile, mirror_vars
  <2> QED BY <2>1, <2>2, NoneGoes
<1>7. CASE LoadInstrumentFile
  BY <1>7, LoadInstrumentFileKeeps, NoneGoes DEF LoadInstrumentFile, mirror_vars
<1>8. CASE HandleFileMessage
  BY <1>8, HandleKeeps
<1>9. CASE Release
  BY <1>9, ReleaseKeeps, NoneGoes DEF SameBanks
<1>10. CASE ToldOf
  BY <1>10, ToldOfKeeps, NoneGoes DEF SameBanks
<1>11. CASE UNCHANGED bankFilesVars
  <2>1. UNCHANGED mirror_vars /\ UNCHANGED <<messages, dialog, box, bankFile, insFile, loaded>>
    BY <1>11 DEF bankFilesVars, fileVars
  <2>2. FilesTypeOK'
    BY <2>1 DEF FilesIInv, FilesTypeOK
  <2> QED BY <1>11, <2>1, <2>2, EditorActs
<1> QED BY <1>1, <1>2, <1>3, <1>4, <1>5, <1>6, <1>7, <1>8, <1>9, <1>10, <1>11 DEF FilesNext

\* and so all along.
LEMMA FilesInvariance == FilesSpec => []FilesIInv
<1>1. FilesIInv /\ [FilesNext]_bankFilesVars => FilesIInv'
  BY FilesNextKeeps
<1>2. QED
  BY <1>1, FilesInitHolds, PTL DEF FilesSpec

\* When the last message of a file was taken, its banks are all there is.
LEMMA AllTakenIsLoaded ==
    ASSUME IInv, NEW file \in Files, NEW order \in Orders(file),
           Taken(file, order, Size(file) + 1, 0)
    PROVE  Content = WithPrograms(file.banks)
<1>1. /\ Size(file) \in Nat /\ DOMAIN order = 1 .. Size(file)
      /\ DOMAIN file.banks \subseteq BankIds
      /\ \A j \in DOMAIN order : order[j] \in DOMAIN file.banks
      /\ \A b \in DOMAIN file.banks : \E j \in DOMAIN order : order[j] = b
      /\ \A b \in DOMAIN file.banks : DOMAIN file.banks[b].ins \subseteq Programs
      /\ \A b \in DOMAIN file.banks : \A p \in DOMAIN file.banks[b].ins :
            /\ file.banks[b].ins[p] \in Instrumented
            /\ ~file.banks[b].ins[p].instrument.blank
  BY FileBanksInOrder
<1>2. \A j \in DOMAIN order : \A p : j < Size(file) + 1 /\ Passed(j, p, Size(file) + 1, 0)
  BY <1>1 DEF Passed
<1>3. ASSUME NEW b \in BankIds, NEW p \in Programs, ~ins[b][p].blank
      PROVE  b \in DOMAIN file.banks /\ p \in DOMAIN file.banks[b].ins
  BY <1>1, <1>3 DEF Taken
<1>4. ASSUME NEW b \in DOMAIN file.banks, NEW p \in DOMAIN file.banks[b].ins
      PROVE  /\ ins[b][p] = file.banks[b].ins[p].instrument /\ ~ins[b][p].blank
             /\ \A s \in Slots : slots[s].id = b =>
                   /\ slots[s].ins_names[p] = file.banks[b].ins[p].name
                   /\ slots[s].bank_name = file.banks[b].name
  <2>1. PICK j \in DOMAIN order : order[j] = b
    BY <1>1
  <2>2. /\ ins[b][p] = file.banks[b].ins[p].instrument
        /\ \A s \in Slots : slots[s].id = b =>
              slots[s].ins_names[p] = file.banks[b].ins[p].name
    BY <1>2, <2>1 DEF Taken
  <2>3. \A s \in Slots : slots[s].id = b => slots[s].bank_name = file.banks[b].name
    BY <1>2, <2>1 DEF Taken
  <2> QED BY <1>1, <2>2, <2>3
<1>5. ASSUME NEW s \in Slots, NEW b \in BankIds, slots[s].id = b
      PROVE  /\ SlotOf(b) = s
             /\ slots[s].used = {p \in Programs : ~ins[b][p].blank}
  <2>1. b # NoBank
    BY ConstantsAssumption
  <2>2. \A t \in Slots : slots[t].id = b => t = s
    BY <1>5, <2>1 DEF IInv, SlotsAreTheBanksHeld
  <2> QED BY <1>5, <2>1, <2>2 DEF SlotOf, IInv, UsedIsNotBlank, NonBlank
<1> DEFINE InFile == {c \in DOMAIN file.banks : DOMAIN file.banks[c].ins # {}}
<1>6. ASSUME NEW b \in BanksInUse
      PROVE  b \in InFile /\ Content[b] = file.banks[b]
  <2>1. PICK s \in Slots : slots[s].id = b /\ b # NoBank /\ slots[s].used # {}
    BY DEF BanksInUse, UsedSlots
  <2>2. b \in BankIds
    BY <2>1 DEF IInv, TypeOK, SlotRecords
  <2>3. SlotOf(b) = s /\ slots[s].used = {p \in Programs : ~ins[b][p].blank}
    BY <1>5, <2>1, <2>2
  <2>4. PICK q \in Programs : ~ins[b][q].blank
    BY <2>1, <2>3
  <2>5. b \in DOMAIN file.banks /\ q \in DOMAIN file.banks[b].ins
    BY <1>3, <2>2, <2>4
  <2>6. slots[s].used = DOMAIN file.banks[b].ins
    BY <1>1, <1>3, <1>4, <2>2, <2>3, <2>5
  <2>7. slots[s].bank_name = file.banks[b].name
    BY <1>4, <2>1, <2>5
  <2>8. ASSUME NEW p \in slots[s].used
        PROVE  [instrument |-> ins[b][p], name |-> slots[s].ins_names[p]] = file.banks[b].ins[p]
    <3>1. PICK x \in Instrumented :
             /\ x = file.banks[b].ins[p]
             /\ ins[b][p] = x.instrument /\ slots[s].ins_names[p] = x.name
      BY <1>1, <1>4, <2>1, <2>5, <2>6
    <3>2. [instrument |-> x.instrument, name |-> x.name] = x
      BY DEF Instrumented
    <3> QED BY <3>1, <3>2
  <2>9. PICK bank \in FileBanks : bank = file.banks[b]
    BY <2>5 DEF Files, BanksOfFiles
  <2>10. bank = [name |-> bank.name, ins |-> [p \in DOMAIN bank.ins |-> bank.ins[p]]]
    <3>1. PICK P \in SUBSET Programs : bank.ins \in [P -> Instrumented]
      BY DEF FileBanks
    <3>2. bank.ins = [p \in DOMAIN bank.ins |-> bank.ins[p]]
      BY <3>1
    <3>3. bank = [name |-> bank.name, ins |-> bank.ins]
      BY DEF FileBanks
    <3> QED BY <3>2, <3>3
  <2>11. Content[b] =
            [name |-> slots[s].bank_name,
             ins |-> [p \in slots[s].used |->
                         [instrument |-> ins[b][p], name |-> slots[s].ins_names[p]]]]
    BY <2>3 DEF Content
  <2>12. [p \in slots[s].used |-> [instrument |-> ins[b][p], name |-> slots[s].ins_names[p]]]
            = [p \in DOMAIN bank.ins |-> bank.ins[p]]
    BY <2>6, <2>8, <2>9
  <2> QED BY <2>5, <2>7, <2>9, <2>10, <2>11, <2>12
<1>7. ASSUME NEW b \in InFile
      PROVE  b \in BanksInUse
  <2>1. PICK p \in DOMAIN file.banks[b].ins : p \in Programs /\ b \in BankIds
    BY <1>1
  <2>2. ~ins[b][p].blank
    BY <1>4, <2>1
  <2>3. PICK s \in Slots : slots[s].id = b /\ p \in slots[s].used
    BY <2>1, <2>2, ThereIsNotBlank
  <2> QED BY <2>1, <2>3, ConstantsAssumption DEF BanksInUse, UsedSlots
<1>8. BanksInUse = InFile
  BY <1>6, <1>7
<1>9. Content = [b \in BanksInUse |-> Content[b]]
  BY DEF Content
<1>10. WithPrograms(file.banks) = [b \in InFile |-> file.banks[b]]
  BY DEF WithPrograms
<1> QED BY <1>6, <1>8, <1>9, <1>10

-----------------------------------------------------------------------------
(* The theorems.                                                           *)

\* No program goes that the user was not told would go (finish_add_program, handle_message
\* and load_program): whatever is selected, loaded, evicted or told of while a box is open
\* and while the messages wait, in every order.
THEOREM ConfirmedCorrect == FilesSpec => [][GoesAsConfirmed]_bankFilesVars
<1>1. FilesIInv /\ [FilesNext]_bankFilesVars => [GoesAsConfirmed]_bankFilesVars
  BY FilesNextKeeps
<1>2. QED
  BY <1>1, FilesInvariance, PTL DEF FilesSpec

\* When the last message of a bank file was taken, the banks are those of the file that
\* have a program (send_bank_file), and a file that was saved when the editor was told of
\* everything had all of them (save_bank): whatever messages of other dialogs wait before
\* and behind the file.
THEOREM BankFilesCorrect == FilesSpec => []FileIsLoaded
<1>1. FilesIInv => FileIsLoaded
  <2> SUFFICES ASSUME FilesIInv, loaded # NoFile, Cardinality(DOMAIN loaded.banks) <= NumSlots
               PROVE  /\ Content = WithPrograms(loaded.banks)
                      /\ \A b \in DOMAIN loaded.there :
                            b \in DOMAIN Content /\ Content[b] = loaded.there[b]
    BY DEF FileIsLoaded
  <2>1. PICK file \in Files : file = loaded /\ Size(file) <= NumSlots
    BY DEF FilesIInv, AllTaken, Size
  <2>2. PICK order \in Orders(file) : Taken(file, order, Size(file) + 1, 0)
    BY <2>1 DEF FilesIInv, AllTaken
  <2>3. Content = WithPrograms(file.banks)
    BY <2>2, AllTakenIsLoaded DEF FilesIInv, MirrorIInv
  <2>4. ASSUME NEW b \in DOMAIN file.there
        PROVE  b \in DOMAIN Content /\ Content[b] = file.there[b]
    <3>1. /\ b \in DOMAIN file.banks /\ file.there[b] = file.banks[b]
          /\ DOMAIN file.banks[b].ins # {}
      BY DEF Files
    <3> QED BY <2>3, <3>1 DEF WithPrograms
  <2> QED BY <2>1, <2>3, <2>4
<1>2. QED
  BY <1>1, FilesInvariance, PTL

\* Of whatever kind the messages that wait are, they have what their kind needs, and a file
\* that was saved is one that can be loaded.
THEOREM FilesTypeCorrect == FilesSpec => []FilesTypeOK
<1>1. FilesIInv => FilesTypeOK
  BY DEF FilesIInv
<1>2. QED
  BY <1>1, FilesInvariance, PTL

\* And the editor that was told of everything shows the banks as they are, when bank files
\* are loaded without a notification too.
THEOREM EditorShowsLoadedBanks == FilesSpec => []EditorMatchesTheBanks
<1>1. FilesIInv => EditorMatchesTheBanks
  BY EditorIsTold DEF FilesIInv
<1>2. QED
  BY <1>1, FilesInvariance, PTL

=============================================================================
