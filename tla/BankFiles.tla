----------------------------- MODULE BankFiles -----------------------------
(***************************************************************************)
(* Bank files, instrument files and the dialogs of the editor's program    *)
(* menu (src/sources/ui/generic_main_component.tcc, bank_load.h and the    *)
(* dialogs of ui/components): each ends in messages to the bank manager,   *)
(* which takes them in turn while the editor is told of what changed       *)
(* (EditorMirror).  A dialog stays open while notifications arrive and the *)
(* host selects other programs.                                            *)
(*                                                                         *)
(* A message carries, as a ghost, the programs the user was told would go. *)
(***************************************************************************)
EXTENDS EditorMirror

CONSTANTS NoFile,       \* no such file, or nothing to compare with
          NewInstrument, \* what CreateInstrument puts into a program
          OtherFiles,   \* bank files from elsewhere: the programs of each bank, by bank
          MaxFileActs   \* dialogs opened and files loaded or saved

\* What a bank of a file is: its name, and its programs that are not blank.
FileBanks ==
    {bank \in [name : Names, ins : UNION {[P -> Instrumented] : P \in SUBSET Programs}] :
        \A p \in DOMAIN bank.ins : ~bank.ins[p].instrument.blank}
BanksOfFiles == UNION {[B -> FileBanks] : B \in SUBSET BankIds}

ASSUME FilesAssumption ==
    /\ IsFiniteSet(BankIds)
    /\ NewInstrument \in Instrumented
    /\ OtherFiles \subseteq [banks : BanksOfFiles, there : {<<>>}]
    /\ MaxFileActs \in Nat

VARIABLES
    messages,   \* pending_messages_ and mq_from_ui
    dialog,     \* the dialog or box that is open, with what it is about
    box,        \* the program selected for the part that is shown
    bankFile, insFile, \* what was saved
    loaded,     \* ghost: the file that was taken last, if nothing came after it
    fileActs

fileVars == <<messages, dialog, box, bankFile, insFile, loaded, fileActs>>
bankFilesVars == <<mirror_vars, fileVars>>

Closed == [kind |-> "none"]
Places2 == BankIds \X Programs

\* The programs there are, with their instruments and names; and their banks' names.
Content ==
    [b \in BanksInUse |->
        [name |-> slots[SlotOf(b)].bank_name,
         ins |-> [p \in slots[SlotOf(b)].used |->
                    [instrument |-> ins[b][p], name |-> slots[SlotOf(b)].ins_names[p]]]]]

ProgramsThere ==
    {x \in Places2 : x[1] \in BanksInUse /\ x[2] \in slots[SlotOf(x[1])].used}

\* save_bank: the halves of the editor's entries that have a program.
Saved ==
    LET HalfOf(b) == [name |-> Entry(PseudoId[b]).name[Half(b)],
                      ins |-> Entry(PseudoId[b]).ins[Half(b)]]
        Kept == {b \in BankIds : \E p \in Programs : ~HalfOf(b).ins[p].instrument.blank}
    IN  [b \in Kept |->
            [name |-> HalfOf(b).name,
             ins |-> [p \in {q \in Programs : ~HalfOf(b).ins[q].instrument.blank} |->
                         HalfOf(b).ins[p]]]]

FilesInit ==
    /\ MirrorInit
    /\ messages = <<>> /\ dialog = Closed /\ box \in Places2
    /\ bankFile = NoFile /\ insFile = NoFile /\ loaded = NoFile /\ fileActs = 0

OneMoreAct == fileActs < MaxFileActs /\ fileActs' = fileActs + 1

Message(kind, place, content, goes) ==
    [kind |-> kind, bank |-> place[1], program |-> place[2], content |-> content, goes |-> goes]

-----------------------------------------------------------------------------
(* The editor.                                                             *)

\* receive_selection: the host selected another program.
Reselect ==
    /\ \E place \in Places2 : box' = place
    /\ UNCHANGED <<mirror_vars, messages, dialog, bankFile, insFile, loaded, fileActs>>

Opened == Entry(PseudoId[box[1]]).ins[Half(box[1])][box[2]]

\* handle_edit_program, for a program that is there, and finish_add_program.
OpenDialog(kind) ==
    /\ dialog = Closed /\ OneMoreAct
    /\ kind = "edit" => ~Opened.instrument.blank
    /\ dialog' = [kind |-> kind, place |-> box, pgm_name |-> Opened.name,
                  bank_name |-> Entry(PseudoId[box[1]]).name[Half(box[1])]]
    /\ UNCHANGED <<mirror_vars, messages, box, bankFile, insFile, loaded>>

Cancel ==
    /\ dialog # Closed
    /\ dialog' = Closed
    /\ UNCHANGED <<mirror_vars, messages, box, bankFile, insFile, loaded, fileActs>>

\* The programs a box says it deletes.
SaidToGo(d) ==
    IF d.kind = "delete program" THEN {d.place}
    ELSE IF d.kind = "delete bank" THEN {x \in Places2 : PseudoId[x[1]] = PseudoId[d.place[1]]}
    ELSE IF d.kind = "delete all" THEN Places2
    ELSE {}

\* Wrong, to try the checks: what is selected when the box is confirmed.
MeantNow(d) == box

\* What was selected when the box was opened.
Meant(d) == d.place

\* The banks of an entry, that of the program first.
HalvesFrom(b) ==
    LET other == {c \in BankIds : PseudoId[c] = PseudoId[b] /\ c # b}
    IN  IF other = {} THEN <<b>> ELSE <<b, CHOOSE c \in other : TRUE>>

\* The callbacks of the boxes of finish_add_program.
Confirm ==
    /\ dialog.kind \in {"delete program", "delete bank", "delete all"}
    /\ LET place == Meant(dialog)  halves == HalvesFrom(place[1])
       IN  messages' = messages \o
              IF dialog.kind = "delete bank"
              THEN [k \in DOMAIN halves |->
                       Message("delete bank", <<halves[k], 0>>, NoFile, SaidToGo(dialog))]
              ELSE <<Message(dialog.kind, place, NoFile, SaidToGo(dialog))>>
    /\ dialog' = Closed
    /\ UNCHANGED <<mirror_vars, box, bankFile, insFile, loaded, fileActs>>

\* Program_Name_Editor: both names, whether they were changed or not.
EditOk(name, which) ==
    /\ dialog.kind = "edit"
    /\ LET bankName == IF which = "bank" THEN name ELSE dialog.bank_name
           pgmName == IF which = "program" THEN name ELSE dialog.pgm_name
       IN  messages' = messages \o
              <<Message("rename bank", dialog.place, bankName, {}),
                Message("rename program", dialog.place, pgmName, {})>>
    /\ dialog' = Closed
    /\ UNCHANGED <<mirror_vars, box, bankFile, insFile, loaded, fileActs>>

\* New_Program_Editor: whatever bank and program were typed.
AddOk(place) ==
    /\ dialog.kind = "add"
    /\ messages' = Append(messages, Message("create", place, NewInstrument, {}))
    /\ dialog' = Closed
    /\ UNCHANGED <<mirror_vars, box, bankFile, insFile, loaded, fileActs>>

\* The chooser of finish_save_bank came back.
SaveBank ==
    /\ dialog = Closed /\ OneMoreAct
    /\ bankFile' = [banks |-> Saved, there |-> IF Told /\ messages = <<>> THEN Content ELSE <<>>]
    /\ UNCHANGED <<mirror_vars, messages, dialog, box, insFile, loaded>>

\* Of the program that was selected when the chooser was opened, as it is by now.
SaveInstrument ==
    /\ dialog.kind = "save instrument"
    /\ LET e == Entry(PseudoId[dialog.place[1]])
       IN  insFile' = e.ins[Half(dialog.place[1])][dialog.place[2]]
    /\ dialog' = Closed
    /\ UNCHANGED <<mirror_vars, messages, box, bankFile, loaded, fileActs>>

\* Wrong, to try the checks: a bank's blank programs are not sent, and so its name not
\* behind a program that is.
NameFirst(banks, b) ==
    <<Message("rename bank", <<b, 0>>, banks[b].name, Places2)>> \o
    [k \in 1 .. NumPrograms |->
        Message("load", <<b, k - 1>>,
                IF k - 1 \in DOMAIN banks[b].ins THEN banks[b].ins[k - 1]
                ELSE [instrument |-> BlankInstrument, name |-> NoName], Places2)]

\* Every program of a bank, the blank ones too, and the name of the bank.
BankMessages(banks, b) ==
    [k \in 1 .. NumPrograms |->
        Message("load", <<b, k - 1>>,
                IF k - 1 \in DOMAIN banks[b].ins THEN banks[b].ins[k - 1]
                ELSE [instrument |-> BlankInstrument, name |-> NoName], Places2)]
    \o <<Message("rename bank", <<b, 0>>, banks[b].name, Places2)>>

\* The ways to go through the banks of a file: the melodic ones come first.
Orders(file) ==
    {order \in [1 .. Cardinality(DOMAIN file.banks) -> DOMAIN file.banks] :
        \A j, k \in DOMAIN order :
            j < k => /\ order[j] # order[k]
                     /\ Half(order[k]) = "melodic" => Half(order[j]) = "melodic"}

\* All programs go, then those of the file come, and then the editor is told.
FileMessages(file, order) ==
    LET size == NumPrograms + 1
    IN  <<Message("clear", box, NoFile, Places2)>>
        \o [j \in 1 .. Len(order) * size |->
               BankMessages(file.banks, order[(j - 1) \div size + 1])[((j - 1) % size) + 1]]
        \o <<Message("everything", box, file, {})>>

\* send_bank_file.
LoadBankFile(file) ==
    /\ dialog = Closed /\ OneMoreAct
    /\ \E order \in Orders(file) : messages' = messages \o FileMessages(file, order)
    /\ UNCHANGED <<mirror_vars, dialog, box, bankFile, insFile, loaded>>

\* send_instrument_file, for the program that was selected when the chooser was opened.
LoadInstrumentFile ==
    /\ dialog.kind = "load instrument" /\ insFile # NoFile
    /\ messages' = Append(messages, Message("load told", dialog.place, insFile, {dialog.place}))
    /\ dialog' = Closed
    /\ UNCHANGED <<mirror_vars, box, bankFile, insFile, loaded, fileActs>>

-----------------------------------------------------------------------------
(* The processor.                                                          *)

\* A bank that is not there, no room for it, a program that is not in use, a name that is
\* the same: the calls that return early.
NothingToDo(m) ==
    LET there == SlotsOf(m.bank) # {}
        info == slots[CHOOSE s \in SlotsOf(m.bank) : TRUE]
    IN  CASE m.kind \in {"load", "load told"} -> ~there /\ EmptySlots = {}
          [] m.kind = "create" -> IF there THEN ~ins[m.bank][m.program].blank
                                  ELSE EmptySlots = {}
          [] m.kind = "delete program" -> ~there \/ m.program \notin info.used
          [] m.kind = "delete bank" -> ~there
          [] m.kind = "rename bank" -> ~there \/ info.bank_name = m.content
          [] m.kind = "rename program" -> ~there \/ info.ins_names[m.program] = m.content
          [] OTHER -> FALSE

\* The cases of handle_message.
Does(m) ==
    \/ /\ m.kind = "load"
       /\ LoadProgram(m.bank, m.program, m.content.instrument, m.content.name, {}, "taken")
    \/ /\ m.kind = "load told"
       /\ LoadProgram(m.bank, m.program, m.content.instrument, m.content.name,
                      {"Notify", "NeedMeasurement"}, "taken")
    \/ /\ m.kind = "create"
       /\ LoadProgram(m.bank, m.program, m.content.instrument, m.content.name,
                      {"Notify", "NoReplaceExisting"}, "taken")
    \/ m.kind = "delete program" /\ DeleteProgram(m.bank, m.program, TRUE)
    \/ m.kind = "delete bank" /\ DeleteBank(m.bank, TRUE)
    \/ m.kind \in {"delete all", "clear"} /\ ClearBanks(m.kind = "delete all")
    \/ m.kind = "rename bank" /\ RenameBank(m.bank, m.content, m.goes = {})
    \/ m.kind = "rename program" /\ RenameProgram(m.bank, m.program, m.content, TRUE)
    \/ m.kind = "everything" /\ MarkEverythingForNotification

HandleFileMessage ==
    /\ messages # <<>>
    /\ LET m == Head(messages)
       IN  /\ IF NothingToDo(m) THEN UNCHANGED vars ELSE Does(m)
           /\ silent' = (m.kind # "everything" /\ (silent \/ m.kind = "clear"))
           /\ loaded' = IF m.kind = "everything" THEN m.content ELSE NoFile
    /\ messages' = Tail(messages)
    /\ UNCHANGED <<mq_to_ui, instrument_map, dialog, box, bankFile, insFile, fileActs>>

\* Released, the processor takes no messages and the editor throws away what waits
\* (flush_messages_to_processor); prepared again, the editor is told of everything.
Release ==
    /\ OneMoreAct
    /\ messages' = <<>> /\ mq_to_ui' = <<>>
    /\ MarkEverythingForNotification
    /\ silent' = FALSE
    /\ UNCHANGED <<instrument_map, dialog, box, bankFile, insFile, loaded>>

ToldOf == /\ \/ \E sent \in SUBSET ToNotify : Send(sent)
             \/ ReceiveBankSlots \/ ReceiveInstrument
          /\ UNCHANGED fileVars

DialogKinds == {"edit", "add", "delete program", "delete bank", "delete all",
                "save instrument", "load instrument"}

FilesNext ==
    \/ Reselect
    \/ \E kind \in DialogKinds : OpenDialog(kind)
    \/ Cancel \/ Confirm
    \/ \E name \in Names : \E which \in {"bank", "program"} : EditOk(name, which)
    \/ \E place \in Places2 : AddOk(place)
    \/ SaveBank \/ SaveInstrument
    \/ \E file \in ({bankFile} \ {NoFile}) \cup OtherFiles : LoadBankFile(file)
    \/ LoadInstrumentFile
    \/ HandleFileMessage \/ Release \/ ToldOf

FilesSpec == FilesInit /\ [][FilesNext]_bankFilesVars

-----------------------------------------------------------------------------
\* A program that goes is one the user was told would go, in a box or by loading a file:
\* however the selection changed while the box was open, and whatever was loaded, deleted
\* or evicted in between (finish_add_program, handle_message and load_program).
GoesAsConfirmed ==
    \A x \in ProgramsThere :
        x \notin ProgramsThere' =>
            messages # <<>> /\ messages' = Tail(messages) /\ x \in Head(messages).goes

\* The banks that have a program.
WithPrograms(banks) == [b \in {c \in DOMAIN banks : DOMAIN banks[c].ins # {}} |-> banks[b]]

\* When the last message of a bank file was taken, the banks are those of the file that
\* have a program, with their names and the names of their programs, as far as there are
\* slots for them; and of a file that the editor saved after it was told of everything, no
\* program of that time is missing.
FileIsLoaded ==
    loaded # NoFile /\ Cardinality(DOMAIN loaded.banks) <= NumSlots =>
        /\ Content = WithPrograms(loaded.banks)
        /\ \A b \in DOMAIN loaded.there : b \in DOMAIN Content /\ Content[b] = loaded.there[b]
=============================================================================
