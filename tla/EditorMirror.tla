---------------------------- MODULE EditorMirror ----------------------------
(***************************************************************************)
(* The editor's own copy of the banks (instrument_map_ of                  *)
(* src/sources/ui/generic_main_component.tcc), which the bank manager      *)
(* keeps up to date with notifications: the list of the banks in use, and  *)
(* single instruments.  In the editor a melodic and a percussive bank of   *)
(* the same number are one entry with two halves.                          *)
(*                                                                         *)
(* The editor never writes its copy for an edit of its own; it asks the    *)
(* bank manager and waits to be told.  What is changed without a           *)
(* notification, a bank file or a state, is followed by a request for      *)
(* everything; silent is a ghost and says that this is still to come.      *)
(***************************************************************************)
EXTENDS BankManager

CONSTANTS
    PseudoIds,    \* the numbers of the editor's entries
    PseudoId,     \* Bank_Id::pseudo_id
    Percussive,   \* the banks that are percussive
    Loads,        \* what is loaded: a program of a bank, an instrument and its name
    LoadFlags,    \* and the flags it is loaded with, to be told of it
    ProgramNames, \* the names programs are given,
    BankNames,    \* and banks
    Results,      \* what measurements find
    MaxNotices    \* the messages mq_to_ui has room for

ASSUME MirrorAssumption ==
    /\ PseudoId \in [BankIds -> PseudoIds]
    /\ Percussive \subseteq BankIds
    /\ \A b, c \in BankIds :
          PseudoId[b] = PseudoId[c] /\ (b \in Percussive <=> c \in Percussive) => b = c
    /\ Loads \subseteq [bank : BankIds, program : Programs, instrument : Instruments, name : Names]
    /\ ProgramNames \subseteq Names /\ BankNames \subseteq Names /\ Results \subseteq Delays
    /\ LoadFlags \subseteq SUBSET Flags /\ \A flags \in LoadFlags : "Notify" \in flags
    /\ MaxNotices \in Nat \ {0}

VARIABLES
    mq_to_ui,        \* notifications on their way
    instrument_map,  \* what the editor has, by pseudo_id
    silent           \* ghost

mirror_vars == <<slots, slots_notify_flag, held, ins, mq_to_ui, instrument_map, silent>>

\* The half of its entry that a bank is.
Halves == {"melodic", "percussive"}
Half(b) == IF b \in Percussive THEN "percussive" ELSE "melodic"
IsHalf(b, psid, h) == PseudoId[b] = psid /\ Half(b) = h

EmptyBank ==
    [name |-> [h \in Halves |-> NoName],
     ins  |-> [h \in Halves |-> [p \in Programs |->
                  [instrument |-> BlankInstrument, name |-> NoName]]]]

\* An editor that was just opened and asks for everything.
MirrorInit ==
    /\ Init
    /\ mq_to_ui = <<>> /\ instrument_map = <<>> /\ silent = TRUE

-----------------------------------------------------------------------------
(* The bank manager's side.                                                *)

UsedSlots == {s \in Slots : slots[s].id # NoBank /\ slots[s].used # {}}
BanksInUse == {slots[s].id : s \in UsedSlots}
SlotOf(b) == CHOOSE s \in Slots : slots[s].id = b

SlotsNotice ==
    [kind |-> "slots",
     entries |-> [b \in BanksInUse |->
                     [used |-> slots[SlotOf(b)].used, name |-> slots[SlotOf(b)].bank_name]]]

InstrumentNotice(s, p) ==
    [kind |-> "instrument", bank |-> slots[s].id, program |-> p,
     instrument |-> ins[slots[s].id][p], name |-> slots[s].ins_names[p]]

HasRoom(queue) == Len(queue) <= MaxNotices

\* A cycle of send_notifications, and what it puts into the queue.
Send(sent) ==
    /\ SendNotifications(sent)
    /\ \E order \in InOrder(sent) :
          mq_to_ui' = mq_to_ui
             \o (IF slots_notify_flag THEN <<SlotsNotice>> ELSE <<>>)
             \o [k \in DOMAIN order |-> InstrumentNotice(order[k][1], order[k][2])]
    /\ HasRoom(mq_to_ui')
    /\ UNCHANGED <<instrument_map, silent>>

\* What the editor and the parameters do to the banks, who ask to be told.
EditNotifying ==
    /\ \/ \E l \in Loads, flags \in LoadFlags, answer \in Answers :
             LoadProgram(l.bank, l.program, l.instrument, l.name, flags, answer)
       \/ \E id \in BankIds, p \in Programs : DeleteProgram(id, p, TRUE)
       \/ \E id \in BankIds : DeleteBank(id, TRUE)
       \/ ClearBanks(TRUE)
       \/ \E id \in BankIds, name \in BankNames : RenameBank(id, name, TRUE)
       \/ \E id \in BankIds, p \in Programs, name \in ProgramNames :
             RenameProgram(id, p, name, TRUE)
    /\ UNCHANGED <<mq_to_ui, instrument_map, silent>>

\* What a bank file and a state do, who ask for everything afterwards.
EditSilently ==
    /\ \/ ClearBanks(FALSE)
       \/ \E l \in Loads, answer \in Answers :
             LoadProgram(l.bank, l.program, l.instrument, l.name, {}, answer)
       \/ \E id \in BankIds, name \in BankNames : RenameBank(id, name, FALSE)
    /\ silent' = TRUE
    /\ UNCHANGED <<mq_to_ui, instrument_map>>

\* The result of a measurement, which is always told.
Measured ==
    /\ \E l \in Loads, d \in Results :
          LoadMeasurement(l.bank, l.program, l.instrument, d, TRUE)
    /\ UNCHANGED <<mq_to_ui, instrument_map, silent>>

\* RequestBankSlots, RequestFullBankState and the end of reading a state.
RequestSlots ==
    /\ MarkSlotsForNotification
    /\ UNCHANGED <<mq_to_ui, instrument_map, silent>>

RequestEverything ==
    /\ MarkEverythingForNotification
    /\ silent' = FALSE
    /\ UNCHANGED <<mq_to_ui, instrument_map>>

-----------------------------------------------------------------------------
(* The editor's side.                                                      *)

\* What the editor has of an entry, or an empty one.
Entry(psid) ==
    IF psid \in DOMAIN instrument_map THEN instrument_map[psid] ELSE EmptyBank


\* An entry with an instrument put into half h of it.
WithInstrument(e, h, p, x) == [e EXCEPT !.ins[h][p] = x]

\* A program that is blank or is not, as the list of banks says.
WithBlank(x, blank) == [x EXCEPT !.instrument.blank = blank]

\* Wrong, to try the checks: a bank that lost its name keeps the one it had.
HalfListedIfNamed(e, h, listed) ==
    [e EXCEPT
        !.name[h] = IF listed.name = NoName THEN @ ELSE listed.name,
        !.ins[h] = [p \in Programs |-> WithBlank(@[p], p \notin listed.used)]]

\* Half h of an entry after the list of banks: what is used is not blank.
HalfListed(e, h, listed) ==
    [e EXCEPT
        !.name[h] = listed.name,
        !.ins[h] = [p \in Programs |-> WithBlank(@[p], p \notin listed.used)]]

\* A half of entry psid that is not in the list stays as it is.
HalfAfter(e, psid, h, entries) ==
    IF \E b \in DOMAIN entries : IsHalf(b, psid, h)
    THEN HalfListed(e, h, entries[CHOOSE b \in DOMAIN entries : IsHalf(b, psid, h)])
    ELSE e

\* An entry after the list of banks.
Listed(psid, entries) ==
    HalfAfter(HalfAfter(Entry(psid), psid, "melodic", entries), psid, "percussive", entries)

\* Wrong, to try the checks: no entry is ever deleted.
KeptNumbers(entries) == DOMAIN instrument_map \cup {PseudoId[b] : b \in DOMAIN entries}

\* The entries there are after the list of banks.
ListedNumbers(entries) == {PseudoId[b] : b \in DOMAIN entries}

ReceiveBankSlots ==
    /\ mq_to_ui # <<>> /\ Head(mq_to_ui).kind = "slots"
    /\ LET entries == Head(mq_to_ui).entries
       IN  instrument_map' = [psid \in ListedNumbers(entries) |-> Listed(psid, entries)]
    /\ mq_to_ui' = Tail(mq_to_ui)
    /\ UNCHANGED <<slots, slots_notify_flag, held, ins, silent>>

AllBlank(e) == \A h \in Halves, p \in Programs : e.ins[h][p].instrument.blank

\* An entry that is all blank goes, and does not come for a blank instrument.
ReceiveInstrument ==
    /\ mq_to_ui # <<>> /\ Head(mq_to_ui).kind = "instrument"
    /\ LET m == Head(mq_to_ui)
           psid == PseudoId[m.bank]
           e == WithInstrument(Entry(psid), Half(m.bank), m.program,
                               [instrument |-> m.instrument, name |-> m.name])
           numbers == IF AllBlank(e) THEN DOMAIN instrument_map \ {psid}
                                     ELSE DOMAIN instrument_map \cup {psid}
       IN  instrument_map' = [q \in numbers |-> IF q = psid THEN e ELSE instrument_map[q]]
    /\ mq_to_ui' = Tail(mq_to_ui)
    /\ UNCHANGED <<slots, slots_notify_flag, held, ins, silent>>

-----------------------------------------------------------------------------
MirrorNext ==
    \/ EditNotifying \/ EditSilently \/ Measured
    \/ RequestSlots \/ RequestEverything
    \/ \E sent \in SUBSET ToNotify : Send(sent)
    \/ ReceiveBankSlots \/ ReceiveInstrument

MirrorSpec == MirrorInit /\ [][MirrorNext]_mirror_vars

-----------------------------------------------------------------------------
Instrumented == [instrument : Instruments, name : Names]
Entries == [name : [Halves -> Names], ins : [Halves -> [Programs -> Instrumented]]]

\* The notices there can be.
BankLists == UNION {[B -> [used : SUBSET Programs, name : Names]] : B \in SUBSET BankIds}
Notices ==
    [kind : {"slots"}, entries : BankLists] \cup
    [kind : {"instrument"}, bank : BankIds, program : Programs, instrument : Instruments,
     name : Names]

\* The editor's entries and the notices are of their types, and the queue has its room.
MirrorTypeOK ==
    /\ DOMAIN instrument_map \subseteq PseudoIds
    /\ instrument_map \in [DOMAIN instrument_map -> Entries]
    /\ mq_to_ui \in Seq(Notices) /\ Len(mq_to_ui) <= MaxNotices
    /\ silent \in BOOLEAN

\* The editor was told of everything.
Told == ~silent /\ ~slots_notify_flag /\ ToNotify = {} /\ mq_to_ui = <<>>

\* An editor that was told of everything shows every bank in use as the bank
\* manager has it: its name, its programs with their names, and no other program;
\* and it has no entry for a number no bank in use has; whichever slots were
\* evicted, programs measured, renamed or replaced while notifications were on
\* their way, or left for a later cycle.
EditorMatchesTheBanks ==
    Told =>
        /\ \A s \in UsedSlots :
              LET b == slots[s].id  h == Half(b)  e == Entry(PseudoId[b])
              IN  /\ e.name[h] = slots[s].bank_name
                  /\ \A p \in Programs :
                        IF p \in slots[s].used
                        THEN e.ins[h][p] =
                                [instrument |-> ins[b][p], name |-> slots[s].ins_names[p]]
                        ELSE e.ins[h][p].instrument.blank
        /\ DOMAIN instrument_map = {PseudoId[b] : b \in BanksInUse}

\* It is required to keep the copies of the banks in synchronization
\* (DEVELOPER-NOTES.md): the editor shows no program of a bank that is not there.
EditorShowsNoOtherBank ==
    Told => \A psid \in DOMAIN instrument_map, h \in Halves :
        (\A b \in BanksInUse : ~IsHalf(b, psid, h)) =>
            \A p \in Programs : instrument_map[psid].ins[h][p].instrument.blank

-----------------------------------------------------------------------------
\* The list of the banks as it is.
ListNow == SlotsNotice.entries

\* An instrument that comes after that list is blank if the program is not in it.
AgreesWith(m, entries) ==
    /\ m.kind = "instrument"
    /\ m.instrument.blank = ~(m.bank \in DOMAIN entries /\ m.program \in entries[m.bank].used)

\* The editor has the entries of the list, with its names and its programs.
MapLists(entries) ==
    /\ DOMAIN instrument_map = ListedNumbers(entries)
    /\ \A b \in DOMAIN entries :
          LET h == Half(b)  e == instrument_map[PseudoId[b]]
          IN  /\ e.name[h] = entries[b].name
              /\ \A p \in Programs : e.ins[h][p].instrument.blank = (p \notin entries[b].used)

\* The list will be sent, or it is the last one in the queue, or the editor has it; and
\* what comes after it agrees with it.
ListIsTold ==
    \/ silent \/ slots_notify_flag
    \/ \E k \in 1 .. Len(mq_to_ui) :
          /\ mq_to_ui[k] = SlotsNotice
          /\ \A j \in k + 1 .. Len(mq_to_ui) : AgreesWith(mq_to_ui[j], ListNow)
    \/ /\ MapLists(ListNow)
       /\ \A j \in 1 .. Len(mq_to_ui) : AgreesWith(mq_to_ui[j], ListNow)

\* The editor has program p of bank b as it is in notice m.
MapShows(b, p, m) ==
    /\ PseudoId[b] \in DOMAIN instrument_map
    /\ instrument_map[PseudoId[b]].ins[Half(b)][p] =
          [instrument |-> m.instrument, name |-> m.name]

\* A notice that leaves a program that is in use as it is.
Leaves(m, b, p) ==
    \/ m.kind = "slots" /\ b \in DOMAIN m.entries /\ p \in m.entries[b].used
    \/ m.kind = "instrument" /\ ~(m.bank = b /\ m.program = p)

\* Notice m of the program is the last in the queue that changes the program, or the
\* editor has it so and no notice in the queue changes it.
ProgramIsTold(b, p, m) ==
    \/ \E k \in 1 .. Len(mq_to_ui) :
          /\ mq_to_ui[k] = m
          /\ \A j \in k + 1 .. Len(mq_to_ui) : Leaves(mq_to_ui[j], b, p)
    \/ /\ MapShows(b, p, m)
       /\ \A j \in 1 .. Len(mq_to_ui) : Leaves(mq_to_ui[j], b, p)

\* The programs in use that are not still to be sent.
NotToBeSent(s, p) == slots[s].id # NoBank /\ p \in slots[s].used \ slots[s].to_notify

ProgramsAreTold ==
    \/ silent
    \/ \A s \in Slots, p \in Programs :
          NotToBeSent(s, p) => ProgramIsTold(slots[s].id, p, InstrumentNotice(s, p))

MirrorIInv == IInv /\ MirrorTypeOK /\ ListIsTold /\ ProgramsAreTold
=============================================================================
