---------------------------- MODULE BankManager ----------------------------
(***************************************************************************)
(* The bank manager (src/sources/bank_manager.cc): which bank the player   *)
(* holds in which of a fixed number of slots, which programs of it are in  *)
(* use, what the editor must still be told of and what the worker must     *)
(* still measure.  Every operation runs on a thread that holds the player  *)
(* lock, so each one is a single step here.                                *)
(*                                                                         *)
(* The player's own store of banks belongs to libADLMIDI / libOPNMIDI; it  *)
(* is the pair (held, ins) and is modelled from the calls made to it.  A   *)
(* bank reference is valid exactly while the bank is held, so a slot's     *)
(* Bank_Ref is identified with its Bank_Id.                                *)
(*                                                                         *)
(* A call that returns early changes nothing and is a stuttering step.     *)
(***************************************************************************)
EXTENDS Integers, FiniteSets, Sequences

CONSTANTS
    NumSlots,                 \* bank_reserve_size
    NumPrograms,              \* Bank_Manager::program_count
    BankIds,                  \* the bank numbers the player can hold
    NoBank,                   \* Bank_Id(), the number an empty slot keeps
    Voices,                   \* what an instrument is, its delays apart
    NoVoice,                  \* the voice of a program of a new bank
    Delays,                   \* the key-on and key-off delays, as one value
    NoDelay,                  \* those of an instrument nobody measured
    Names,                    \* the texts a name field can hold
    NoName,                   \* the empty one
    MaxProgramNotifications,  \* max_program_notifications
    MaxProgramMeasurements,   \* max_program_measurements
    DefaultBanks,             \* the banks of the bank file loaded at first
    DefaultInstruments        \* and their instruments

Slots == 1 .. NumSlots
Programs == 0 .. NumPrograms - 1
Instruments == [voice : Voices, delays : Delays, blank : BOOLEAN]

\* What the library fills a new bank with.
BlankInstrument == [voice |-> NoVoice, delays |-> NoDelay, blank |-> TRUE]

Flags == {"Notify", "NeedMeasurement", "KeepName", "NoReplaceExisting"}

ASSUME ConstantsAssumption ==
    /\ NumSlots \in Nat \ {0}
    /\ NumPrograms \in Nat \ {0}
    /\ NoBank \notin BankIds
    /\ NoVoice \in Voices
    /\ NoDelay \in Delays
    /\ NoName \in Names
    /\ MaxProgramNotifications \in Nat \ {0}
    /\ MaxProgramMeasurements \in Nat \ {0}

ASSUME DefaultsAssumption ==
    /\ DefaultBanks \in Seq(BankIds)
    /\ Len(DefaultBanks) <= NumSlots
    /\ \A i, j \in DOMAIN DefaultBanks :
          DefaultBanks[i] = DefaultBanks[j] => i = j
    /\ DefaultInstruments \in [BankIds -> [Programs -> Instruments]]

VARIABLES
    slots,              \* bank_infos_
    slots_notify_flag,  \* the editor must be told which programs are in use
    held,               \* the banks the player holds (library)
    ins                 \* the instruments of each bank it holds (library)

vars == <<slots, slots_notify_flag, held, ins>>

-----------------------------------------------------------------------------
(* Slots.                                                                  *)

EmptySlot ==
    [id |-> NoBank, used |-> {}, to_notify |-> {}, to_measure |-> {},
     bank_name |-> NoName, ins_names |-> [p \in Programs |-> NoName]]

IsFirst(s, S) == s \in S /\ \A t \in S : s <= t

SlotsOf(id) == {s \in Slots : slots[s].id = id}

\* Wrong, to try the checks: any bank may be evicted once no slot is empty.
AnySlots == {s \in Slots : slots[s].id = NoBank \/ NoBank \notin {slots[t].id : t \in Slots}}
\* A slot that is no bank, or a bank whose programs are all blank.
EmptySlots == {s \in Slots : slots[s].id = NoBank \/ slots[s].used = {}}

NonBlank(programs) == {p \in Programs : ~programs[p].blank}

\* Wrong, to try the checks: the bank is never removed from the player.
HeldStill(s) == held

\* The player after slot s was emptied: its bank, if it had one, removed.
HeldWithout(s) == held \ {slots[s].id}
InsWithout(s) ==
    [b \in BankIds |-> IF b = slots[s].id
                       THEN [p \in Programs |-> BlankInstrument]
                       ELSE ins[b]]

-----------------------------------------------------------------------------
(* initialize_all_banks, and the names the constructor reads.              *)

DefaultSlot(id) ==
    LET used == NonBlank(DefaultInstruments[id])
    IN  [EmptySlot EXCEPT !.id = id, !.used = used]

Init ==
    /\ slots = [s \in Slots |-> IF s \in DOMAIN DefaultBanks
                                THEN DefaultSlot(DefaultBanks[s])
                                ELSE EmptySlot]
    /\ held = {DefaultBanks[i] : i \in DOMAIN DefaultBanks}
    /\ ins = [b \in BankIds |-> IF \E i \in DOMAIN DefaultBanks : DefaultBanks[i] = b
                                THEN DefaultInstruments[b]
                                ELSE [p \in Programs |-> BlankInstrument]]
    /\ slots_notify_flag = FALSE

-----------------------------------------------------------------------------
(* load_program.                                                           *)

With(S, p, b) == IF b THEN S \cup {p} ELSE S \ {p}


\* What the slot records of a program the player took.
Recorded(info, p, i, name, flags) ==
    [info EXCEPT
        !.ins_names  = IF "KeepName" \in flags THEN @ ELSE [@ EXCEPT ![p] = name],
        !.used       = With(@, p, ~i.blank),
        !.to_measure = With(@, p, "NeedMeasurement" \in flags /\ ~i.blank),
        !.to_notify  = IF "Notify" \in flags THEN @ \cup {p} ELSE @]

\* The number of programs in use of the slot changed, and someone is to know.
FlagIfCountChanged(before, after, flags) ==
    slots_notify_flag' =
        (slots_notify_flag \/ ("Notify" \in flags /\ after.used # before.used))

\* The bank is there already, and the player takes the instrument.
LoadIntoExistingBank(s, id, p, i, name, flags) ==
    /\ IsFirst(s, SlotsOf(id))
    /\ "NoReplaceExisting" \in flags => ins[id][p].blank
    /\ LET info == Recorded(slots[s], p, i, name, flags)
       IN  /\ slots' = [slots EXCEPT ![s] = info]
           /\ FlagIfCountChanged(slots[s], info, flags)
    /\ ins' = [ins EXCEPT ![id][p] = i]
    /\ UNCHANGED held

\* The bank takes an empty slot, evicting the blank bank that was there.  The
\* player may refuse the bank, and the instrument after it took the bank.
LoadIntoEmptySlot(s, id, p, i, name, flags, answer) ==
    LET info == [EmptySlot EXCEPT !.id = id]
    IN  /\ SlotsOf(id) = {}
        /\ IsFirst(s, EmptySlots)
        /\ \/ /\ answer = "no bank"
              /\ slots' = [slots EXCEPT ![s] = EmptySlot]
              /\ held' = HeldWithout(s)
              /\ ins' = InsWithout(s)
              /\ UNCHANGED slots_notify_flag
           \/ /\ answer = "no instrument"
              /\ slots' = [slots EXCEPT ![s] = info]
              /\ held' = HeldWithout(s) \cup {id}
              /\ ins' = InsWithout(s)
              /\ UNCHANGED slots_notify_flag
           \/ /\ answer = "taken"
              /\ slots' = [slots EXCEPT ![s] = Recorded(info, p, i, name, flags)]
              /\ held' = HeldWithout(s) \cup {id}
              /\ ins' = [InsWithout(s) EXCEPT ![id][p] = i]
              /\ FlagIfCountChanged(info, Recorded(info, p, i, name, flags), flags)

Answers == {"no bank", "no instrument", "taken"}

LoadProgram(id, p, i, name, flags, answer) ==
    \E s \in Slots :
        \/ answer = "taken" /\ LoadIntoExistingBank(s, id, p, i, name, flags)
        \/ LoadIntoEmptySlot(s, id, p, i, name, flags, answer)

-----------------------------------------------------------------------------
(* Deleting.                                                               *)

\* Wrong, to try the checks: the used bit stays.
DeleteButStillUsed(id, p, notify) ==
    \E s \in Slots :
        /\ IsFirst(s, SlotsOf(id))
        /\ p \in slots[s].used
        /\ ins' = [ins EXCEPT ![id][p].blank = TRUE]
        /\ slots_notify_flag' = (slots_notify_flag \/ notify)
        /\ UNCHANGED <<slots, held>>

DeleteProgram(id, p, notify) ==
    \E s \in Slots :
        /\ IsFirst(s, SlotsOf(id))
        /\ p \in slots[s].used
        /\ ins' = [ins EXCEPT ![id][p].blank = TRUE]
        /\ slots' = [slots EXCEPT ![s].used = @ \ {p}]
        /\ slots_notify_flag' = (slots_notify_flag \/ notify)
        /\ UNCHANGED held

\* Wrong, to try the checks: the slot loses its number and nothing else.
DeleteIdOnly(id, notify) ==
    \E s \in Slots :
        /\ IsFirst(s, SlotsOf(id))
        /\ slots' = [slots EXCEPT ![s].id = NoBank]
        /\ held' = HeldWithout(s)
        /\ ins' = InsWithout(s)
        /\ slots_notify_flag' = (slots_notify_flag \/ notify)

DeleteBank(id, notify) ==
    \E s \in Slots :
        /\ IsFirst(s, SlotsOf(id))
        /\ slots' = [slots EXCEPT ![s] = EmptySlot]
        /\ held' = HeldWithout(s)
        /\ ins' = InsWithout(s)
        /\ slots_notify_flag' = (slots_notify_flag \/ notify)

ClearBanks(notify) ==
    /\ slots' = [s \in Slots |-> EmptySlot]
    /\ held' = held \ {slots[s].id : s \in Slots}
    /\ ins' = [b \in BankIds |-> IF SlotsOf(b) # {}
                                 THEN [p \in Programs |-> BlankInstrument]
                                 ELSE ins[b]]
    /\ slots_notify_flag' = (slots_notify_flag \/ notify)

-----------------------------------------------------------------------------
(* Renaming.  assign_name stores the text that fits and says whether that  *)
(* was a change; a name here is the text that fits.                        *)

RenameBank(id, name, notify) ==
    \E s \in Slots :
        /\ IsFirst(s, SlotsOf(id))
        /\ name # slots[s].bank_name
        /\ slots' = [slots EXCEPT ![s].bank_name = name]
        /\ slots_notify_flag' = (slots_notify_flag \/ notify)
        /\ UNCHANGED <<held, ins>>

RenameProgram(id, p, name, notify) ==
    \E s \in Slots :
        /\ IsFirst(s, SlotsOf(id))
        /\ name # slots[s].ins_names[p]
        /\ slots' = [slots EXCEPT
                        ![s].ins_names[p] = name,
                        ![s].to_notify = IF notify THEN @ \cup {p} ELSE @]
        /\ UNCHANGED <<slots_notify_flag, held, ins>>

-----------------------------------------------------------------------------
(* A measurement the worker made of instrument i, stored in the program if *)
(* it still is that instrument, its delays apart.                          *)

EqualExceptDelays(i, j) == i.voice = j.voice /\ i.blank = j.blank

LoadMeasurement(id, p, i, delays, notify) ==
    \E s \in Slots :
        /\ IsFirst(s, SlotsOf(id))
        /\ EqualExceptDelays(i, ins[id][p])
        /\ ins' = [ins EXCEPT ![id][p].delays = delays]
        /\ slots' = [slots EXCEPT ![s].to_notify = IF notify THEN @ \cup {p} ELSE @]
        /\ UNCHANGED <<slots_notify_flag, held>>

-----------------------------------------------------------------------------
(* What waits to be sent, in the order of the loops that send it: by slot, *)
(* then by program.  A cycle sends the first few of them, as many as the   *)
(* queue has room for and at most the cap of the cycle.                    *)

Before(x, y) == x[1] < y[1] \/ (x[1] = y[1] /\ x[2] < y[2])

FirstOf(sent, pending, cap) ==
    /\ sent \subseteq pending
    /\ Cardinality(sent) <= cap
    /\ \A x \in sent, y \in pending \ sent : Before(x, y)

\* The way a cycle goes through those it sends.
InOrder(sent) ==
    {order \in [1 .. Cardinality(sent) -> sent] :
        /\ sent = {order[k] : k \in DOMAIN order}
        /\ \A j, k \in DOMAIN order : j < k => Before(order[j], order[k])}

ToNotify  == {x \in Slots \X Programs : x[2] \in slots[x[1]].to_notify}
ToMeasure == {x \in Slots \X Programs : x[2] \in slots[x[1]].to_measure}

\* The list of the banks goes first; when there is no room for it, nothing is
\* sent.
SendNotifications(sent) ==
    /\ FirstOf(sent, ToNotify, MaxProgramNotifications)
    /\ slots_notify_flag' = FALSE
    /\ slots' = [s \in Slots |->
                   [slots[s] EXCEPT !.to_notify = {p \in @ : <<s, p>> \notin sent}]]
    /\ UNCHANGED <<held, ins>>

SendMeasurementRequests(sent) ==
    /\ FirstOf(sent, ToMeasure, MaxProgramMeasurements)
    /\ slots' = [s \in Slots |->
                   [slots[s] EXCEPT !.to_measure = {p \in @ : <<s, p>> \notin sent}]]
    /\ UNCHANGED <<slots_notify_flag, held, ins>>

MarkSlotsForNotification ==
    /\ slots_notify_flag' = TRUE
    /\ UNCHANGED <<slots, held, ins>>

MarkEverythingForNotification ==
    /\ slots_notify_flag' = TRUE
    /\ slots' = [s \in Slots |->
                   IF slots[s].id = NoBank THEN slots[s]
                   ELSE [slots[s] EXCEPT !.to_notify = slots[s].used]]
    /\ UNCHANGED <<held, ins>>

-----------------------------------------------------------------------------
Next ==
    \/ \E id \in BankIds, p \in Programs, i \in Instruments, name \in Names,
          flags \in SUBSET Flags, answer \in Answers :
          LoadProgram(id, p, i, name, flags, answer)
    \/ \E id \in BankIds, p \in Programs, notify \in BOOLEAN :
          DeleteProgram(id, p, notify)
    \/ \E id \in BankIds, notify \in BOOLEAN : DeleteBank(id, notify)
    \/ \E notify \in BOOLEAN : ClearBanks(notify)
    \/ \E id \in BankIds, name \in Names, notify \in BOOLEAN :
          RenameBank(id, name, notify)
    \/ \E id \in BankIds, p \in Programs, name \in Names, notify \in BOOLEAN :
          RenameProgram(id, p, name, notify)
    \/ \E id \in BankIds, p \in Programs, i \in Instruments, d \in Delays,
          notify \in BOOLEAN :
          LoadMeasurement(id, p, i, d, notify)
    \/ \E sent \in SUBSET ToNotify : SendNotifications(sent)
    \/ \E sent \in SUBSET ToMeasure : SendMeasurementRequests(sent)
    \/ MarkSlotsForNotification
    \/ MarkEverythingForNotification

Spec == Init /\ [][Next]_vars

-----------------------------------------------------------------------------
SlotRecords ==
    [id : BankIds \cup {NoBank}, used : SUBSET Programs,
     to_notify : SUBSET Programs, to_measure : SUBSET Programs,
     bank_name : Names, ins_names : [Programs -> Names]]

\* The types of the slots, of the flag and of what the player holds.
TypeOK ==
    /\ slots \in [Slots -> SlotRecords]
    /\ slots_notify_flag \in BOOLEAN
    /\ held \in SUBSET BankIds
    /\ ins \in [BankIds -> [Programs -> Instruments]]

\* The slots and the player agree on the banks there are, whatever the player
\* refused on the way: no bank has two slots, a slot never keeps a reference to
\* a bank the player has not, and the player never keeps a bank no slot knows
\* (load_program, delete_bank and clear_banks pair every removal with
\* forget_bank).
SlotsAreTheBanksHeld ==
    /\ \A s, t \in Slots : slots[s].id = slots[t].id /\ slots[s].id # NoBank => s = t
    /\ held = {slots[s].id : s \in Slots} \ {NoBank}

\* A program counts as being in use exactly while the player has an instrument
\* there that is not blank; the editor's list of banks, the state that is saved
\* and the choice of the slot to evict all go by this bit.
UsedIsNotBlank ==
    \A s \in Slots : slots[s].id # NoBank => slots[s].used = NonBlank(ins[slots[s].id])

\* A slot that is no longer a bank holds nothing: no bit and no name of the bank
\* that was there is left for the one that comes (forget_bank).
EmptySlotHoldsNothing ==
    \A s \in Slots : slots[s].id = NoBank => slots[s] = EmptySlot

\* A bank the player does not hold is all blank, so that a bank which comes back
\* comes back empty.
AbsentBankIsBlank ==
    \A b \in BankIds \ held : ins[b] = [p \in Programs |-> BlankInstrument]

\* The bookkeeping, as an inductive invariant.
IInv ==
    /\ TypeOK
    /\ SlotsAreTheBanksHeld
    /\ UsedIsNotBlank
    /\ EmptySlotHoldsNothing
    /\ AbsentBankIsBlank

\* The bank manager is a store of the instruments that are not blank: whatever
\* slot a bank takes and whichever blank bank is evicted for it, no program but
\* the one that was named comes, goes or changes, and no more banks hold
\* something than there are slots.
Nothing == NoBank
Shown(i) == IF i.blank THEN Nothing ELSE [voice |-> i.voice, delays |-> i.delays]
Stored == [b \in BankIds |-> [p \in Programs |-> Shown(ins[b][p])]]

Store == INSTANCE BankStore WITH
    Sounds <- [voice : Voices, delays : Delays], Capacity <- NumSlots, store <- Stored

StoreSpec == Store!Spec

\* send_measurement_requests asserts that a program it sends to be measured is
\* in use; it is the next one it comes to.
NextToMeasure == {x \in ToMeasure : \A y \in ToMeasure : y = x \/ Before(x, y)}
OnlyUsedProgramsAreMeasured == \A x \in NextToMeasure : x[2] \in slots[x[1]].used
=============================================================================
