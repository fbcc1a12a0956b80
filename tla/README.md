# A verification of ADLplug-Next in TLA+

ADLplug-Next is a synthesiser plugin around two FM chip emulation libraries,
built with JUCE. What makes it more than a wrapper is in `src/sources`: a player
that several threads share, a store of instrument banks on top of a library that
may refuse things, queues between threads that must never wait, and settings that
arrive from a host, an editor and a saved project at once. These modules model
that part, and the steps of the OPL3 core in `src/sources/opl3/core` that depend
on an order, check it with TLC on small instances and prove most of their safety
properties with TLAPS for every value of the constants.

## 1. The system

### Threads

| thread | runs | may wait |
|---|---|---|
| audio (the host's) | `processBlock`: messages, parameters, MIDI, the player, notifications | never; it *tries* for the player lock and plays silence without it |
| worker | `Worker::run`: measures instruments, sets the player up | for its semaphore, for the player lock |
| host | `prepareToPlay`, `releaseResources`, state; writes parameters | for the player lock, for the worker to end |
| message (editor) | a timer that reads `mq_to_ui` and one that sends edits; writes parameters | no |

### Components

| component | state | operations | talks to | what is hard | what makes it correct |
|---|---|---|---|---|---|
| Bank manager (`bank_manager.cc`) | 64 slots: bank, used / to-notify / to-measure bits, names; one flag | load, delete, clear, rename, measurement, notify, request | player (calls), queues to editor and worker | slots are reused; the player may refuse half-way; bits go stale | slots = banks the player holds; used = not blank; nothing is left in a slot; only the named program changes |
| Message queue (`messages.cc`, `utility/simple_fifo.cc`) | ring of bytes stored twice, two indices | reserve, fill, publish, read in place, finish, give up | every thread | reader between two copies; wrap-around; a reservation that is abandoned | whole, once, in order, in one piece |
| Worker (`worker.cc`) | requests, quit flag, semaphore | receive, measure, set up, start, stop | both queues, player lock | stop meets a full queue, a long job, a lock; one token for several jobs | woken finds a message; the last request wins; stop returns; all is answered |
| Chip settings and resampling (`plugin_processor.cc`, `plugin_state.cc`) | parameters, marks, player, what it was made for, requests | write, mark, compare, request, apply, recreate, restore | host, editor, audio, worker | two reads of a parameter with a player made in between; a request overtaken by a change | the player runs the parameters; the editor shows the player |
| Processor: messages, MIDI, selections, state | selections, parameters and their marks, note counts, pieces of a block | `handle_message`, `handle_midi`, `process_parameter_changes`, `write_state`, `read_state` | all of the above | order of edits, host and program changes; blocks without the player; MIDI in pieces | parameters, channel and selection agree; a state read back is the state; no frame or event is lost or made twice |
| Editor (`ui/generic_main_component.tcc`) | a mirror of the banks, part, selections, messages that wait, dialogs | receive slots / instrument / selection / part, edit, select, files, timers | queues, parameters | mirror and selection out of step with the processor; a dialog whose program is no longer selected | mirror = banks once all was received; part and box agree; only what was confirmed goes |
| Parameters (`parameter_block`, `parameter_ex`) | values | set, notify | host, processor | values written and marked in two steps | ranges and round trips |
| Instruments (`adl/instrument*`, `utility/field_bitops.h`) | packed registers | conversions | parameters, state, files, controls | fields that share a byte or count down; operators numbered in two ways | what is shown is what the chip runs |
| Chip settings (`adl/chip_settings.cc`, `adl/player.h`) | one number for each field | hold to a range, replace what cannot be played | parameters, player, controls | a limit that depends on another field; what is shown is not what was set | the player runs what was last asked, as far as it can |
| Bank parameters (`Instrument_Global_Parameters`) | volume model, LFO, deep effects | set, apply, notify, write, read | parameters, player, controls, files | three copies with three writers | the copies agree |
| Measurer (`adl/measurer`) | a note on a chip of its own, the last frames, what was found | play a period, weigh, find | worker | the sound may rise after it fell; the end of the range of pitches | the times are those of the sound |
| Chip resampler (`utility/chip_resampler.h`) | frames held, the filter's phase | prepare, pull | player, audio | counting over unequal calls | no frame lost or made twice; the held ones fit |
| Bank files (`bank_load.h`, the editor) | what was saved | save, load, compare | bank manager, editor | a file is many messages, among others | the banks are those of the file |
| Pak, name fields | - | parse, write | bank files | lengths from outside | never out of range, text whole |
| OPL3 core (`opl3/core`) | queue of writes, registers, what each slot read, envelopes, noise | write, generate | player | a write lands in the middle of a pass that is worked out as a whole | every slot reads what the chip's slot reads |
| User interface | controls | drag, click, choose | parameters, processor | a control whose part changes under the hand | a gesture ends where it began |
| Configuration, tools | a file | - | - | - | - |

`PROJECT.json` lists each of them with its status, and the hazards of the code at
the lines where they bite.

## 2. The modules

| module | what | extends or instantiates |
|---|---|---|
| `BankStore` | abstract: a store of instruments of at most so many banks | |
| `BankManager` | `Bank_Manager` and the library's banks behind it | `INSTANCE BankStore` |
| `MessageQueue` | abstract: a queue of whole messages, by bytes taken | |
| `SimpleFifo` | `Messages` over `Simple_Fifo`, to the byte | `INSTANCE MessageQueue` |
| `Worker` | the worker, its queues and the threads around it | |
| `PlayerSettings` | chip settings and resampling on their way to the player and the editor | |
| `EditorMirror` | the editor's copy of the banks, kept by notifications | extends `BankManager` |
| `MeasurementLoop` | a program from its load to the delays measured for it | extends `BankManager` |
| `Selections` | parts: selections, parameters, channels of the player, project | |
| `EditorControls` | the editor's part, program box and controls, against the processor | |
| `AudioBlock` | pieces and segments of a block, MIDI events, notes | |
| `ChipResampler` | frames between the chip's rate and the host's | |
| `CoreWrites` | register writes of the OPL3 core, from the queue to the slots | |
| `CoreEnvelope` | the envelope of a slot under the chip's timer | |
| `CoreShared` | the noise, and the feedback queue of two slots | |
| `PackedFields` | fields packed in bytes | |
| `InstrumentFields` | the fields of an OPL3 instrument between file, parameters, controls and chip | extends `PackedFields` |
| `OpnInstrument` | the same of the OPN2, whose operators have names and numbers | extends `PackedFields` |
| `GlobalParameters` | the parameters of a bank between host, player, editor, file and project | |
| `ChipControls` | the chip settings field by field, with the menu and the sliders that set them | |
| `BankFiles` | bank and instrument files, and the dialogs of the program menu | extends `EditorMirror` |
| `Measurement` | one measurement of the worker, period by period | |
| `PlayerSettingsProofs` | theorems of the settings | extends `PlayerSettings` |
| `PartsProofs` | theorems of what a part has: its selection, and its instrument | extends `Selections`, `InstrumentFields`, `OpnInstrument` |
| `CoreProofs` | theorems of the OPL3 core | extends `CoreWrites`, `CoreShared`, `CoreEnvelope` |
| `ThreadsProofs` | theorems of the queue and of the worker | extends `SimpleFifo`, `Worker` |
| `AudioProofs` | theorems of a block of audio, of the resampler and of a measurement | extends `AudioBlock`, `ChipResampler`, `Measurement` |
| `BankProofs` | theorems of the bank manager, alone, with the worker and with the editor | extends `MeasurementLoop`, `EditorMirror` |
| `BankFilesProofs` | theorems of the bank files and the dialogs | extends `BankFiles`, `BankProofs` |
| `CopiesProofs` | theorems of what is kept in several places | extends `GlobalParameters`, `ChipControls`, `EditorControls` |
| `MCBanks` | the bank manager with one client at a time: anyone, the editor, the worker | extends `EditorMirror`, `MeasurementLoop` |
| `MCThreads` | the queue, the worker or the editor, whichever `between` says | extends `SimpleFifo`, `Worker`, `MCControls` |
| `MCCopies` | what is kept in several places, whichever `kind` says | extends `MCBanks`, `MCPlayerSettings`, `GlobalParameters`, `ChipControls` |
| `MCFiles` | the bank manager with the clients of `MCBanks` or the editor's files and dialogs | extends `MCBanks`, `BankFiles` |
| `MCParts` | one part of the program, whichever `part` says | extends `MCSelections`, `MCCore`, `AudioBlock`, `ChipResampler`, `CoreEnvelope`, `CoreShared`, `InstrumentFields`, `OpnInstrument`, `Measurement` |
| `MCSelections`, `MCControls`, `MCCore`, `MCPlayerSettings` | values of the constants; `MCCore` also runs one group of registers at a time | the component |

`MCThreads`, `MCCopies` and `MCParts` put modules that share no state side by side in
one run: the first state chooses one of them and the others stay in an initial state,
so that nothing is multiplied. `MCBanks` and `MCFiles` choose a client of the bank
manager in the same way; there the modules share the manager's state.

A definition whose comment begins with *Wrong, to try the checks* is a form of the
one after it that a plausible mistake would give; nothing in the specification
uses it. `PROJECT.json` pairs it with the property that must fail with it.

### BankManager

One variable per member: `slots` is `bank_infos_`, `slots_notify_flag` the flag.
The player's banks are `held` and `ins`; they belong to libADLMIDI and
libOPNMIDI, whose sources are not part of the repository, and are modelled from
the calls: a bank that is got for the first time is blank, a bank that is removed
is gone. A `Bank_Ref` is good as long as its bank is held, so the slot's number
stands for it. Every operation is one step, since it runs under the player lock.
`LoadProgram` takes what the player answers as an input: no bank, a bank but no
instrument, or both - these are the early returns at lines 206 and 224, after the
slot was emptied. A call that returns before changing anything stutters. An
instrument is its voice, its delays and its blank flag, which is what the code
distinguishes (`equal_instrument_except_delays`, `blank`); a name is one of a few
values. Sending takes the first so many of what is marked in the order of the two
loops; how many fit in the queue is a choice.

`BankStore` says what is promised beyond slots: seen as a function from bank and
program to instrument, each call changes only what it names. Eviction of a blank
bank, the order of slots and refusals must be invisible there.

### SimpleFifo

Each action is what one thread does between two looks at an index of
`juce::AbstractFifo` (external; its four operations are modelled, with the byte
that is always free). A cell of `buffer` holds the message and the number of the
byte in it rather than the byte, so that a byte of the wrong message or place
shows. `Sum` keeps unsigned arithmetic at the width `Word`. `ReserveBody` is the
second half of `Messages::write`; when it fails the header stays in the ring
unpublished. `GiveUp` is the worker that leaves a reserved result. `pending` is a
ghost. Publication is modelled as sequentially consistent, which is what the
release store and acquire load of `AbstractFifo` give for one reader and one
writer.

### Worker

The three threads step by step as far as they meet: `host` starts, stops, joins,
and holds the player lock; `audio` takes a block with the lock, reads results and
sends jobs, the message first and the semaphore after; `wpc` is the worker's place
in `run`. What a job does to the player is in `PlayerSettings`, and here is only
the time it holds the lock. Queues are counted in messages; that they behave as
queues is what `SimpleFifo` shows. `measure_requests_` is an unordered map, so
that any requested program may come first. `asked` and `answered` are ghosts and
start anew with each worker: what was on its way when the host prepares again is
dropped with the queues, as the code does.

### PlayerSettings

The chip parameters are one value `params`, written in one step and marked in
another (a JUCE parameter tells its listeners after it has changed); the code's
parameters are several, and a block may see some of them changed, which is one
more value. `Playable` is `playable_chip_settings` and `Rate`
`chip_sample_rate`, with the assumptions that hold of them: what is playable
stays as it is and keeps its rate. `holder` says who has the player lock and how
far it has come; a step ends wherever the code reads or writes the parameters
again, since the host writes them without the lock: `WriteState`, `CreatePlayer`,
`ReadState` and `GivePlayerState` are the parts of
`recreate_player_keeping_state`. `overtaken` is a ghost: the parameters were
found equal to what the player runs while other settings were on their way to it.
The requests of the editor to be told again, and `NotifyReady`, are left out: they
only add notifications.

### EditorMirror

`instrument_map` is the map of that name in the editor, by `pseudo_id`: a melodic
and a percussive bank of one number are two halves of an entry. `Send` is a cycle
of `send_notifications` with the messages it writes; `ReceiveBankSlots` and
`ReceiveInstrument` are the editor's two handlers. The code counts the room of
`mq_to_ui` in bytes, the model in messages. The editor never writes its copy for
an edit of its own: `EditNotifying` is what asks to be told (every message of the
editor, and the parameters), `EditSilently` what a bank file and a state do, who
ask for everything when they are through (`RequestEverything`). `silent` is a ghost
that says this is still to come; the queue is first in, first out (`SimpleFifo`).
A processor that is prepared again replaces the queue and has the editor ask for
everything again; `EditorControls` has that, for its own messages.

### MeasurementLoop

`LoadNew`, `EditVoice` and `Discard` are what happens to a program that was
loaded to be measured; `RequestMeasurements`, `TakeRequest`, `Measure` and
`TakeResult` are its way through the manager, `mq_to_worker_`, the map of requests
and `mq_from_worker_`. The measurer gives a voice its delays (`DelaysOf`), which
is all that is said of it. `RemakePlayer` is `recreate_player_keeping_state` as
far as the banks go: they come back without bits, and the queues are dropped.
`lost` is a ghost that says which programs were left with delays that are not
theirs by that, which the code accepts.

### Selections

A block is `BeginBlock`, the editor's messages (`HandleSelectProgram`,
`HandleLoadInstrument` and so on), the parts one by one (`SkipPart`, `PassOn`,
`LoadPart`: the mark is taken, then the parameters are read), and the host's MIDI.
A parameter is stored in one step and marked in another (`StoreParameter`,
`MarkParameter`) by the host, without the lock. `patch` is what each channel of
the library plays, `lib_bank` the bank select it was last sent and `midi_bank`
the one the processor keeps; the library's reading of a program change is external
and modelled from the calls. A drum part is numbered the other way about, as the
comment in `handle_midi` says. `NewInstance` is a plugin without a player, whose
parameters may be set already. `WriteState`, `OpenProject`, `Remake` and
`CreateFirstPlayer` are the state and the players made from it. `Held` is what
parameters hold of an instrument, whose ranges may be narrower: a tuning beyond
127 that a bank file has is narrowed when a part's parameters are applied, which
`ProjectSurvives` allows. `stale` is a ghost: parts whose program was changed by
an operation that does not set parameters. A project is modelled by the banks,
programs and selections it has; its text is not.

### EditorControls

The rest of the editor. `waiting` are `pending_messages_`, flushed by a timer and
by the next message; `box` and `knob` are what the program box and a control show;
`drag` is the control in the user's hand and `gestures` the parameters whose
gesture is open. The processor's half is what answers (`HandleEditorMessage`,
`Notify...`), and `ReleaseResources` and `PrepareToPlay` are where messages are
lost. A part has one control of each kind (slider, knob, operator), one value
stands for an instrument; `MaxActs` bounds what the user and the host do.

### AudioBlock

`StartBlock` is the entry of `processBlock` with its length and events,
`SilentPiece` and `StartPiece` what a piece does when it does not get the player
lock and when it does, `Segment` one of at most `midi_interval_max` frames with
the events it plays, `EndPiece` its end, where the lock is let go. `TakePlayer` and `LeavePlayer` are the
other threads. The early returns (no player, bypassed) are `Bypassed`. `mistimed`,
`missed` and `written` are ghosts. One MIDI channel; the MIDI messages of the
editor's keyboard are `fromUi`.

### ChipResampler

`Pull` is a call of the host, `Refill` one turn of its loop, `Return` its end. A
frame is its number in the stream. The cascade of filters is external: it makes
`up` frames for `down` of the chip's, after a delay, and no more than
`max_output()` says.

### CoreWrites, CoreEnvelope, CoreShared

The core works a whole pass of 36 slot times out at once, while a write lands in
the middle of one. `registers` and `copies` are what it keeps, `held` what every
slot last read, and `Relatched` which slots read anew. Against it runs the chip:
`history` says since when the registers read as they do, and `chip` is what each slot
then reads at its own moment, so that `held = chip` is the statement that the
core's short cut is right. `Applied` is `apply()`; the five
registers of a slot's own are read at one moment and are one field, `own`. `MCCore` takes registers
in groups that act on one another: the chain of four operators, the mode, the
channels' keys and panning, the rhythm mode.

`CoreEnvelope` is `envelope()` and `Counters::advance()` in integers: the timer of
`TimerBits` bits, the steps of every rate, the attack's exponent in nine bits,
while a player keys the slot and writes its rates at any time. `CoreShared` is
`noise_pass` against 18 times `noise_step`, and the queue in which two slots keep
their feedback against a queue for each.

### InstrumentFields, OpnInstrument

A layout of `PackedFields` is the byte, the place and the width of a field and whether
it counts down; `Packed` and `Unpacked` are `Field_Bitops`. The instrument goes from a
bank file to the parameters, the properties a project writes, the controls and the chip
and back. For the OPL3 one operator and one pair of operators stand for all of them;
bits of the registers that no accessor names are not written to a project. For the OPN2
two operators are followed, the two that change places between the chip's numbers and
the panels' names: `PanelOf`, `NumberOf` and `OperatorName` are the three tables of the
code that turn one into the other, each in a file of its own, and `ChipOperator` is the
order of the chip. `opnKept` is a ghost: what no parameter holds, as it was loaded.

### GlobalParameters

`globalParams`, `playerGlobals` and `globalsShown` are the three copies; the host, the
editor, a bank file, a project and a player made again write them. A bank file writes
the player's and not the parameters; until the next change of a parameter, which applies
all of them, the player has the file's. `since` is a ghost that says so: who has set
values since the last project. The queue from the editor carries only what matters here.

### ChipControls

`chipParams` are the parameters, `chip` what the player runs, `chipShown` what the editor
believes it runs, with which it compares every choice: what is shown already is not
sent (`AsShown`). `delayed` are the sliders that wait for a timer. `PlayableChip` is
`playable_chip_settings` in full, and `Held` what parameters do with values from a
project. `asked` is a ghost, what every field was last asked to be, and `hurried` one
that says something was asked while older settings were on their way (finding 2). How
a request travels is in `PlayerSettings`; here it is a queue, and a player is made in
one step.

### BankFiles

`messages` are the editor's messages to the bank manager, `dialog` the box that is open
with the program it was opened for, `box` the program selected by now. `Does` is
`handle_message` over the operations of `BankManager`. A file is the programs of each
bank; reading and writing its bytes is not modelled. `goes` of a message is a ghost: the
programs the user was told would go. `loaded` is one too: the file that was taken last.
`Release` is a processor that is prepared again, which drops what is on its way.

### Measurement

`OnPeriod`, `PeriodAgain` and `OffPeriod` are turns of the three loops of
`ComputeDurations`, `EndOfOn` what is between them. What the chip sounds like is free:
every period any level, so that it may fade and rise again. `WordOf` is `noteOn` in
integers, with the frequency in halves of a hertz; the exponential that gives it is a
set of inputs. `Added` is the history of the last frames, stored twice; frames are
numbers, so that one in the wrong place shows. `Stopped` is the flag of the worker.
`heardOn`, `heardOff` and `played` are ghosts.

## 3. What the runs show

| run | instance | shows |
|---|---|---|
| `threads` | a ring of 11 bytes, header of 2, bodies of 1, 2 and one whose length wraps; or 2 programs, 2 instruments, 2 jobs and 1 result; or 2 parts, 3 programs, queues of 2, 2 acts | `MessageInOnePiece`, `ReservedIsFree`, that the ring implements `MessageQueue`; `AnnouncedIsThere`, `LastRequestIsKept`, `StopReturns`, `AllIsAnswered`; `EditorIsOnItsPart` |
| `copies` | 3 settings over 2 rates, one not playable, 2 resamplings, queues of 2 and 1; or 5 fields of the chip, 4 emulators of which 2 are built, 3 choices; or 2 parameters of a bank and 4 changes; or 1 bank of 2 programs, 3 delays, 2 names, queues of 1, with the editor or the worker | `PlayerFollowsParameters`, `ResamplingIsInUse`, `EditorShowsThePlayer`; `ChipRunsWhatWasAsked`; `GlobalsAgree`; `UsedIsNotBlank`, `EditorMatchesTheBanks`, `MeasuredOrOnItsWay` |
| `settings_overtaken`, `settings_written` | the settings of `copies` | findings 2 and 3 |
| `files` | 3 banks, 2 of them halves of one entry, 2 slots, 1 program, a queue of 1; any client, the editor, or its files and dialogs with 2 acts | `SlotsAreTheBanksHeld`, `EmptySlotHoldsNothing`, that the manager implements `BankStore`, `EditorMatchesTheBanks`; `FileIsLoaded`, `OnlyWhatWasConfirmedGoes` |
| `bank_assert`, `editor_half` | that of `files` with any client; with the editor | findings 1 and 4 |
| `parts` | 2 parts, 2 banks of each kind, 2 programs, 3 sounds, 2 inputs; blocks of up to 13 frames in pieces of 3 and 8 and segments of 4; 5 ratios; 6 groups of two or three writes, with the slots they are of and a queue of 2; 2 voices; 40 passes; 2 instruments of either chip and 2 changes; 4 periods of 4 levels and 3 after the note, 3 pitches | `ParametersHoldTheSelection`, `ChannelPlaysTheProgram`, `ProjectSurvives`, `RemakeKeepsThePrograms`; `CountIsNotesHeld`, `BlockIsRendered`; `FramesConserved`, `PullReturns`; `SlotsReadAsTheChipDoes`, `OneWriteAPass`, `CopiesAreCurrent`, `RoutingIsByAlgorithm`; `LevelGoesOneWay`, `EnvelopeMovesOn`; `SharedIsAsIfOwn`; `ChipRunsWhatIsShown`, `OpnRunsWhatIsShown`; `MeasuredAsItSounds` |
| `selections_channel` | that of the selections in `parts` | finding 5 |
| `editor_selection`, `editor_gesture` | that of the editor in `threads`, 3 acts | findings 6 and 7 |
| `measured_top` | that of the measurement in `parts`, notes 114 and 115 | finding 8 |

Why these bounds are enough. More banks than slots is what makes a bank evict
another; with two slots one may be blank while the other is not, and with three
banks one can go and come back while both slots are others'. Two programs are
needed for "the count changed", for an order and for a cap of one. Eleven bytes
and messages of three and four put a message at every position, with the end of
the ring in its header, its body or between them. Room for two jobs and one
result is enough for a full queue on both sides, a second request for a program
that is being measured, and a result that waits while a newer one is asked for.
One notification fewer than there are to send is what makes one of them wait; a
chip at another rate and settings no player can run are both among the three.
For the editor, three banks of which two are halves of one entry evict
each other from two slots, with one message on its way that may be out of date
before it is read. Two acts of the user are a dialog and a file, or two of either, with a
processor that is prepared again between them; a file of two banks that are not both
there already evicts and fills both slots. A bank of two programs may lose one and keep the other,
which only the list tells, and be renamed meanwhile. Names and halves do not meet
in the code, so that each has a run of its own; `LoadFlags` leaves out the flags
that only decide whether a load does anything, or what is measured. Three delays
are those of two voices and none: a late result may then fit the program there is
or not.
One melodic part and the drum part are the two kinds of part there are; two inputs
of the host or the editor are a change and another one that crosses it, and in
`Selections` the inner steps of a block, a save or a player made again do not
count, so that each input falls between any two of them.
Blocks of 13 frames have pieces that do and do not end with a segment, and events
at the ends of either. The ratios go up and down, by whole numbers and not, and a
call may ask for less than is held. The groups of writes are those
that act on one another, with the four slots of a chain, slots of both banks and
drums to read them. Two bits of the timer give
every step the envelope takes, in every order of the two low bits; a smaller timer
only brings the states of a longer one closer together. Forty passes bring the
noise, which goes its one way from the reset, through every bit of its register.
An instrument of no bits and one of all bits show a bit that goes astray, and so do two
operators of which one has the bit that the other lacks.
Three choices are a field that is set, the field whose limit follows from it, and one of
the two again while the first is on its way. Four changes of a bank's parameters are a
project, a file and two of the host or the editor. Four periods may rise, fall, rise
and fall; three frames of history over periods of two are a window that begins in
either copy.
The proofs below lift the bounds where there are theorems: any number of banks, slots,
programs, parts, messages, settings and acts, any instruments and voices.

Deadlock is checked in the violation runs of `MCBanks` and `MCPlayerSettings`. In the
others it is not, since what the user and the host do there is counted (`MaxActs`,
`MaxInputs`, `MaxPasses`, `MaxTurns`, `MaxOpnTurns`, `MaxChoices`, `MaxGlobalSteps`,
`MaxFileActs`) and the system may stop when it runs out, as a measurement that is over
does; what must go on in them is stated as liveness.

### Fairness

Three modules need it. In `Worker`, the worker's own steps, and the steps of a block that has
begun, are weakly fair: threads are scheduled. The host lets go of the lock and,
once it has begun to stop the worker, goes on to join it; it need not begin, and
need not start the worker again. `BeginBlock` and `LockPlayer` are strongly fair:
each happens if the lock is free again and again. For the worker that is the
mutex it waits on, which another thread holds for bounded times; for the audio
thread it is blocks that come again and again, of which one finds the lock free.
`StopReturns` does not need the audio thread, which the host does not run then.
`AllIsAnswered` supposes that requests stop coming and the worker is not stopped.
In `CoreEnvelope` passes go on (`WF(Pass)`): the player works samples out as long
as blocks come. In `ChipResampler` the loop of a call goes on: it is one thread.

## 4. What is proved

Each proof rests only on the named assumptions on the constants of its modules
(`ConstantsAssumption`, `DefaultsAssumption`, `MirrorAssumption`, `LoopAssumption`,
`FifoAssumption`, `WorkerAssumption`, `SettingsAssumption`, `GlobalAssumption`,
`ChipAssumption`, `EditorControlsAssumption`, `PartsAssumption`,
`ResamplerAssumption`, `AudioAssumption`, `CoreAssumption`, `EnvelopeAssumption`,
`MeasurementAssumption`, `FilesAssumption`, `InstrumentAssumption`, `OpnAssumption`):
bytes and the fields of registers have as many bits as the code gives them, sizes are
positive numbers, levels are not negative, "none" is not one of the values,
the first bank file has distinct banks that fit, two banks of one number are one
melodic and one percussive bank, the capacity of the ring is less than the numbers of
an unsigned int, what a player can run it runs as it is and at the same rate, the core
sends no address for 70 slot times after a data byte (the code waits 72), and an interval
of audio is an even number of frames. TLC evaluates them in the runs. TLC evaluated every invariant
named here on the instance of a run.

**BankProofs, the bank manager.** `IInv` adds to the properties that a bank the player does
not hold is blank (`AbsentBankIsBlank`): without it a bank that comes back could
bring instruments that no bit knows. Most operations write one slot, and
`OneSlotWritten` is their common argument. `BanksCorrect`, `UsedCorrect`,
`ForgottenCorrect` and `TypeCorrect` follow. `Refinement` shows
`Spec => Store!Spec`: an evicted bank shows nothing in the store, and the banks
that show something inject into slots, which bounds their number.

**BankProofs, its clients.** Two systems of the bank manager and a client, on top of `IInv`.
With the worker (`LoopIInv`): the *last* request of a program in the queue is of the
program as it is, or, with none there, the one the worker took, or a result
(`LastRequestIsOf`); earlier ones may be of anything, and a result that no longer fits
is refused. With the editor (`MirrorIInv`): the list of the banks is still to be sent, or
is the last one in the queue, or is what the editor has, and every instrument behind it
agrees with it (`ListIsTold`); and every program that has no to-notify bit is told by
the last notice in the queue that changes it (`ProgramsAreTold`). The two need each
other: a list with the program in it leaves it as it is, one without it makes it blank,
so that what is behind a list in the queue has to be in agreement with it. The
room of the queue and the number of notices sent in a cycle are free.
`MeasurementsCorrect`, `EditorMirrorCorrect` and the types.

**BankFilesProofs.** A bank file is taken in many steps, each a message of its own, with
messages of other dialogs before and behind it, and any of them may drop programs. So
`FilesIInv` gives every message that waits a note, of which file, which of its banks and
which program of that bank it is, or of none (`Noted`); the messages of a file follow
each other (`Follows`), and the one that is taken next finds the file taken as far as its
note says (`Taken`): all programs of the banks before it are there as in the file, and no
other program is. It has `MirrorIInv`, since what the editor saves is what it was told.
`BankFilesCorrect` is the end of that, when the last message was taken
(`AllTakenIsLoaded`), for files of any banks in any order with the melodic ones first.
`ConfirmedCorrect` says of every message that the programs that go with it are among those
its box named (`MessageOK`), whatever was evicted or loaded while it waited: what a box
said is kept with the message, and a new program goes into no other's place.
`EditorShowsLoadedBanks` and `FilesTypeCorrect` go with it. A bank of a
file that has only blank programs is none afterwards: that was found by this proof, and
`FileIsLoaded` says it (`WithPrograms`).

**ThreadsProofs, the queue.** What is published lies end to end from `validStart`
(`PendingFillsTheRing`), both halves hold it (`BothHalvesHold`), the reader is at
the first of it and the writer only in free space (`WriterIsOnItsWay`). The key
lemma is that free space is never part of what is pending, in either half
(`FreeSpaceIsNotPending`). `PieceCorrect`, `ReservedCorrect`, `FifoTypeCorrect`, and
`Refinement`: `FifoSpec => Queue!Spec`. The definitions of the state machine
are named `FifoInit`, `FifoNext`, `FifoTypeOK` and so on, since `MCThreads` has
several machines.

**ThreadsProofs, the worker.** `AnnouncedCorrect` rests on `TokensAreMessages`: the semaphore
and the token in hand count the messages, less the one not yet posted, and one
more while the host joins; and on `QuitTokenWaits`: a worker that passed the check
has not taken the token that stops it. `LastRequestCorrect` is inductive by
itself given the types: every step moves the newest value of a program one stage
on.

**PlayerSettingsProofs.** `SettingsOnTheirWay` says why the player comes to run the
parameters: they are being written, or marked, or a block has taken the mark; or
the last request of the queue asks for them (earlier ones may ask for anything);
or there is no request, and the player has them or is being made. The lemmas on
queues say what a message put behind, or the first one taken, does to the last
request for chip settings. `ResamplingKept` says where the resampling may differ
from that of the player. `SettingsCorrect`, `ResamplingCorrect`, `TypeCorrect`.

`NoticesOnTheirWay` says the same of the editor, for each of the two things it shows:
the last notice of it in the queue has what the player runs, or one is due; but for a
player that is being made, of which it will be told when it has its state.
`EditorCorrect` follows.

**CopiesProofs.** Three modules in which a value is kept in several places, each with
the same argument: follow every copy to the last message that will change it.
`GlobalsIInv` has one part for each pair of copies: the player has the parameters but
for marked changes, unless a file came after the project (`PlayerHasParameters`); the
last notice has what the player runs (`LastNoticeIsPlayers`); what the editor shows
before it is told is known one parameter at a time (`ShownIsKnown`), since it may have
set some and not be told of others. `ChipIInv` does so for the chip
(`LastRequestIsParameters`, `LastNoticeIsChip`), and adds that the parameters are played
as what was asked would be (`PlayedAlike`): fields hold each other to ranges, so that
equality would not be kept. `ControlsIInv` adds to `EditorIsOnItsPart` where in the
queue the last notice of the part is (`PartIsTold`). `GlobalsCorrect`, `ChipCorrect`,
`ControlsCorrect` and the types.

**PartsProofs, the selection.** The invariant has four parts besides the properties. `AtOK` says
what a thread can be doing with the player; `SavedOK` that a written state has no empty
bank; `CleanOK` that until something is changed the player has the project's programs as
they were, or as the parameters hold them (`ProgramsAsOpened`), and the parameters that
are still to be passed on are those of the program selected (`ParametersAsOpened`).
Without the last part a block after the project was opened could write anything.
`ParametersCorrect`, `ChannelsCorrect`, `ProjectCorrect`, `RemakeCorrect` (an action
property) and the types. An attempt at this proof found two faults of the model, which
are gone: a plugin without a player could not have its parameters set before a project
was opened (`NewInstance` now starts there), and a project opened then went on as if there
had been a block.

**PartsProofs, the instrument of the OPL3.** A byte is what is below a field, the field
and what is above it (`ByteParts`), and so `Packed` sets the field (`PackedSets`) and
leaves every other whose bits are elsewhere (`PackedLeaves`); a field that is counted down
is turned twice (`TurnedTwice`). `FieldTable` writes the seventeen fields down, and
`FieldsApart` goes through the pairs: either their registers are two or one field
ends where the other begins, or before. With that `WithKnobs`, which calls the accessors
one after the other, is followed from call to call: in the end every field with a
parameter has its value, and the others are as before (`KnobsAreSet`, and `FieldsAreSet`
for all of them). So parameters that are applied are those the instrument has
then (`ParametersAreApplied`), and a project keeps it but for the bits no accessor names
(`PropertiesKeep`). `InstrumentIInv` has it that the parameters and the controls
are those of the instrument unless there are changes to apply; without the parameters in
it an application could undo what the host has set. In such a state each number the chip
takes from a byte is a field (`FieldsByBits`), which is what its control shows, the key
scaling after two swaps. `InstrumentCorrect` holds of all bytes a file may have.
A step sets a parameter to an end of its range or to one (`KnobChoices`, `OpnChoices`),
in the theorem too; `ParametersAreApplied`, on which it rests, is of every value.

**PartsProofs, the instrument of the OPN2.** The same, with two things more. The accessors
of a place are one chain (`FieldsAtAreSet`), and the places another (`PlacesAreSet`), in
which each writes bytes of its own (`OneMorePlace`). And a name and a panel are
of one operator each (`NamesAreOfPlaces`), so that what `CHOOSE` finds in `OpnParameters` and
`OpnShown` is the operator that was meant; with the operators of `PanelOf` in the order of
the diagrams this proof fails, as it should. `OpnCorrect` holds of any set of the four
operators. A sum such as 8 times the enable bit and the wave is one number of the byte
by `OperatorByBits` and `ReadTogether`.

**AudioProofs.** `CountIsNotesHeld` is inductive by itself for one message
(`HandledKeeps`: a note on that is held already is not counted again, a note off that is
not held is not taken off); for the messages of a block it is an induction over them
(`AllHandledKeeps`). For `BlockIsRendered`, `AudioIInv` says where in the block the audio
thread is and that all before it is written (`PiecesFollow`), that the events that wait
are in order and in the block (`EventsWait`), and that none of them is late
(`NoneIsLate`). A segment reads up to the first event that does not play now
(`ReadsArePlayed`); what is behind it is not due either, because the events are in order,
and at the end of the block every event plays now, which is why none is left.
`NotesCounted`, `BlocksRendered`.

For the resampler, `CountsAgree` ties the place of the held frames to the frames given
so far; with the products of the ratio it is an argument about linear arithmetic, which
the lemmas split. `ResamplerCorrect` (`FramesConserved`) holds of every ratio, every
size of block and every delay of the filter.

For a measurement, `MeasurementIInv` says what was found of the levels heard so far: the
peak is the first of the greatest (`PeakSoFar`), what faded after it was found or nothing
has (`FadeSoFar`), and the same of the note that was let go (`SilenceSoFar`). It is stated
of every turn of the loops and not only of their end, since a louder level starts the
search for what faded anew (`OnPeriodFinds`). `IsHistory` has every one of the last frames
in both halves of the history; `AddedKeeps` is one frame, `PeriodKeepsHistory` the induction
over those of a period. `TimesMeasured` follows for every length of the periods and of the
history. `MeasuredCorrect` adds the pitch (`NoteAsNumber`, by cases of the eight octaves),
for notes below 128 times (2 `FullNumber` - 1) in the unit of `hertz`, where the octaves
end: on the OPL3 every note up to 114. Above that the chip is told another note (finding 8).

**CoreProofs.** `CoreIInv` has the copies of the registers, by `SpreadMakesCurrent`: a
write that changes a channel's registers spreads them to every slot that has copies of
them. The loop of `schedule_writes()` is a recursive function; that it sends one write in
a sample at the most, and leaves a wait that keeps the next away, is found by an induction
over the slot times that are left (`ScheduledGives`). `WritesApart` carries that over to
the next pass. What the slots hold is then one of two things: the registers as they stand
(`ReadAtOnce`), or what they were before the last write for the slots whose turn came
before it (`ReadInTurn`), and that for one pass, in which nothing else is due. In either
case it is what `ChipReads` finds in the history of the registers.
`SlotsReadCorrectly` holds for every set of slots watched and every order and spacing of
the writes; `CopiesCorrect`, `WritesStayApart` and the types follow. `RoutingCorrect` adds
that slots of a channel or of a chain hold the same of what they share: they read it at
the same slot time (`TimesAgree`) from the same register (`ReadsAgree`).

`SharedCorrect`: `Moved` says of a register that n steps were taken from another, bit by
bit, with what each of the eighteen steps of a pass feeds (`Fed`); a step moves it on
(`StepMoves`), and 2^k steps at once by as many (`MovesDouble`), so that sixteen and two
leave what `noise_pass()` writes down in one go. The register is never empty because a
step from the empty one feeds a bit. Of the queue, `QueueFollows` says which of its places
are the slots' own, by the passes since the low one was held.

`LevelCorrect` needs no more than the types (`EnvelopeIInv`), since the direction of
the level is one of arithmetic: the attack adds the complement of the level shifted down,
which is at most the way to nought in nine bits, and a linear step is 4 at the most and
is not taken from the last eight levels, which are silent. The timer may hold anything
in it, so that it holds of chips whose timers began elsewhere.

The type invariants of these components are theorems and in no run; TLC evaluated
each before it was proved.

**Induction over data.** The library's induction theorems take the predicate as a
parameter, which the provers cannot be given. Where the definition is a recursive
function, `AudioProofs` and `CoreProofs` use the set of the numbers for which the predicate
holds instead: `LeastOfSet` follows from the library's `WFMin`, and `InductionBySet` from
it. The recursive function itself is then shown to be what its definition says
(`ScheduledIs`).

**Only model-checked:** liveness (`StopReturns`, `AllIsAnswered`, `PullReturns`,
`EnvelopeMovesOn`), which is out of the prover's reach under fairness; and that the timer
of the envelope keeps to `TimerBits` bits (`EnvelopeTypeOK`), which would need powers of
two by an induction over data, and on which no theorem rests.

## 5. Findings

1. `delete_program` leaves the to-measure bit of the program it deletes. Loaded
   with a request to measure and deleted in one batch of messages, the program
   trips `assert(info.used.test(p_i))` in `send_measurement_requests`
   (`bank_assert`).
2. `process_parameter_changes` compares the parameters with the player, not with
   what it last asked of the worker. A change that is taken back before the worker
   has applied it is found equal, and the older request is applied afterwards; the
   player stays with it (`settings_overtaken`).
3. `recreate_player_keeping_state` sets the parameters to what they were when it
   began. What the host writes in between is lost (`settings_written`), although
   the comment above the function says that parameters are kept. A chip type
   written in that time also leaves a player made for the rate of the one and
   given the settings of the other.
4. `receive_bank_slots` deletes an entry of the editor when no bank of the list has
   its number, and leaves the half that is not in the list as it was. A melodic bank
   that loses its last program, or is not in the bank file that was loaded, goes on
   being shown while a percussive bank of its number has a program, and the other
   way round (`editor_half`), although `src/DEVELOPER-NOTES.md:76` requires the
   copies to be kept in synchronization. Banks that are in use are always shown as
   they are (`EditorMatchesTheBanks`).

5. A choice of the editor (`SelectProgram`) sends the library a bank select that the
   processor does not keep in `midi_bank_msb_` and `midi_bank_lsb_`. A program change
   of the host after it sounds in that bank, and is recorded - and shown, and edited -
   in the one the host last selected (`selections_channel`), although the comment
   there says that the record is kept the way the library reads the message.
6. The handler of that message tells the editor nothing. A program change of the
   host whose notification is on its way at the time leaves the editor on the host's
   program and the processor on the editor's (`editor_selection`), against
   `src/DEVELOPER-NOTES.md:76`.
7. The end of a drag ends the gesture of the part in view then, not of the one the
   drag began with. A notification of the active part in between, which comes when
   the plugin is prepared again, leaves a parameter in its gesture for good
   (`editor_gesture`), which JUCE asserts against.
8. The measurer caps a frequency above the range and then halves it once more than
   there are octaves. On the OPL3 the block carries into the key-on bit of the word and
   the note is measured as silence (`measured_top`); on the OPN2 the block comes out as
   nought, the lowest octave. The comments at
   `src/sources/opl3/adl/measurer/measurer.cpp:200` and
   `src/sources/opn2/adl/measurer/measurer.cpp:192` say that such a note is measured at
   the highest frequency there is.

Four more things the models show, which no document speaks against: a player made
again forgets which programs were to be measured, and they keep the delays they had
(`lost` in `MeasurementLoop`); a value of a bank file beyond the range of its
parameter changes when any parameter of its part does (`Held` in `Selections`);
parameters that are set before a project is opened in a plugin without a player are
marked again when the first player is made (`plugin_processor.cc:1169`), and go to the
program the project selects, which may create a bank the project does not have
(`NewInstance` in `Selections`); and the parameters of a bank file go to the player and not to the parameters of the plugin
(`plugin_processor.cc:739`), so that the next change of any of those takes them all back
(`since` in `GlobalParameters`).

A remark of no run: comments at `src/sources/utility/realtime.h:25` and
`src/sources/plugin_processor.cc:968` say that the player lock is held while an
instrument is measured. `Worker::measure` does not take it.

## 6. Plan

Written so far, in this order: `BankManager` with `BankStore`, `SimpleFifo` with
`MessageQueue`, `Worker`, `PlayerSettings`, `EditorMirror`; then `MeasurementLoop`,
`Selections`, `EditorControls`, `AudioBlock`, `ChipResampler`, `CoreWrites`,
`CoreEnvelope`, `CoreShared`, `InstrumentFields`; then `OpnInstrument` with
`PackedFields`, `GlobalParameters`, `ChipControls`, `BankFiles`, `Measurement`.

Theorems written so far: those of `BankManager`, `SimpleFifo`, `Worker` and
`PlayerSettings`; then those of `Selections`, `ChipResampler`, `GlobalParameters`,
`ChipControls`, `EditorControls`, `MeasurementLoop` and `EditorMirror`; then those of
`AudioBlock`, `CoreWrites`, `CoreShared` and `Measurement`; then those of `BankFiles`,
`CoreEnvelope`, `InstrumentFields` and `OpnInstrument`. Every safety property of a passing
run is a theorem now, `OnlyWhatWasConfirmedGoes` as `GoesAsConfirmed`, which it is for
the client of `MCFiles` whose messages are confirmed.

Models that could follow: the phase of a slot and the mixing of the core's channels,
the resampling editor, name fields, the configuration.

## 7. Not modelled

- Widgets: making, laying out and painting them. This is most of the lines of
  `ui/main_component.cc`, `operator_editor.cc` and the components of both plugins,
  emitted by the Projucer once; what their handlers do is in `EditorControls`,
  `ChipControls`, `BankFiles`, `InstrumentFields` and `OpnInstrument`.
- Samples: filter design, loudness, waves, mixing, meters.
- The passes of the core that are written in assembly, and its tables;
  `tools/corecmp` compares them with the reference sample by sample.
- Text: fields of names, the bytes of bank and project files, the archive of bank files,
  the configuration. Each is a pure function of bytes, which the fuzz targets run.
- Tables (`midi/insnames.cc`), tools, fuzz targets and tests.
- The libraries, JUCE, libADLMIDI and libOPNMIDI, but for what the code asks of them.

These are the larger part of the implementation's lines, which is why the share of
them that definitions are mapped to is small.
