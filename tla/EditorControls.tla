---------------------------- MODULE EditorControls ----------------------------
(***************************************************************************)
(* The editor's part, program box and controls, and the processor as they  *)
(* hear from it and write to it (sources/ui/generic_main_component.tcc,    *)
(* main_component.cc and operator_editor.cc of either plugin).  A change   *)
(* of program or part is a message, which waits for a block; a control is  *)
(* a parameter of the part shown, written at once, for a block to pass on  *)
(* to the program.  What the processor has is told back later.             *)
(*                                                                         *)
(* An instrument is the value of one parameter, a part has one control of  *)
(* each kind, and every program is in use (EditorMirror has the others).   *)
(* Each thing the user or the host does counts against MaxActs.            *)
(***************************************************************************)
EXTENDS Integers, Sequences

CONSTANTS
    EditorParts,    \* 16
    KitPart,        \* 9, which plays drums
    BoxPrograms,    \* bank and program
    KitPrograms,    \* those of percussive banks
    FirstPrograms,  \* what each part selects at first
    KnobValues,     \* 0 is what an empty instrument has
    QueueRoom,      \* the messages a queue takes
    MaxActs

ASSUME EditorControlsAssumption ==
    /\ KitPart \in EditorParts /\ KitPrograms \subseteq BoxPrograms
    /\ FirstPrograms \in [EditorParts -> BoxPrograms]
    /\ 0 \notin BoxPrograms
    /\ 0 \in KnobValues /\ QueueRoom \in Nat \ {0} /\ MaxActs \in Nat

VARIABLES
    prepared,     \* the processor has queues
    active_part,  \* active_part_
    selected,     \* selection_
    voices,       \* the instruments of the banks
    values,       \* the parameters
    to_apply,     \* parameter_changed_cb_
    tell_part, tell_selection, tell_program,  \* what is marked for notification
    mq_from_ui, mq_to_editor,
    waiting,      \* pending_messages_
    midichannel, midiprogram, imap,  \* and instrument_map_
    box,          \* what cb_program shows, or NoChoice
    knob,         \* what the control shows
    drag,         \* the kind of control that is dragged, or "none"
    gestures,     \* parameters whose gesture was begun and not ended
    acts

processorVars == <<active_part, selected, voices, values, to_apply>>
marks == <<tell_part, tell_selection, tell_program>>
shown == <<midichannel, midiprogram, imap, box, knob>>
editorControlsVars == <<prepared, processorVars, marks, mq_from_ui, mq_to_editor, waiting,
                        shown, drag, gestures, acts>>

NoChoice == 0
Kinds == {"slider", "knob", "operator"}
Message(tag, p, g, v) == [tag |-> tag, part |-> p, program |-> g, value |-> v]
Bare(tag) == Message(tag, KitPart, NoChoice, 0)

ControlsInit ==
    /\ prepared = TRUE /\ active_part = KitPart /\ selected = FirstPrograms
    /\ voices = [g \in BoxPrograms |-> 0] /\ values = [p \in EditorParts |-> 0]
    /\ to_apply = {} /\ tell_part = FALSE /\ tell_selection = {} /\ tell_program = {}
    /\ mq_from_ui = <<>> /\ mq_to_editor = <<>> /\ waiting = <<>>
    /\ midichannel = KitPart /\ midiprogram = FirstPrograms
    /\ imap = voices /\ box = FirstPrograms[KitPart] /\ knob = 0
    /\ drag = "none" /\ gestures = {} /\ acts = 0

Act == acts < MaxActs /\ acts' = acts + 1

-----------------------------------------------------------------------------
(* Messages to the processor: write_raw_to_processor and its timer.  They  *)
(* wait in order while the queue is full, and are dropped where there is   *)
(* none.                                                                   *)

FlushMessages(messages) ==
    LET room == IF prepared THEN QueueRoom - Len(mq_from_ui) ELSE 0
        sent == IF Len(messages) < room THEN Len(messages) ELSE room
    IN  /\ mq_from_ui' = mq_from_ui \o SubSeq(messages, 1, sent)
        /\ waiting' = IF prepared THEN SubSeq(messages, sent + 1, Len(messages)) ELSE <<>>

WriteToProcessor(messages) == FlushMessages(waiting \o messages)

FlushTimer ==
    /\ waiting # <<>> /\ FlushMessages(waiting)
    /\ UNCHANGED <<prepared, processorVars, marks, mq_to_editor, shown, drag, gestures, acts>>

StateRequests ==
    <<Bare("RequestFullBankState"), Bare("RequestSelections"), Bare("RequestActivePart")>>

-----------------------------------------------------------------------------
(* What the editor shows.                                                  *)

\* The programs of the menu while it is on part p (update_instrument_choices).
Menu(p) == IF p = KitPart THEN KitPrograms ELSE BoxPrograms \ KitPrograms

\* set_program_selection and reload_selected_instrument, with part p.
ShowProgram(p, g) ==
    /\ box' = (IF g \in Menu(p) THEN g ELSE NoChoice)
    /\ knob' = IF box' = NoChoice THEN 0 ELSE imap'[box']


ReceiveSelection(p, g) ==
    /\ midiprogram' = [midiprogram EXCEPT ![p] = g]
    /\ UNCHANGED <<midichannel, imap>>
    /\ IF p = midichannel THEN ShowProgram(p, g) ELSE UNCHANGED <<box, knob>>

\* An instrument that is as it was changes nothing.
ReceiveInstrument(g, v) ==
    /\ imap' = [imap EXCEPT ![g] = v]
    /\ UNCHANGED <<midichannel, midiprogram>>
    /\ IF imap[g] # v THEN ShowProgram(midichannel, box) ELSE UNCHANGED <<box, knob>>

OnChangeMidiChannel(p) ==
    /\ midichannel' = p
    /\ UNCHANGED <<midiprogram, imap>>
    /\ IF p # midichannel THEN ShowProgram(p, midiprogram[p]) ELSE UNCHANGED <<box, knob>>

\* process_notifications, one message.
ReceiveNotification ==
    /\ mq_to_editor # <<>>
    /\ LET m == Head(mq_to_editor)
       IN  /\ IF m.tag = "NotifyReady" THEN WriteToProcessor(StateRequests)
              ELSE UNCHANGED <<mq_from_ui, waiting>>
           /\ \/ m.tag = "NotifyReady" /\ UNCHANGED shown
              \/ m.tag = "NotifyInstrument" /\ ReceiveInstrument(m.program, m.value)
              \/ m.tag = "NotifySelection" /\ ReceiveSelection(m.part, m.program)
              \/ m.tag = "NotifyActivePart" /\ OnChangeMidiChannel(m.part)
    /\ mq_to_editor' = Tail(mq_to_editor)
    /\ UNCHANGED <<prepared, processorVars, marks, drag, gestures, acts>>

-----------------------------------------------------------------------------
(* The user.                                                               *)

NotEditor == UNCHANGED <<prepared, active_part, selected, voices, marks, mq_to_editor>>

\* comboBoxChanged with handle_selected_program.
SelectInBox(g) ==
    /\ Act /\ drag = "none" /\ g \in Menu(midichannel) \ {box}
    /\ midiprogram' = [midiprogram EXCEPT ![midichannel] = g]
    /\ WriteToProcessor(<<Message("SelectProgram", midichannel, g, 0)>>)
    /\ UNCHANGED <<midichannel, imap>> /\ ShowProgram(midichannel, g)
    /\ NotEditor /\ UNCHANGED <<values, to_apply, drag, gestures>>

\* The slider of the MIDI channel (sliderValueChanged).
ChoosePart(p) ==
    /\ Act /\ drag = "none"
    /\ WriteToProcessor(<<Message("SetActivePart", p, NoChoice, 0)>>)
    /\ NotEditor /\ UNCHANGED <<values, to_apply, shown, drag, gestures>>

BeginGesture(kind) ==
    /\ Act /\ drag = "none" /\ drag' = kind
    /\ gestures' = gestures \cup {<<kind, midichannel>>}
    /\ NotEditor /\ UNCHANGED <<values, to_apply, mq_from_ui, waiting, shown>>

EndGesture(kind) ==
    /\ drag = kind /\ drag' = "none"
    /\ gestures' = gestures \ {<<kind, midichannel>>}
    /\ NotEditor /\ UNCHANGED <<values, to_apply, mq_from_ui, waiting, shown, acts>>

SliderDragStarted == BeginGesture("slider")
SliderDragEnded == EndGesture("slider")
KnobDragStarted == BeginGesture("knob")
KnobDragEnded == EndGesture("knob")
OperatorDragStarted == BeginGesture("operator")
OperatorDragEnded == EndGesture("operator")

\* A parameter takes a value, and marks its part for one it did not have.
SetParameter(p, v) ==
    /\ values' = [values EXCEPT ![p] = v]
    /\ to_apply' = IF v = values[p] THEN to_apply ELSE to_apply \cup {p}

WriteValue(kind, v) ==
    /\ drag = kind /\ v # knob /\ knob' = v
    /\ SetParameter(midichannel, v)
    /\ NotEditor /\ UNCHANGED <<mq_from_ui, waiting, midichannel, midiprogram, imap, box,
                                drag, gestures>>

SliderValueChanged(v) == Act /\ WriteValue("slider", v)
KnobValueChanged(v) == Act /\ WriteValue("knob", v)
OperatorValueChanged(v) == Act /\ WriteValue("operator", v)

\* A button that stands for a value is a gesture of its own.
ButtonClicked(v) ==
    /\ Act /\ drag = "none" /\ WriteValue("none", v)

-----------------------------------------------------------------------------
(* A block: messages, then parameters, then notifications.                 *)

Editing == UNCHANGED <<waiting, shown, drag, gestures>>

\* set_instrument_parameters_notifying_host, for a part that selects g.
Follow(p, g) == SetParameter(p, voices[g])

HandleSelection(p, g) ==
    /\ selected' = [selected EXCEPT ![p] = g]
    /\ IF selected[p] # g THEN Follow(p, g) ELSE UNCHANGED <<values, to_apply>>
    /\ UNCHANGED <<active_part, voices, marks>>

\* Wrong, to try the checks: the part is the active one and nobody is told.
HandlePartSilently(p) ==
    /\ active_part' = p
    /\ UNCHANGED <<selected, voices, values, to_apply, marks>>

HandleActivePart(p) ==
    /\ active_part' = p
    /\ tell_part' = (tell_part \/ p # active_part)
    /\ UNCHANGED <<selected, voices, values, to_apply, tell_selection, tell_program>>

HandleRequest(tag) ==
    /\ tell_program' = IF tag = "RequestFullBankState" THEN BoxPrograms ELSE tell_program
    /\ tell_selection' = IF tag = "RequestSelections" THEN EditorParts ELSE tell_selection
    /\ tell_part' = (tell_part \/ tag = "RequestActivePart")
    /\ UNCHANGED processorVars

HandleEditorMessage ==
    /\ mq_from_ui # <<>>
    /\ LET m == Head(mq_from_ui)
       IN  \/ m.tag = "SelectProgram" /\ HandleSelection(m.part, m.program)
           \/ m.tag = "SetActivePart" /\ HandleActivePart(m.part)
           \/ m.tag \notin {"SelectProgram", "SetActivePart"} /\ HandleRequest(m.tag)
    /\ mq_from_ui' = Tail(mq_from_ui)
    /\ Editing /\ UNCHANGED <<prepared, mq_to_editor, acts>>

\* A program change of the host.
HostSelects(p, g) ==
    /\ Act /\ prepared /\ (p = KitPart) = (g \in KitPrograms)
    /\ selected' = [selected EXCEPT ![p] = g]
    /\ Follow(p, g)
    /\ tell_selection' = tell_selection \cup {p}
    /\ Editing
    /\ UNCHANGED <<prepared, active_part, voices, tell_part, tell_program, mq_from_ui, mq_to_editor>>

\* load_instrument_from_parameters, which has the editor told.
ApplyPart(p) ==
    /\ prepared /\ p \in to_apply /\ to_apply' = to_apply \ {p}
    /\ voices' = [voices EXCEPT ![selected[p]] = values[p]]
    /\ tell_program' = tell_program \cup {selected[p]}
    /\ Editing
    /\ UNCHANGED <<prepared, active_part, selected, values, tell_part, tell_selection,
                   mq_from_ui, mq_to_editor, acts>>

Notify(m) ==
    /\ prepared /\ Len(mq_to_editor) < QueueRoom
    /\ mq_to_editor' = Append(mq_to_editor, m)
    /\ Editing /\ UNCHANGED <<prepared, processorVars, mq_from_ui, acts>>

NotifyInstrument(g) ==
    /\ g \in tell_program /\ tell_program' = tell_program \ {g}
    /\ Notify(Message("NotifyInstrument", KitPart, g, voices[g]))
    /\ UNCHANGED <<tell_part, tell_selection>>

NotifyActivePart ==
    /\ tell_part /\ tell_part' = FALSE
    /\ Notify(Message("NotifyActivePart", active_part, NoChoice, 0))
    /\ UNCHANGED <<tell_selection, tell_program>>

NotifySelection(p) ==
    /\ p \in tell_selection /\ tell_selection' = tell_selection \ {p}
    /\ Notify(Message("NotifySelection", p, selected[p], 0))
    /\ UNCHANGED <<tell_part, tell_program>>

-----------------------------------------------------------------------------
(* The host takes the processor's resources, or has it prepare again.      *)

ReleaseResources ==
    /\ Act /\ prepared /\ prepared' = FALSE
    /\ mq_from_ui' = <<>> /\ mq_to_editor' = <<>>
    /\ Editing /\ UNCHANGED <<processorVars, marks>>

PrepareToPlay ==
    /\ Act /\ prepared' = TRUE
    /\ mq_from_ui' = <<>> /\ mq_to_editor' = <<Bare("NotifyReady")>>
    /\ tell_part' = TRUE /\ tell_selection' = EditorParts /\ tell_program' = BoxPrograms
    /\ Editing /\ UNCHANGED processorVars

ControlsNext ==
    \/ FlushTimer \/ ReceiveNotification \/ HandleEditorMessage
    \/ \E g \in BoxPrograms : SelectInBox(g) \/ NotifyInstrument(g)
    \/ \E p \in EditorParts :
          \/ ChoosePart(p) \/ ApplyPart(p) \/ NotifySelection(p)
          \/ \E g \in BoxPrograms : HostSelects(p, g)
    \/ SliderDragStarted \/ SliderDragEnded \/ KnobDragStarted \/ KnobDragEnded
    \/ OperatorDragStarted \/ OperatorDragEnded
    \/ \E v \in KnobValues :
          \/ SliderValueChanged(v) \/ KnobValueChanged(v) \/ OperatorValueChanged(v)
          \/ ButtonClicked(v)
    \/ NotifyActivePart \/ ReleaseResources \/ PrepareToPlay

ControlsSpec == ControlsInit /\ [][ControlsNext]_editorControlsVars

-----------------------------------------------------------------------------
\* Nothing is under way between the two, nor in the user's hand.
Settled ==
    /\ prepared /\ mq_from_ui = <<>> /\ mq_to_editor = <<>> /\ waiting = <<>>
    /\ to_apply = {} /\ ~tell_part /\ tell_selection = {} /\ tell_program = {}
    /\ drag = "none"

\* The editor comes to be on the processor's part, whatever messages the host
\* had dropped by releasing the processor or preparing it again
\* (request_state_from_processor, SetActivePart and mark_state_for_notification).
EditorIsOnTheActivePart == Settled => midichannel = active_part

\* The program box never shows a program the part in view does not have, as
\* parts change and programs are told of in any order (on_change_midi_channel,
\* receive_selection, update_instrument_choices).
BoxShowsNoOtherProgram == box \in {NoChoice, midiprogram[midichannel]}

\* The editor's part and program box are those the processor means.
EditorIsOnItsPart == EditorIsOnTheActivePart /\ BoxShowsNoOtherProgram

\* The messages there are, either way.
ProcessorMessages ==
    {Message("SelectProgram", p, g, 0) : p \in EditorParts, g \in BoxPrograms}
      \cup {Message("SetActivePart", p, NoChoice, 0) : p \in EditorParts}
      \cup {Bare(tag) : tag \in {"RequestFullBankState", "RequestSelections", "RequestActivePart"}}
EditorNotices ==
    {Message("NotifyInstrument", KitPart, g, v) : g \in BoxPrograms, v \in KnobValues}
      \cup {Message("NotifySelection", p, g, 0) : p \in EditorParts, g \in BoxPrograms}
      \cup {Message("NotifyActivePart", p, NoChoice, 0) : p \in EditorParts}
      \cup {Bare("NotifyReady")}

\* What each variable holds; a queue no more than it has room for, and none without
\* a processor that is prepared.
QueuesOK ==
    /\ mq_from_ui \in Seq(ProcessorMessages) /\ Len(mq_from_ui) <= QueueRoom
    /\ mq_to_editor \in Seq(EditorNotices) /\ Len(mq_to_editor) <= QueueRoom
    /\ waiting \in Seq(ProcessorMessages)
    /\ ~prepared => mq_from_ui = <<>> /\ mq_to_editor = <<>>
ProcessorOK ==
    /\ prepared \in BOOLEAN /\ active_part \in EditorParts
    /\ selected \in [EditorParts -> BoxPrograms]
    /\ voices \in [BoxPrograms -> KnobValues] /\ values \in [EditorParts -> KnobValues]
    /\ to_apply \subseteq EditorParts
MarksOK ==
    /\ tell_part \in BOOLEAN /\ tell_selection \subseteq EditorParts
    /\ tell_program \subseteq BoxPrograms
ShownOK ==
    /\ midichannel \in EditorParts /\ midiprogram \in [EditorParts -> BoxPrograms]
    /\ imap \in [BoxPrograms -> KnobValues]
    /\ box \in BoxPrograms \cup {NoChoice} /\ knob \in KnobValues
HandOK ==
    /\ drag \in Kinds \cup {"none"} /\ gestures \subseteq Kinds \X EditorParts
    /\ acts \in 0..MaxActs
ControlsTypeOK == QueuesOK /\ ProcessorOK /\ MarksOK /\ ShownOK /\ HandOK

\* The processor's part is what the last notice of a part on its way to the editor
\* says (the one at k), or else, with none on its way, the part the editor is on.
PartToldAt(k) ==
    /\ IF k = 0 THEN midichannel = active_part
       ELSE mq_to_editor[k] = Message("NotifyActivePart", active_part, NoChoice, 0)
    /\ \A j \in k + 1 .. Len(mq_to_editor) : mq_to_editor[j].tag # "NotifyActivePart"
PartIsTold == prepared /\ ~tell_part => \E k \in 0..Len(mq_to_editor) : PartToldAt(k)

ControlsIInv == ControlsTypeOK /\ PartIsTold /\ BoxShowsNoOtherProgram

\* DEVELOPER-NOTES.md, of the selection of each channel and the programs, which
\* both sides have a copy of: the data is to be in synchronization.
EditorShowsTheSelection ==
    Settled => midiprogram = selected /\ (box # NoChoice => knob = voices[box])

\* What the assertion of endChangeGesture and beginChangeGesture asks: once the
\* control is let go, no parameter is still in the gesture.
GestureEndsWhereItBegan == drag = "none" => gestures = {}
=============================================================================
