--------------------------- MODULE GlobalParameters ---------------------------
(***************************************************************************)
(* The parameters that are of a bank and not of a program - the volume     *)
(* model, and for the OPL3 the deep tremolo and vibrato and the MT-32      *)
(* defaults, for the OPN2 the LFO - where they are kept: the parameters    *)
(* the host and the editor set, the player, and the editor, between        *)
(* sources/plugin_processor.cc, plugin_state.cc, bank_load.h and the       *)
(* editor (ui/generic_main_component.tcc, opl3/ui, opn2/ui).               *)
(***************************************************************************)
EXTENDS Integers, Sequences

CONSTANTS Globals,      \* their names
          TopGlobal,    \* the last choice of a parameter, which count from nought
          WildValues,   \* values a project can hold and no parameter has
          DefaultGlobals,
          MaxToPlayer, MaxToEditor, \* room of the queues
          MaxGlobalSteps            \* changes, files and projects

ASSUME GlobalAssumption ==
    /\ TopGlobal \in Nat /\ WildValues \subseteq Int
    /\ DefaultGlobals \in [Globals -> 0 .. TopGlobal]
    /\ MaxToPlayer \in Nat \ {0} /\ MaxToEditor \in Nat \ {0} /\ MaxGlobalSteps \in Nat

VARIABLES
    globalParams,  \* the parameters
    playerGlobals, \* what the player runs
    globalsShown,  \* what the controls of the editor show
    globalChanged, \* the parameters are marked as changed
    globalNotice,  \* the player's are marked to be sent to the editor
    toPlayer,      \* the editor's messages: a file's parameters, or a request of the state
    toShow,        \* the processor's notifications
    since,         \* ghost: who set values after the last project, "host" and "file"
    globalSteps

globalVars == <<globalParams, playerGlobals, globalsShown, globalChanged, globalNotice,
                toPlayer, toShow, since, globalSteps>>

\* The values a parameter has.
GlobalValues == 0 .. TopGlobal
AllGlobals == [Globals -> GlobalValues]

\* The editor's messages: a file's parameters, or a request of the state.
LoadGlobals(globals) == [load |-> TRUE, globals |-> globals]
RequestGlobals == [load |-> FALSE]
GlobalMessages == {LoadGlobals(globals) : globals \in AllGlobals} \cup {RequestGlobals}

\* from_properties of a project's values, which a parameter holds to its choices as well.
Clamped(v) == IF v < 0 THEN 0 ELSE IF v > TopGlobal THEN TopGlobal ELSE v

\* The editor that is opened asks for the state, and no project has been read.
GlobalInit ==
    /\ globalParams = DefaultGlobals /\ playerGlobals = DefaultGlobals
    /\ globalsShown = DefaultGlobals
    /\ globalChanged = FALSE /\ globalNotice = FALSE
    /\ toPlayer = <<>> /\ toShow = <<>> /\ since = {} /\ globalSteps = 0

OneMoreStep == globalSteps < MaxGlobalSteps /\ globalSteps' = globalSteps + 1

\* A parameter that is set to what it has is not changed, and its listener not called.
SetGlobal(g, value) ==
    /\ globalParams' = [globalParams EXCEPT ![g] = value]
    /\ globalChanged' = (globalChanged \/ globalParams[g] # value)

\* A box or a button of the editor: comboBoxChanged and buttonClicked.
TurnGlobal(g, value) ==
    /\ OneMoreStep
    /\ globalsShown[g] # value
    /\ globalsShown' = [globalsShown EXCEPT ![g] = value]
    /\ SetGlobal(g, value)
    /\ UNCHANGED <<playerGlobals, globalNotice, toPlayer, toShow, since>>

\* The host calls the listener in any case.
HostSetsGlobal(g, value) ==
    /\ OneMoreStep
    /\ globalParams' = [globalParams EXCEPT ![g] = value]
    /\ globalChanged' = TRUE
    /\ since' = since \cup {"host"}
    /\ UNCHANGED <<playerGlobals, globalsShown, globalNotice, toPlayer, toShow>>

\* send_bank_file: the parameters of the file, and at its end a request of the whole state.
OpenBankFile(globals) ==
    /\ OneMoreStep
    /\ Len(toPlayer) + 2 <= MaxToPlayer
    /\ toPlayer' = toPlayer \o <<LoadGlobals(globals), RequestGlobals>>
    /\ UNCHANGED <<globalParams, playerGlobals, globalsShown, globalChanged, globalNotice,
                   toShow, since>>

\* handle_message: LoadGlobalParameters and RequestFullBankState.
HandleGlobals ==
    /\ toPlayer # <<>>
    /\ toPlayer' = Tail(toPlayer)
    /\ IF Head(toPlayer).load THEN
           /\ playerGlobals' = Head(toPlayer).globals
           /\ globalNotice' = (globalNotice \/ playerGlobals # playerGlobals')
           /\ since' = since \cup {"file"}
       ELSE /\ globalNotice' = TRUE
            /\ UNCHANGED <<playerGlobals, since>>
    /\ UNCHANGED <<globalParams, globalsShown, globalChanged, toShow, globalSteps>>

\* Wrong, to try the checks: the editor knows what it set.
ApplyUnnoticed ==
    /\ globalChanged
    /\ globalChanged' = FALSE
    /\ playerGlobals' = globalParams
    /\ UNCHANGED <<globalParams, globalsShown, globalNotice, toPlayer, toShow, since, globalSteps>>

\* apply_parameter_changes of a block: load_global_parameters_from_parameters.
ApplyGlobals ==
    /\ globalChanged
    /\ globalChanged' = FALSE
    /\ playerGlobals' = globalParams
    /\ globalNotice' = (globalNotice \/ playerGlobals # globalParams)
    /\ UNCHANGED <<globalParams, globalsShown, toPlayer, toShow, since, globalSteps>>

\* process_notifications: what does not fit stays marked.
NotifyGlobals ==
    /\ globalNotice /\ Len(toShow) < MaxToEditor
    /\ globalNotice' = FALSE
    /\ toShow' = Append(toShow, playerGlobals)
    /\ UNCHANGED <<globalParams, playerGlobals, globalsShown, globalChanged, toPlayer,
                   since, globalSteps>>

\* receive_global_parameters and set_global_parameters.
ReceiveGlobals ==
    /\ toShow # <<>>
    /\ toShow' = Tail(toShow)
    /\ globalsShown' = Head(toShow)
    /\ UNCHANGED <<globalParams, playerGlobals, globalChanged, globalNotice, toPlayer,
                   since, globalSteps>>

\* setStateInformation: what is marked as changed is replaced, and the parameters are set
\* to what the player then has, each of which tells its listener when it differs.
ReadGlobals(set) ==
    /\ OneMoreStep
    /\ playerGlobals' = [g \in Globals |-> Clamped(set[g])]
    /\ globalParams' = playerGlobals'
    /\ globalChanged' = (globalParams # globalParams')
    /\ globalNotice' = TRUE
    /\ since' = {}
    /\ UNCHANGED <<globalsShown, toPlayer, toShow>>

\* prepareToPlay again: what is on its way is lost with its queue, the changes are applied,
\* and the player made again is given what the old one had (recreate_player_keeping_state).
RemakeWithGlobals ==
    /\ OneMoreStep
    /\ toPlayer' = <<>> /\ toShow' = <<>>
    /\ globalChanged' = FALSE
    /\ playerGlobals' = IF globalChanged THEN globalParams ELSE playerGlobals
    /\ globalNotice' = TRUE
    /\ UNCHANGED <<globalParams, globalsShown, since>>

GlobalNext ==
    \/ \E g \in Globals : \E value \in GlobalValues : TurnGlobal(g, value)
    \/ \E g \in Globals : \E value \in GlobalValues : HostSetsGlobal(g, value)
    \/ \E globals \in AllGlobals : OpenBankFile(globals)
    \/ HandleGlobals
    \/ ApplyGlobals
    \/ NotifyGlobals
    \/ ReceiveGlobals
    \/ RemakeWithGlobals
    \/ \E set \in [Globals -> GlobalValues \cup WildValues] : ReadGlobals(set)

GlobalSpec == GlobalInit /\ [][GlobalNext]_globalVars

(***************************************************************************)
(* Properties.                                                             *)
(***************************************************************************)
\* The types of the parameters and of the queues, with the room the queues have.
GlobalsTypeOK ==
    /\ globalParams \in AllGlobals /\ playerGlobals \in AllGlobals
    /\ globalsShown \in AllGlobals
    /\ globalChanged \in BOOLEAN /\ globalNotice \in BOOLEAN
    /\ toPlayer \in Seq(GlobalMessages) /\ Len(toPlayer) <= MaxToPlayer
    /\ toShow \in Seq(AllGlobals) /\ Len(toShow) <= MaxToEditor
    /\ since \subseteq {"host", "file"}
    /\ globalSteps \in 0 .. MaxGlobalSteps

\* Without a file since the last project, the player has the parameters but for changes
\* that are marked.
PlayerHasParameters == "file" \notin since /\ ~globalChanged => globalParams = playerGlobals

\* The last notification has what the player runs, unless another is due.
LastNoticeIsPlayers ==
    ~globalNotice /\ toShow # <<>> => toShow[Len(toShow)] = playerGlobals

\* The editor that is told of everything shows, of each parameter, what it set itself or
\* what the player runs, where nobody else set any.
ShownIsKnown ==
    since = {} /\ ~globalNotice /\ toShow = <<>> =>
        \A g \in Globals : globalsShown[g] \in {globalParams[g], playerGlobals[g]}

\* All of it, as an inductive invariant.
GlobalsIInv ==
    GlobalsTypeOK /\ PlayerHasParameters /\ LastNoticeIsPlayers /\ ShownIsKnown

\* Nothing is on its way.
GlobalsSettled == ~globalChanged /\ ~globalNotice /\ toPlayer = <<>> /\ toShow = <<>>

\* Once nothing is on its way, the player and the parameters have the same values unless a
\* bank file was loaded over the project, and the editor shows them unless the host set
\* some as well, whatever order changes, blocks and notices came in
\* (apply_parameter_changes, process_notifications and receive_global_parameters).
GlobalsAgree ==
    GlobalsSettled =>
        /\ "file" \notin since => globalParams = playerGlobals
        /\ since = {} => globalsShown = playerGlobals
===============================================================================
