--------------------------- MODULE PlayerSettings ---------------------------
(***************************************************************************)
(* How the chip settings of the parameters and the resampling the editor   *)
(* asks for reach the player (src/sources/plugin_processor.cc, with the    *)
(* jobs of src/sources/worker.cc), and what the editor is told of them.    *)
(* The host writes parameters whenever it likes and marks them; the audio  *)
(* thread compares them with what the player runs and has the worker apply *)
(* them; a player that runs at another rate is made again, and its state   *)
(* written before and read back after.                                     *)
(*                                                                         *)
(* Whoever holds the player lock is at `holder'; what is done under it in  *)
(* one go is one step, parted only where a parameter is read again.        *)
(***************************************************************************)
EXTENDS Integers, Sequences

CONSTANTS
    Settings,     \* the chip settings parameters can have
    Playable,     \* playable_chip_settings: what the player runs for them
    Rate,         \* chip_sample_rate: and the rate it runs at
    Designs,      \* the resampling settings
    NoDesign,     \* an empty optional
    NoSettings,   \* when no state is written
    MaxRequests,  \* the messages mq_to_worker has room for
    MaxSettingsNotices    \* and mq_to_ui

ASSUME SettingsAssumption ==
    /\ Playable \in [Settings -> Settings]
    /\ \A s \in Settings : /\ Playable[Playable[s]] = Playable[s]
                          /\ Rate[Playable[s]] = Rate[s]
    /\ DOMAIN Rate = Settings
    /\ NoDesign \notin Designs /\ NoSettings \notin Settings
    /\ MaxRequests \in Nat \ {0} /\ MaxSettingsNotices \in Nat \ {0}

VARIABLES
    playing,          \* prepared, and the queues are there
    params,           \* the chip settings of the parameters
    writing,          \* a parameter was written and is not marked yet
    changed,          \* Cb_ChipSettings of pr_changed_
    holder,           \* who holds the player lock, and where in it
    saved,            \* the chip settings in the state that was written
    player,           \* get_player_chip_settings
    rate_in_use,      \* chip_rate_in_use_
    resampling, resampling_in_use, resampling_to_request,
    requests,         \* mq_to_worker: the settings to apply
    notify,           \* Cb_ChipSettings and Cb_Resampling of to_notify_
    notices,          \* mq_to_ui
    shown,            \* what the editor shows of both
    overtaken         \* ghost: the parameters became what the player ran then,
                      \* while other settings were still on their way to it

params_vars == <<params, writing, changed>>
player_vars == <<saved, player, rate_in_use, resampling, resampling_in_use>>
editor_vars == <<notices, shown>>
settingsVars == <<playing, params, writing, changed, holder, saved, player, rate_in_use,
          resampling, resampling_in_use, resampling_to_request, requests, notify,
          notices, shown, overtaken>>

Chip(s) == [what |-> "chip", value |-> s]
Resampling(d) == [what |-> "resampling", value |-> d]

\* prepareToPlay for the first time: the player is made for the parameters.
SettingsInit ==
    /\ playing = TRUE
    /\ params \in Settings /\ writing = FALSE /\ changed \in BOOLEAN
    /\ holder = "free" /\ saved = NoSettings
    /\ player = Playable[params] /\ rate_in_use = Rate[params]
    /\ resampling \in Designs /\ resampling_in_use = resampling
    /\ resampling_to_request = NoDesign
    /\ requests = <<>> /\ notices = <<>>
    /\ notify = {"chip", "resampling"}
    /\ shown = [chip |-> player, resampling |-> resampling]
    /\ overtaken = FALSE

\* Wrong, to try the checks: the resampling is not compared.
MadeForItsRateOnly(s, d) == Rate[s] = rate_in_use

\* player_matches_settings, of settings and a resampling.
MadeFor(s, d) == d = resampling_in_use /\ Rate[s] = rate_in_use

\* Chip settings that are on their way to the player.
ChipRequests(queue) == {k \in DOMAIN queue : queue[k].what = "chip"}
ChipRequested == ChipRequests(requests)

-----------------------------------------------------------------------------
(* The host and the editor write parameters, without the lock, and every   *)
(* listener is told after that (parameterValueChangedEx).                  *)

WriteParameter(s) ==
    /\ ~writing
    /\ params' = s /\ writing' = TRUE
    /\ UNCHANGED <<playing, changed, holder, player_vars, resampling_to_request>>
    /\ UNCHANGED <<requests, notify, editor_vars, overtaken>>

MarkParameter ==
    /\ writing
    /\ writing' = FALSE /\ changed' = TRUE
    /\ UNCHANGED <<playing, params, holder, player_vars, resampling_to_request>>
    /\ UNCHANGED <<requests, notify, editor_vars, overtaken>>

-----------------------------------------------------------------------------
(* The audio thread: a block, with the player.                             *)


WorkerHasRoom == Len(requests) < MaxRequests

\* The editor sets the resampling; the last of what waits is what is sent.
SetResampling(d) ==
    /\ playing /\ holder = "free"
    /\ IF WorkerHasRoom THEN /\ requests' = Append(requests, Resampling(d))
                       /\ resampling_to_request' = NoDesign
                  ELSE /\ resampling_to_request' = d
                       /\ UNCHANGED requests
    /\ UNCHANGED <<playing, params_vars, holder, player_vars>>
    /\ UNCHANGED <<notify, editor_vars, overtaken>>

\* process_parameter_changes sends the resampling that waits, if there is room
\* now, and takes the mark.
BeginBlock ==
    /\ playing /\ holder = "free"
    /\ IF resampling_to_request # NoDesign /\ WorkerHasRoom
       THEN /\ requests' = Append(requests, Resampling(resampling_to_request))
            /\ resampling_to_request' = NoDesign
       ELSE UNCHANGED <<requests, resampling_to_request>>
    /\ changed' = FALSE
    /\ holder' = IF changed THEN "block: taken" ELSE "block: compared"
    /\ UNCHANGED <<playing, params, writing, player_vars>>
    /\ UNCHANGED <<notify, editor_vars, overtaken>>

\* Without room in the queue, the mark is put back.
CompareSettings ==
    /\ holder = "block: taken"
    /\ holder' = "block: compared"
    /\ IF Playable[params] = player
       THEN /\ overtaken' = (ChipRequested # {})
            /\ UNCHANGED <<requests, changed>>
       ELSE IF WorkerHasRoom
       THEN /\ requests' = Append(requests, Chip(params))
            /\ overtaken' = FALSE
            /\ UNCHANGED changed
       ELSE /\ changed' = TRUE
            /\ UNCHANGED <<requests, overtaken>>
    /\ UNCHANGED <<playing, params, writing, player_vars, resampling_to_request>>
    /\ UNCHANGED <<notify, editor_vars>>

\* What there is to tell the editor, the chip settings first.
SettingsTold == (IF "chip" \in notify THEN <<Chip(player)>> ELSE <<>>)
        \o (IF "resampling" \in notify THEN <<Resampling(resampling)>> ELSE <<>>)

\* process_notifications: what does not fit stays marked.
SendSettings ==
    /\ holder = "block: compared"
    /\ \E n \in 0 .. Len(SettingsTold) :
          /\ n = Len(SettingsTold) \/ Len(notices) + n = MaxSettingsNotices
          /\ Len(notices) + n <= MaxSettingsNotices
          /\ notices' = notices \o SubSeq(SettingsTold, 1, n)
          /\ notify' = notify \ {SettingsTold[k].what : k \in 1 .. n}
    /\ holder' = "free"
    /\ UNCHANGED <<playing, params_vars, player_vars, resampling_to_request>>
    /\ UNCHANGED <<requests, shown, overtaken>>

-----------------------------------------------------------------------------
(* recreate_player_keeping_state, by whoever holds the player.             *)

\* The state is written: the parameters are read ...
WriteState ==
    /\ holder = "remaking"
    /\ saved' = params
    /\ holder' = "written"
    /\ UNCHANGED <<playing, params_vars, player, rate_in_use, resampling, resampling_in_use>>
    /\ UNCHANGED <<resampling_to_request, requests, notify, editor_vars, overtaken>>

\* ... a player is made for what they are by now ...
CreatePlayer ==
    /\ holder = "written"
    /\ player' = Playable[params] /\ rate_in_use' = Rate[params]
    /\ resampling_in_use' = resampling
    /\ notify' = notify \cup {"resampling"}
    /\ holder' = "made"
    /\ UNCHANGED <<playing, params_vars, saved, resampling, resampling_to_request>>
    /\ UNCHANGED <<requests, editor_vars, overtaken>>

\* ... the state is read back, into the parameters too ...
ReadState ==
    /\ holder = "made"
    /\ params' = saved
    /\ changed' = (changed \/ params # saved)
    /\ saved' = NoSettings
    /\ holder' = "read back"
    /\ UNCHANGED <<playing, writing, player, rate_in_use, resampling, resampling_in_use>>
    /\ UNCHANGED <<resampling_to_request, requests, notify, editor_vars, overtaken>>

\* ... and the player is given what they are then.  A state of the host's may ask
\* for a player that is made otherwise than this one (setStateInformation).
GivePlayerState ==
    /\ holder \in {"read back", "read"}
    /\ player' = Playable[params]
    /\ notify' = notify \cup {"chip"}
    /\ holder' = IF holder = "read back" \/ MadeFor(params, resampling)
                 THEN "free" ELSE "remaking"
    /\ UNCHANGED <<playing, params_vars, saved, rate_in_use, resampling, resampling_in_use>>
    /\ UNCHANGED <<resampling_to_request, requests, editor_vars, overtaken>>

-----------------------------------------------------------------------------
(* The worker, when it has the player (handle_message).                    *)

NextIs(what) == requests # <<>> /\ Head(requests).what = what

\* Wrong, to try the checks: settings no player can run are given to it.
GivenAsTheyCame == Head(requests).value

\* set_player_chip_settings, with the settings of the message.
Given == Playable[Head(requests).value]

\* Wrong, to try the checks: the editor is not to be told.
Unmarked == notify

\* What the editor is to be told after a request for chip settings.
Marked == notify \cup {"chip"}

\* set_chip_settings_nonrt.
ApplyChipSettings ==
    /\ playing /\ holder = "free" /\ NextIs("chip")
    /\ requests' = Tail(requests)
    /\ IF MadeFor(params, resampling)
       THEN player' = Given /\ UNCHANGED holder
       ELSE holder' = "remaking" /\ UNCHANGED player
    /\ notify' = Marked
    /\ UNCHANGED <<playing, params_vars, saved, rate_in_use, resampling, resampling_in_use>>
    /\ UNCHANGED <<resampling_to_request, editor_vars, overtaken>>

\* set_resampling_nonrt.
ApplyResampling ==
    /\ playing /\ holder = "free" /\ NextIs("resampling")
    /\ requests' = Tail(requests)
    /\ resampling' = Head(requests).value
    /\ IF MadeFor(params, resampling')
       THEN notify' = notify \cup {"resampling"} /\ UNCHANGED holder
       ELSE holder' = "remaking" /\ UNCHANGED notify
    /\ UNCHANGED <<playing, params_vars, saved, player, rate_in_use, resampling_in_use>>
    /\ UNCHANGED <<resampling_to_request, editor_vars, overtaken>>

-----------------------------------------------------------------------------
(* The host: setStateInformation, releaseResources and prepareToPlay.      *)

\* A state with these settings is read.
SetState(s, d) ==
    /\ holder = "free"
    /\ params' = s /\ changed' = (changed \/ params # s)
    /\ resampling' = d
    /\ holder' = "read"
    /\ overtaken' = (ChipRequested # {})
    /\ UNCHANGED <<playing, writing, saved, player, rate_in_use, resampling_in_use>>
    /\ UNCHANGED <<resampling_to_request, requests, notify, editor_vars>>

ReleaseResources ==
    /\ playing /\ holder = "free"
    /\ playing' = FALSE
    /\ requests' = <<>> /\ notices' = <<>>
    /\ UNCHANGED <<params_vars, holder, player_vars, resampling_to_request>>
    /\ UNCHANGED <<notify, shown, overtaken>>

\* Prepared again, released before or not: new queues, and the player made again.
PrepareToPlay ==
    /\ holder = "free"
    /\ playing' = TRUE
    /\ requests' = <<>> /\ notices' = <<>>
    /\ holder' = "remaking"
    /\ overtaken' = FALSE
    /\ UNCHANGED <<params_vars, player_vars>>
    /\ UNCHANGED <<resampling_to_request, notify, shown>>

-----------------------------------------------------------------------------
(* The editor.                                                             *)

ReceiveNotice ==
    /\ notices # <<>>
    /\ shown' = [shown EXCEPT ![Head(notices).what] = Head(notices).value]
    /\ notices' = Tail(notices)
    /\ UNCHANGED <<playing, params_vars, holder, player_vars, resampling_to_request>>
    /\ UNCHANGED <<requests, notify, overtaken>>

-----------------------------------------------------------------------------
SettingsNext ==
    \/ \E s \in Settings : WriteParameter(s)
    \/ MarkParameter
    \/ \E d \in Designs : SetResampling(d)
    \/ BeginBlock \/ CompareSettings \/ SendSettings
    \/ WriteState \/ CreatePlayer \/ ReadState \/ GivePlayerState
    \/ ApplyChipSettings \/ ApplyResampling
    \/ \E s \in Settings, d \in Designs : SetState(s, d)
    \/ ReleaseResources \/ PrepareToPlay
    \/ ReceiveNotice

SettingsSpec == SettingsInit /\ [][SettingsNext]_settingsVars

-----------------------------------------------------------------------------
Messages == {Chip(s) : s \in Settings} \cup {Resampling(d) : d \in Designs}
Holders == {"free", "block: taken", "block: compared",
            "remaking", "written", "made", "read back", "read"}

\* A player is being made or given its state.
Remaking == holder \in {"remaking", "written", "made", "read back", "read"}

\* The types of the settings and of the queues, with the room the queues have.
SettingsTypeOK ==
    /\ playing \in BOOLEAN /\ writing \in BOOLEAN /\ changed \in BOOLEAN
    /\ params \in Settings /\ player \in Settings
    /\ rate_in_use \in {Rate[s] : s \in Settings}
    /\ holder \in Holders
    /\ saved \in IF holder \in {"written", "made"} THEN Settings ELSE {NoSettings}
    /\ resampling \in Designs /\ resampling_in_use \in Designs
    /\ resampling_to_request \in Designs \cup {NoDesign}
    /\ requests \in Seq(Messages) /\ Len(requests) <= MaxRequests
    /\ notify \subseteq {"chip", "resampling"}
    /\ notices \in Seq(Messages) /\ Len(notices) <= MaxSettingsNotices
    /\ shown \in [chip : Settings, resampling : Designs]
    /\ overtaken \in BOOLEAN

\* Nothing of the chip settings is on its way to the player.
Settled == playing /\ holder = "free" /\ ~writing /\ ~changed /\ ChipRequested = {}

\* The player runs the parameters, once nothing is on its way, whatever was
\* written while the worker was busy, the queue full or the player being made:
\* except where the parameters went back to what the player ran while it was yet
\* to be given something else.
PlayerFollowsParameters == Settled /\ ~overtaken => player = Playable[params]

\* The last chip settings of a queue are ones the player runs as s.
LastIs(queue, s) ==
    \E k \in ChipRequests(queue) : /\ Playable[queue[k].value] = Playable[s]
                                   /\ \A j \in ChipRequests(queue) : j <= k

\* Why the player gets to run the parameters: a block, the worker or whoever has
\* the player is yet to see to it.
SettingsOnTheirWay ==
    playing /\ ~overtaken =>
        \/ writing \/ changed \/ holder = "block: taken"
        \/ LastIs(requests, params)
        \/ ChipRequested = {} /\ (Remaking \/ player = Playable[params])

\* The resampling is that of the player, except where a player is to be made.
ResamplingKept ==
    holder \notin {"remaking", "written", "read"} => resampling_in_use = resampling

\* All of it, as an inductive invariant.
SettingsIInv == SettingsTypeOK /\ SettingsOnTheirWay /\ ResamplingKept

\* The editor shows a value, or is told it last, or is yet to be told.
GetsToShow(what, value) ==
    \/ what \in notify
    \/ \E k \in DOMAIN notices : /\ notices[k].what = what /\ notices[k].value = value
                                 /\ \A j \in DOMAIN notices : notices[j].what = what => j <= k
    \/ /\ \A k \in DOMAIN notices : notices[k].what # what
       /\ shown[what] = value

\* The editor gets to show what the player runs, but for a player that is being made, of
\* which it will be told when it has its state.
NoticesOnTheirWay ==
    playing =>
        /\ holder \in {"remaking", "written", "made", "read back"} \/ GetsToShow("chip", player)
        /\ holder \in {"remaking", "written"} \/ GetsToShow("resampling", resampling_in_use)

\* The comment of Parameter_Block::chip_settings: the player runs
\* playable_chip_settings() of the settings the parameters hold.
PlayerRunsTheParameters == Settled => player = Playable[params]

\* Whoever lets go of the player leaves one that was made with the resampling
\* there is: none is used that a state, the editor or a new player replaced.
ResamplingIsInUse == holder = "free" => resampling_in_use = resampling

\* What the editor shows is what the player runs once it was told of everything,
\* across a full queue, a player that was made again and queues that were
\* replaced.
EditorShowsThePlayer ==
    playing /\ holder = "free" /\ notify = {} /\ notices = <<>> =>
        shown = [chip |-> player, resampling |-> resampling]

\* Hosts expect a parameter to keep the value they gave it: only the host, the
\* editor or a state that the host gives change the parameters.
KeepsParameters == params' # params => WriteParameter(params') \/
                                       \E d \in Designs : SetState(params', d)
HostKeepsItsParameters == [][KeepsParameters]_settingsVars
=============================================================================
