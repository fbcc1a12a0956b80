------------------------ MODULE PlayerSettingsProofs ------------------------
(* That the player runs the parameters once nothing is on its way to it,   *)
(* and is made with the resampling there is, for every set of settings and *)
(* every length of the queues.                                             *)
EXTENDS PlayerSettings, SequenceTheorems, TLAPS

-----------------------------------------------------------------------------
(* Queues.                                                                 *)

\* The two kinds of messages.
LEMMA MessageKinds ==
    /\ \A s \in Settings : Chip(s) \in Messages /\ Chip(s).what = "chip" /\ Chip(s).value = s
    /\ \A d \in Designs : /\ Resampling(d) \in Messages /\ Resampling(d).what = "resampling"
                          /\ Resampling(d).value = d
    /\ \A m \in Messages : \/ m.what = "chip" /\ m.value \in Settings
                           \/ m.what = "resampling" /\ m.value \in Designs
<1>1. ASSUME NEW s \in Settings
      PROVE  Chip(s) \in Messages /\ Chip(s).what = "chip" /\ Chip(s).value = s
  <2>1. Chip(s) \in Messages
    BY DEF Messages
  <2>2. Chip(s).what = "chip" /\ Chip(s).value = s
    BY DEF Chip
  <2> QED BY <2>1, <2>2
<1>2. ASSUME NEW d \in Designs
      PROVE  /\ Resampling(d) \in Messages
             /\ Resampling(d).what = "resampling" /\ Resampling(d).value = d
  <2>1. Resampling(d) \in Messages
    BY DEF Messages
  <2>2. Resampling(d).what = "resampling" /\ Resampling(d).value = d
    BY DEF Resampling
  <2> QED BY <2>1, <2>2
<1>3. ASSUME NEW m \in Messages
      PROVE  \/ m.what = "chip" /\ m.value \in Settings
             \/ m.what = "resampling" /\ m.value \in Designs
  <2>1. (\E s \in Settings : m = Chip(s)) \/ (\E d \in Designs : m = Resampling(d))
    BY DEF Messages
  <2> QED BY <1>1, <1>2, <2>1
<1> QED BY <1>1, <1>2, <1>3

\* The first of a queue that is not empty, and the rest of it.
LEMMA FirstAndRest ==
    ASSUME NEW q \in Seq(Messages), q # <<>>
    PROVE  /\ Head(q) \in Messages /\ Head(q) = q[1]
           /\ Tail(q) \in Seq(Messages)
           /\ Len(q) \in Nat \ {0} /\ Len(Tail(q)) = Len(q) - 1
           /\ DOMAIN q = 1 .. Len(q) /\ DOMAIN Tail(q) = 1 .. Len(q) - 1
           /\ \A k \in 1 .. Len(q) - 1 : Tail(q)[k] = q[k + 1]
<1>1. Len(q) \in Nat /\ Len(q) # 0 /\ DOMAIN q = 1 .. Len(q)
  BY EmptySeq, LenProperties
<1>2. /\ Head(q) \in Messages /\ Tail(q) \in Seq(Messages) /\ Len(Tail(q)) = Len(q) - 1
      /\ \A k \in 1 .. Len(Tail(q)) : Tail(q)[k] = q[k + 1]
  BY HeadTailProperties
<1>3. Head(q) = q[1]
  OBVIOUS
<1>4. DOMAIN Tail(q) = 1 .. Len(q) - 1
  BY <1>2, LenProperties
<1> QED BY <1>1, <1>2, <1>3, <1>4

\* A queue and what is put behind it.
LEMMA OneMore ==
    ASSUME NEW q \in Seq(Messages), NEW m \in Messages
    PROVE  /\ Append(q, m) \in Seq(Messages)
           /\ Len(q) \in Nat /\ Len(Append(q, m)) = Len(q) + 1
           /\ DOMAIN q = 1 .. Len(q) /\ DOMAIN Append(q, m) = 1 .. Len(q) + 1
           /\ Append(q, m)[Len(q) + 1] = m
           /\ \A k \in 1 .. Len(q) : Append(q, m)[k] = q[k]
BY AppendProperties, LenProperties

\* A request that there is room for.
LEMMA RequestFits ==
    ASSUME SettingsTypeOK, NEW m \in Messages,
           requests' = requests \/ (WorkerHasRoom /\ requests' = Append(requests, m))
    PROVE  requests' \in Seq(Messages) /\ Len(requests') <= MaxRequests
<1>1. requests \in Seq(Messages) /\ (WorkerHasRoom => Len(requests) < MaxRequests)
  BY DEF SettingsTypeOK, WorkerHasRoom
<1>2. CASE requests' = requests
  BY <1>2 DEF SettingsTypeOK
<1> QED BY <1>1, <1>2, OneMore, SettingsAssumption

\* Queues that are replaced.
LEMMA NewQueues ==
    /\ <<>> \in Seq(Messages)
    /\ Len(<<>>) <= MaxRequests /\ Len(<<>>) <= MaxSettingsNotices
BY EmptySeq, SettingsAssumption

\* What is to be told fits where it is put.
LEMMA ToldAreMessages ==
    ASSUME SettingsTypeOK PROVE SettingsTold \in Seq(Messages) /\ Len(SettingsTold) \in Nat
BY MessageKinds DEF SettingsTold, SettingsTypeOK

-----------------------------------------------------------------------------
(* The types.                                                              *)

\* SettingsInit gives every variable its type.
LEMMA InitTypes == ASSUME SettingsInit PROVE SettingsTypeOK
<1>1. requests \in Seq(Messages) /\ Len(requests) <= MaxRequests
  BY NewQueues DEF SettingsInit
<1>2. notices \in Seq(Messages) /\ Len(notices) <= MaxSettingsNotices
  BY NewQueues DEF SettingsInit
<1>4. player \in Settings /\ rate_in_use \in {Rate[s] : s \in Settings}
  BY SettingsAssumption DEF SettingsInit
<1>5. saved \in IF holder \in {"written", "made"} THEN Settings ELSE {NoSettings}
  BY DEF SettingsInit
<1>3. shown \in [chip : Settings, resampling : Designs]
  BY SettingsAssumption DEF SettingsInit
<1> QED BY <1>1, <1>2, <1>3, <1>4, <1>5 DEF SettingsInit, SettingsTypeOK, Holders

\* What the editor shows after a notification.
LEMMA ShownTypes ==
    ASSUME SettingsTypeOK, NEW m \in Messages
    PROVE  [shown EXCEPT ![m.what] = m.value] \in [chip : Settings, resampling : Designs]
<1>1. CASE m.what = "chip" /\ m.value \in Settings
  BY <1>1 DEF SettingsTypeOK
<1>2. CASE m.what = "resampling" /\ m.value \in Designs
  BY <1>2 DEF SettingsTypeOK
<1> QED BY <1>1, <1>2, MessageKinds

\* Every step keeps the types.
LEMMA StepTypes == ASSUME SettingsTypeOK, [SettingsNext]_settingsVars PROVE SettingsTypeOK'
<1> USE SettingsAssumption
<1>1. ASSUME NEW s \in Settings, WriteParameter(s) PROVE SettingsTypeOK'
  BY <1>1 DEF SettingsTypeOK, WriteParameter, player_vars, editor_vars
<1>2. CASE MarkParameter
  BY <1>2 DEF SettingsTypeOK, MarkParameter, player_vars, editor_vars
<1>3. ASSUME NEW d \in Designs, SetResampling(d) PROVE SettingsTypeOK'
  <2>1. requests' \in Seq(Messages) /\ Len(requests') <= MaxRequests
    <3>1. requests' = requests \/ (WorkerHasRoom /\ requests' = Append(requests, Resampling(d)))
      BY <1>3 DEF SetResampling
    <3> QED BY <3>1, RequestFits, MessageKinds
  <2> QED BY <1>3, <2>1 DEF SettingsTypeOK, SetResampling, params_vars, player_vars, editor_vars
<1>4. CASE BeginBlock
  <2>1. resampling_to_request # NoDesign => resampling_to_request \in Designs
    BY DEF SettingsTypeOK
  <2>2. requests' \in Seq(Messages) /\ Len(requests') <= MaxRequests
    <3>1. CASE requests' = requests
      BY <3>1 DEF SettingsTypeOK
    <3>2. CASE resampling_to_request # NoDesign /\ WorkerHasRoom
      <4>1. requests' = Append(requests, Resampling(resampling_to_request))
        BY <1>4, <3>2 DEF BeginBlock
      <4> QED BY <4>1, <2>1, <3>2, RequestFits, MessageKinds
    <3> QED BY <1>4, <3>1, <3>2 DEF BeginBlock
  <2> QED BY <1>4, <2>1, <2>2 DEF SettingsTypeOK, BeginBlock, Holders, player_vars, editor_vars
<1>5. CASE CompareSettings
  <2>1. requests' \in Seq(Messages) /\ Len(requests') <= MaxRequests
    <3>1. requests' = requests \/ (WorkerHasRoom /\ requests' = Append(requests, Chip(params)))
      BY <1>5 DEF CompareSettings
    <3>2. params \in Settings
      BY DEF SettingsTypeOK
    <3> QED BY <3>1, <3>2, RequestFits, MessageKinds
  <2> QED BY <1>5, <2>1 DEF SettingsTypeOK, CompareSettings, Holders, player_vars, editor_vars
<1>6. CASE SendSettings
  <2> PICK n \in 0 .. Len(SettingsTold) :
        /\ Len(notices) + n <= MaxSettingsNotices
        /\ notices' = notices \o SubSeq(SettingsTold, 1, n)
        /\ notify' = notify \ {SettingsTold[k].what : k \in 1 .. n}
    BY <1>6 DEF SendSettings
  <2>1. SubSeq(SettingsTold, 1, n) \in Seq(Messages) /\ Len(SubSeq(SettingsTold, 1, n)) = n
    BY ToldAreMessages, SubSeqProperties
  <2>2. notices' \in Seq(Messages) /\ Len(notices') = Len(notices) + n
    BY <2>1, ConcatProperties DEF SettingsTypeOK
  <2> QED BY <1>6, <2>2 DEF SettingsTypeOK, SendSettings, Holders, params_vars, player_vars
<1>7. CASE WriteState
  BY <1>7 DEF SettingsTypeOK, WriteState, Holders, params_vars, editor_vars
<1>8. CASE CreatePlayer
  BY <1>8 DEF SettingsTypeOK, CreatePlayer, Holders, params_vars, editor_vars
<1>9. CASE ReadState
  BY <1>9 DEF SettingsTypeOK, ReadState, Holders, editor_vars
<1>10. CASE GivePlayerState
  BY <1>10 DEF SettingsTypeOK, GivePlayerState, Holders, params_vars, editor_vars
<1>11. CASE ApplyChipSettings
  <2>1. requests' \in Seq(Messages) /\ Len(requests') <= MaxRequests
    BY <1>11, FirstAndRest DEF SettingsTypeOK, ApplyChipSettings, NextIs
  <2>2. Given \in Settings
    BY <1>11, FirstAndRest, MessageKinds DEF SettingsTypeOK, ApplyChipSettings, NextIs, Given
  <2> QED BY <1>11, <2>1, <2>2
          DEF SettingsTypeOK, ApplyChipSettings, Marked, Holders, params_vars, editor_vars
<1>12. CASE ApplyResampling
  <2>1. requests' \in Seq(Messages) /\ Len(requests') <= MaxRequests
    BY <1>12, FirstAndRest DEF SettingsTypeOK, ApplyResampling, NextIs
  <2>2. resampling' \in Designs
    BY <1>12, FirstAndRest, MessageKinds DEF SettingsTypeOK, ApplyResampling, NextIs
  <2> QED BY <1>12, <2>1, <2>2 DEF SettingsTypeOK, ApplyResampling, Holders, params_vars, editor_vars
<1>13. ASSUME NEW s \in Settings, NEW d \in Designs, SetState(s, d) PROVE SettingsTypeOK'
  BY <1>13 DEF SettingsTypeOK, SetState, Holders, editor_vars
<1>14. CASE ReleaseResources
  BY <1>14, NewQueues DEF SettingsTypeOK, ReleaseResources, params_vars, player_vars
<1>15. CASE PrepareToPlay
  BY <1>15, NewQueues DEF SettingsTypeOK, PrepareToPlay, Holders, params_vars, player_vars
<1>16. CASE ReceiveNotice
  <2>1. notices' \in Seq(Messages) /\ Len(notices') <= MaxSettingsNotices
    BY <1>16, FirstAndRest DEF SettingsTypeOK, ReceiveNotice
  <2>2. shown' \in [chip : Settings, resampling : Designs]
    BY <1>16, FirstAndRest, ShownTypes DEF SettingsTypeOK, ReceiveNotice
  <2> QED BY <1>16, <2>1, <2>2 DEF SettingsTypeOK, ReceiveNotice, params_vars, player_vars
<1>17. CASE UNCHANGED settingsVars
  BY <1>17 DEF SettingsTypeOK, settingsVars
<1> QED BY <1>1, <1>2, <1>3, <1>4, <1>5, <1>6, <1>7, <1>8, <1>9, <1>10, <1>11, <1>12,
           <1>13, <1>14, <1>15, <1>16, <1>17 DEF SettingsNext

\* The settings, the queues and the player have their types, and the queues keep to
\* their room, whatever settings and designs there are.
THEOREM TypeCorrect == SettingsSpec => []SettingsTypeOK
BY InitTypes, StepTypes, PTL DEF SettingsSpec

-----------------------------------------------------------------------------
(* The last chip settings of a queue.                                      *)

\* A resampling put behind them changes nothing.
LEMMA BehindResampling ==
    ASSUME NEW q \in Seq(Messages), NEW m \in Messages, m.what = "resampling"
    PROVE  /\ ChipRequests(Append(q, m)) = ChipRequests(q)
           /\ \A s \in Settings : LastIs(q, s) => LastIs(Append(q, m), s)
<1> DEFINE r == Append(q, m)
<1>1. /\ DOMAIN q = 1 .. Len(q) /\ DOMAIN r = 1 .. Len(q) + 1 /\ Len(q) \in Nat
      /\ r[Len(q) + 1] = m /\ \A k \in 1 .. Len(q) : r[k] = q[k]
  BY OneMore
<1> HIDE DEF r
<1>2. ChipRequests(r) = ChipRequests(q)
  <2>1. m.what # "chip"
    OBVIOUS
  <2>2. ASSUME NEW k \in 1 .. Len(q) + 1, k \notin 1 .. Len(q) PROVE k = Len(q) + 1
    BY <1>1, <2>2
  <2> QED BY <1>1, <2>1, <2>2 DEF ChipRequests
<1>3. \A k \in ChipRequests(q) : r[k] = q[k]
  BY <1>1 DEF ChipRequests
<1>4. ASSUME NEW s \in Settings, LastIs(q, s) PROVE LastIs(r, s)
  BY <1>2, <1>3, <1>4 DEF LastIs
<1>5. ChipRequests(r) = ChipRequests(q) /\ \A s \in Settings : LastIs(q, s) => LastIs(r, s)
  BY <1>2, <1>4
<1> QED BY <1>5 DEF r

\* Chip settings put behind the others are the last.
LEMMA BehindIsLast ==
    ASSUME NEW q \in Seq(Messages), NEW s \in Settings
    PROVE  LastIs(Append(q, Chip(s)), s)
<1> DEFINE r == Append(q, Chip(s))
<1>1. /\ DOMAIN r = 1 .. Len(q) + 1 /\ Len(q) \in Nat /\ r[Len(q) + 1] = Chip(s)
  BY OneMore, MessageKinds
<1>2. Chip(s).what = "chip" /\ Chip(s).value = s
  BY MessageKinds
<1> HIDE DEF r
<1>3. Len(q) + 1 \in ChipRequests(r) /\ \A j \in ChipRequests(r) : j <= Len(q) + 1
  BY <1>1, <1>2 DEF ChipRequests
<1>4. LastIs(r, s)
  BY <1>1, <1>2, <1>3 DEF LastIs
<1> QED BY <1>4 DEF r

\* What is left of them when the first message is taken.
LEMMA FirstTaken ==
    ASSUME NEW q \in Seq(Messages), q # <<>>
    PROVE  /\ ChipRequests(q) = {} => ChipRequests(Tail(q)) = {}
           /\ \A s \in Settings :
                 LastIs(q, s) =>
                    \/ LastIs(Tail(q), s)
                    \/ /\ ChipRequests(Tail(q)) = {} /\ Head(q).what = "chip"
                       /\ Playable[Head(q).value] = Playable[s]
<1> DEFINE r == Tail(q)
<1>1. /\ Len(q) \in Nat \ {0} /\ DOMAIN q = 1 .. Len(q) /\ DOMAIN r = 1 .. Len(q) - 1
      /\ Head(q) = q[1] /\ \A k \in 1 .. Len(q) - 1 : r[k] = q[k + 1]
  BY FirstAndRest
<1> HIDE DEF r
<1>2. ASSUME NEW k \in ChipRequests(r)
      PROVE  k \in Nat /\ k + 1 \in ChipRequests(q) /\ r[k] = q[k + 1]
  BY <1>1, <1>2 DEF ChipRequests
<1>3. ChipRequests(q) = {} => ChipRequests(r) = {}
  BY <1>2
<1>4. ASSUME NEW s \in Settings, LastIs(q, s)
      PROVE  \/ LastIs(r, s)
             \/ /\ ChipRequests(r) = {} /\ Head(q).what = "chip"
                /\ Playable[Head(q).value] = Playable[s]
  <2> PICK k \in ChipRequests(q) : /\ Playable[q[k].value] = Playable[s]
                                   /\ \A j \in ChipRequests(q) : j <= k
    BY <1>4 DEF LastIs
  <2>1. k \in 1 .. Len(q) /\ q[k].what = "chip"
    BY <1>1 DEF ChipRequests
  <2>2. CASE k = 1
    <3>1. ASSUME NEW j \in ChipRequests(r) PROVE FALSE
      BY <1>1, <1>2, <2>2, <3>1 DEF ChipRequests
    <3> QED BY <1>1, <2>1, <2>2, <3>1
  <2>3. CASE k # 1
    <3>1. /\ k - 1 \in 1 .. Len(q) - 1 /\ r[k - 1] = q[k]
      BY <1>1, <2>1, <2>3
    <3>2. k - 1 \in ChipRequests(r)
      BY <1>1, <2>1, <3>1 DEF ChipRequests
    <3>3. ASSUME NEW j \in ChipRequests(r) PROVE j <= k - 1
      <4>1. j \in Nat /\ j + 1 <= k
        BY <1>2
      <4> QED BY <4>1, <2>1
    <3> QED BY <3>1, <3>2, <3>3 DEF LastIs
  <2> QED BY <2>2, <2>3
<1>5. /\ ChipRequests(q) = {} => ChipRequests(r) = {}
      /\ \A s \in Settings : LastIs(q, s) =>
            \/ LastIs(r, s)
            \/ /\ ChipRequests(r) = {} /\ Head(q).what = "chip"
               /\ Playable[Head(q).value] = Playable[s]
  BY <1>3, <1>4
<1> QED BY <1>5 DEF r

-----------------------------------------------------------------------------
(* The resampling.                                                         *)

\* Every step keeps the resampling of the player, or has it made again.
LEMMA StepResampling == ASSUME SettingsIInv, [SettingsNext]_settingsVars PROVE ResamplingKept'
<1> USE DEF SettingsIInv, ResamplingKept
<1>1. ASSUME NEW s \in Settings, WriteParameter(s) PROVE ResamplingKept'
  BY <1>1 DEF WriteParameter, player_vars
<1>2. CASE MarkParameter
  BY <1>2 DEF MarkParameter, player_vars
<1>3. ASSUME NEW d \in Designs, SetResampling(d) PROVE ResamplingKept'
  BY <1>3 DEF SetResampling, player_vars
<1>4. CASE BeginBlock
  BY <1>4 DEF BeginBlock, player_vars
<1>5. CASE CompareSettings
  BY <1>5 DEF CompareSettings, player_vars
<1>6. CASE SendSettings
  BY <1>6 DEF SendSettings, player_vars
<1>7. CASE WriteState
  BY <1>7 DEF WriteState
<1>8. CASE CreatePlayer
  BY <1>8 DEF CreatePlayer
<1>9. CASE ReadState
  BY <1>9 DEF ReadState
<1>10. CASE GivePlayerState
  BY <1>10 DEF GivePlayerState, MadeFor
<1>11. CASE ApplyChipSettings
  BY <1>11 DEF ApplyChipSettings
<1>12. CASE ApplyResampling
  BY <1>12 DEF ApplyResampling, MadeFor
<1>13. ASSUME NEW s \in Settings, NEW d \in Designs, SetState(s, d) PROVE ResamplingKept'
  BY <1>13 DEF SetState
<1>14. CASE ReleaseResources
  BY <1>14 DEF ReleaseResources, player_vars
<1>15. CASE PrepareToPlay
  BY <1>15 DEF PrepareToPlay, player_vars
<1>16. CASE ReceiveNotice
  BY <1>16 DEF ReceiveNotice, player_vars
<1>17. CASE UNCHANGED settingsVars
  BY <1>17 DEF settingsVars
<1> QED BY <1>1, <1>2, <1>3, <1>4, <1>5, <1>6, <1>7, <1>8, <1>9, <1>10, <1>11, <1>12,
           <1>13, <1>14, <1>15, <1>16, <1>17 DEF SettingsNext

-----------------------------------------------------------------------------
(* The chip settings.                                                      *)

\* Every step keeps the settings on their way, or gives them to the player.
LEMMA StepSettings == ASSUME SettingsIInv, [SettingsNext]_settingsVars PROVE SettingsOnTheirWay'
<1> USE DEF SettingsOnTheirWay, ChipRequested
<1>0. SettingsTypeOK /\ SettingsOnTheirWay /\ params \in Settings /\ requests \in Seq(Messages)
  BY DEF SettingsIInv, SettingsTypeOK
<1>1. ASSUME NEW s \in Settings, WriteParameter(s) PROVE SettingsOnTheirWay'
  BY <1>1 DEF WriteParameter
<1>2. CASE MarkParameter
  BY <1>2 DEF MarkParameter
<1>3. ASSUME NEW d \in Designs, SetResampling(d) PROVE SettingsOnTheirWay'
  <2>1. CASE requests' = requests
    BY <1>0, <1>3, <2>1 DEF SetResampling, params_vars, player_vars, Remaking
  <2>2. CASE requests' = Append(requests, Resampling(d))
    BY <1>0, <1>3, <2>2, BehindResampling, MessageKinds
       DEF SetResampling, params_vars, player_vars, Remaking
  <2> QED BY <1>3, <2>1, <2>2 DEF SetResampling
<1>4. CASE BeginBlock
  <2>1. CASE changed
    BY <1>4, <2>1 DEF BeginBlock
  <2>2. CASE ~changed /\ requests' = requests
    BY <1>0, <1>4, <2>2 DEF BeginBlock, player_vars, Remaking
  <2>3. CASE /\ ~changed /\ resampling_to_request # NoDesign
             /\ requests' = Append(requests, Resampling(resampling_to_request))
    <3>1. resampling_to_request \in Designs
      BY <1>0, <2>3 DEF SettingsTypeOK
    <3> QED BY <1>0, <1>4, <2>3, <3>1, BehindResampling, MessageKinds
            DEF BeginBlock, player_vars, Remaking
  <2> QED BY <1>4, <2>1, <2>2, <2>3 DEF BeginBlock
<1>5. CASE CompareSettings
  <2>1. CASE Playable[params] = player
    BY <1>5, <2>1 DEF CompareSettings, player_vars
  <2>2. CASE Playable[params] # player /\ WorkerHasRoom
    BY <1>0, <1>5, <2>2, BehindIsLast DEF CompareSettings
  <2>3. CASE Playable[params] # player /\ ~WorkerHasRoom
    BY <1>5, <2>3 DEF CompareSettings
  <2> QED BY <2>1, <2>2, <2>3
<1>6. CASE SendSettings
  BY <1>0, <1>6 DEF SendSettings, params_vars, player_vars, Remaking
<1>7. CASE WriteState
  BY <1>0, <1>7 DEF WriteState, params_vars, Remaking
<1>8. CASE CreatePlayer
  BY <1>0, <1>8 DEF CreatePlayer, params_vars, Remaking
<1>9. CASE ReadState
  <2>1. CASE params = saved
    BY <1>0, <1>9, <2>1 DEF ReadState, Remaking
  <2>2. CASE params # saved
    BY <1>9, <2>2 DEF ReadState
  <2> QED BY <2>1, <2>2
<1>10. CASE GivePlayerState
  BY <1>0, <1>10 DEF GivePlayerState, params_vars, Remaking
<1>11. CASE ApplyChipSettings
  <2>1. LastIs(requests, params) =>
          \/ LastIs(requests', params)
          \/ ChipRequests(requests') = {} /\ Given = Playable[params]
    BY <1>0, <1>11, FirstTaken DEF ApplyChipSettings, NextIs, Given
  <2>2. ChipRequests(requests) # {}
    BY <1>0, <1>11, FirstAndRest DEF ApplyChipSettings, NextIs, ChipRequests
  <2> QED BY <1>0, <1>11, <2>1, <2>2 DEF ApplyChipSettings, params_vars, Remaking
<1>12. CASE ApplyResampling
  <2>1. Head(requests).what # "chip" /\ requests # <<>> /\ requests' = Tail(requests)
    BY <1>12 DEF ApplyResampling, NextIs
  <2>2. /\ LastIs(requests, params) => LastIs(requests', params)
        /\ ChipRequests(requests) = {} => ChipRequests(requests') = {}
    BY <1>0, <2>1, FirstTaken
  <2> QED BY <1>0, <1>12, <2>2 DEF ApplyResampling, params_vars, Remaking
<1>13. ASSUME NEW s \in Settings, NEW d \in Designs, SetState(s, d)
       PROVE  SettingsOnTheirWay'
  BY <1>13 DEF SetState, Remaking
<1>14. CASE ReleaseResources
  BY <1>14 DEF ReleaseResources
<1>15. CASE PrepareToPlay
  BY <1>15 DEF PrepareToPlay, Remaking, ChipRequests
<1>16. CASE ReceiveNotice
  BY <1>0, <1>16 DEF ReceiveNotice, params_vars, player_vars, Remaking
<1>17. CASE UNCHANGED settingsVars
  BY <1>0, <1>17 DEF settingsVars, Remaking
<1> QED BY <1>1, <1>2, <1>3, <1>4, <1>5, <1>6, <1>7, <1>8, <1>9, <1>10, <1>11, <1>12,
           <1>13, <1>14, <1>15, <1>16, <1>17 DEF SettingsNext

\* SettingsIInv is inductive.
LEMMA Inductive == SettingsSpec => []SettingsIInv
<1>1. ASSUME SettingsInit PROVE SettingsIInv
  <2>1. ResamplingKept
    BY <1>1 DEF SettingsInit, ResamplingKept
  <2>2. ChipRequested = {}
    BY <1>1 DEF SettingsInit, ChipRequested, ChipRequests
  <2>3. SettingsOnTheirWay
    BY <1>1, <2>2 DEF SettingsInit, SettingsOnTheirWay
  <2> QED BY <1>1, <2>1, <2>3, InitTypes DEF SettingsIInv
<1>2. ASSUME SettingsIInv, [SettingsNext]_settingsVars PROVE SettingsIInv'
  BY <1>2, StepTypes, StepResampling, StepSettings DEF SettingsIInv
<1> QED BY <1>1, <1>2, PTL DEF SettingsSpec

\* Once nothing of the chip settings is on its way, the player runs those of the
\* parameters, however they were written, requested, applied and read back; the
\* case that is named apart is the one the code loses.
THEOREM SettingsCorrect == SettingsSpec => []PlayerFollowsParameters
<1>1. ASSUME SettingsIInv PROVE PlayerFollowsParameters
  BY <1>1 DEF SettingsIInv, SettingsOnTheirWay, PlayerFollowsParameters, Settled, LastIs, ChipRequested,
              Remaking
<1> QED BY <1>1, Inductive, PTL

\* Whoever lets go of the player leaves one made with the resampling there is.
THEOREM ResamplingCorrect == SettingsSpec => []ResamplingIsInUse
<1>1. ASSUME SettingsIInv PROVE ResamplingIsInUse
  BY <1>1 DEF SettingsIInv, ResamplingKept, ResamplingIsInUse
<1> QED BY <1>1, Inductive, PTL

-----------------------------------------------------------------------------
(* What the editor is told.                                                *)

\* There is at most one of each kind to tell, what the player has, and it is marked.
LEMMA ToldAreMarked ==
    ASSUME SettingsTypeOK
    PROVE  /\ SettingsTold \in Seq(Messages) /\ Len(SettingsTold) \in Nat
           /\ \A k \in 1 .. Len(SettingsTold) :
                  /\ SettingsTold[k].what \in notify
                  /\ SettingsTold[k].what = "chip" => SettingsTold[k].value = player
                  /\ SettingsTold[k].what = "resampling" => SettingsTold[k].value = resampling
           /\ \A j, k \in 1 .. Len(SettingsTold) :
                  SettingsTold[j].what = SettingsTold[k].what => j = k
<1>1. /\ Chip(player).what = "chip" /\ Chip(player).value = player
      /\ Resampling(resampling).what = "resampling" /\ Resampling(resampling).value = resampling
  BY DEF Chip, Resampling
<1> DEFINE c == Chip(player)  r == Resampling(resampling)
<1> HIDE DEF c, r
<1>2. SettingsTold = (IF "chip" \in notify THEN <<c>> ELSE <<>>)
                        \o (IF "resampling" \in notify THEN <<r>> ELSE <<>>)
  BY DEF SettingsTold, c, r
<1>3. CASE "chip" \in notify /\ "resampling" \in notify
  <2>1. SettingsTold = <<c>> \o <<r>>
    BY <1>2, <1>3
  <2>2. Len(SettingsTold) = 2 /\ SettingsTold[1] = c /\ SettingsTold[2] = r
    <3>1. <<c>> \in Seq({c, r}) /\ <<r>> \in Seq({c, r})
      OBVIOUS
    <3>2. Len(<<c>>) = 1 /\ Len(<<r>>) = 1 /\ <<c>>[1] = c /\ <<r>>[1] = r
      OBVIOUS
    <3> QED BY <2>1, <3>1, <3>2, ConcatProperties
  <2> QED BY <1>1, <1>3, <2>2, ToldAreMessages DEF c, r
<1>4. CASE "chip" \in notify /\ "resampling" \notin notify
  <2>1. SettingsTold = <<c>>
    BY <1>2, <1>4
  <2>2. Len(SettingsTold) = 1 /\ SettingsTold[1] = c
    BY <2>1
  <2> QED BY <1>1, <1>4, <2>2, ToldAreMessages DEF c
<1>5. CASE "chip" \notin notify /\ "resampling" \in notify
  <2>1. SettingsTold = <<r>>
    BY <1>2, <1>5
  <2>2. Len(SettingsTold) = 1 /\ SettingsTold[1] = r
    BY <2>1
  <2> QED BY <1>1, <1>5, <2>2, ToldAreMessages DEF r
<1>6. CASE "chip" \notin notify /\ "resampling" \notin notify
  <2>1. SettingsTold = <<>>
    BY <1>2, <1>6
  <2>2. Len(SettingsTold) = 0
    BY <2>1
  <2> QED BY <2>2, ToldAreMessages
<1> QED BY <1>3, <1>4, <1>5, <1>6

\* What is sent is then the last of its kind, and what is not sent stays marked.
LEMMA SentIsLast ==
    ASSUME SettingsTypeOK, SendSettings,
           NEW what \in {"chip", "resampling"}, NEW value,
           value = IF what = "chip" THEN player ELSE resampling,
           GetsToShow(what, value)
    PROVE  GetsToShow(what, value)'
<1> PICK n \in 0 .. Len(SettingsTold) :
        /\ notices' = notices \o SubSeq(SettingsTold, 1, n)
        /\ notify' = notify \ {SettingsTold[k].what : k \in 1 .. n}
  BY DEF SendSettings
<1> DEFINE sent == SubSeq(SettingsTold, 1, n)
<1>1. /\ Len(SettingsTold) \in Nat /\ n \in Nat /\ n <= Len(SettingsTold)
      /\ sent \in Seq(Messages) /\ Len(sent) = n /\ \A k \in 1 .. n : sent[k] = SettingsTold[k]
  BY ToldAreMarked, SubSeqProperties
<1>2. notices \in Seq(Messages) /\ Len(notices) \in Nat /\ DOMAIN notices = 1 .. Len(notices)
  BY LenProperties DEF SettingsTypeOK
<1>3. /\ Len(notices') = Len(notices) + n /\ DOMAIN notices' = 1 .. Len(notices) + n
      /\ \A k \in 1 .. Len(notices) : notices'[k] = notices[k]
      /\ \A k \in 1 .. n : notices'[Len(notices) + k] = SettingsTold[k]
  BY <1>1, <1>2, ConcatProperties, LenProperties
<1>4. shown' = shown
  BY DEF SendSettings
<1>5. \A j \in DOMAIN notices' : j \in 1 .. Len(notices) \/ \E k \in 1 .. n : j = Len(notices) + k
  <2> TAKE j \in DOMAIN notices'
  <2>1. j \in Int /\ Len(notices) \in Int
    BY <1>1, <1>2, <1>3
  <2>2. j \in 1 .. Len(notices) \/ j - Len(notices) \in 1 .. n
    BY <1>1, <1>2, <1>3
  <2>3. j = Len(notices) + (j - Len(notices))
    BY <2>1
  <2> QED BY <2>2, <2>3
<1> HIDE DEF sent
<1>6. CASE \E k \in 1 .. n : SettingsTold[k].what = what
  <2> PICK k \in 1 .. n : SettingsTold[k].what = what
    BY <1>6
  <2>1. k \in 1 .. Len(SettingsTold)
    BY <1>1
  <2>2. SettingsTold[k].value = value
    BY <2>1, ToldAreMarked
  <2>3. \A j \in 1 .. n : SettingsTold[j].what = what => j = k
    <3>1. \A j \in 1 .. n : j \in 1 .. Len(SettingsTold)
      BY <1>1
    <3>2. \A i, j \in 1 .. Len(SettingsTold) : SettingsTold[i].what = SettingsTold[j].what => i = j
      BY ToldAreMarked
    <3> QED BY <2>1, <3>1, <3>2
  <2>4. Len(notices) + k \in DOMAIN notices'
    BY <1>1, <1>2, <1>3
  <2>5. /\ notices'[Len(notices) + k].what = what /\ notices'[Len(notices) + k].value = value
    BY <1>3, <2>2
  <2>6. ASSUME NEW j \in DOMAIN notices', notices'[j].what = what
        PROVE  j <= Len(notices) + k
    <3>1. CASE j \in 1 .. Len(notices)
      BY <1>1, <1>2, <3>1
    <3>2. CASE \E i \in 1 .. n : j = Len(notices) + i
      BY <1>2, <1>3, <2>3, <2>6, <3>2
    <3> QED BY <1>5, <3>1, <3>2
  <2> QED BY <2>4, <2>5, <2>6 DEF GetsToShow
<1>7. CASE ~\E k \in 1 .. n : SettingsTold[k].what = what
  <2>1. what \in notify => what \in notify'
    BY <1>7
  <2>2. \A j \in DOMAIN notices' : notices'[j].what = what => j \in 1 .. Len(notices)
    BY <1>3, <1>5, <1>7
  <2>3. 1 .. Len(notices) \subseteq DOMAIN notices'
    BY <1>1, <1>2, <1>3
  <2> QED BY <1>2, <1>3, <1>4, <2>1, <2>2, <2>3 DEF GetsToShow
<1> QED BY <1>6, <1>7

\* The editor that takes the first of the notices gets to show the same.
LEMMA TakenIsShown ==
    ASSUME SettingsTypeOK, ReceiveNotice,
           NEW what \in {"chip", "resampling"}, NEW value, GetsToShow(what, value)
    PROVE  GetsToShow(what, value)'
<1> DEFINE first == Head(notices)
<1>1. /\ notices # <<>> /\ notices' = Tail(notices) /\ notify' = notify
      /\ shown' = [shown EXCEPT ![first.what] = first.value]
  BY DEF ReceiveNotice
<1>2. notices \in Seq(Messages) /\ shown \in [chip : Settings, resampling : Designs]
  BY DEF SettingsTypeOK
<1>3. /\ first = notices[1] /\ first \in Messages /\ Len(notices) \in Nat \ {0}
      /\ DOMAIN notices = 1 .. Len(notices) /\ DOMAIN notices' = 1 .. Len(notices) - 1
      /\ \A k \in 1 .. Len(notices) - 1 : notices'[k] = notices[k + 1]
  BY <1>1, <1>2, FirstAndRest
<1>4. /\ first.what = what => shown'[what] = first.value
      /\ first.what # what => shown'[what] = shown[what]
  <2>1. first.what \in {"chip", "resampling"}
    BY <1>3, MessageKinds
  <2> HIDE DEF first
  <2> QED BY <1>1, <1>2, <2>1
<1>5. \A j \in DOMAIN notices' : j + 1 \in DOMAIN notices /\ notices'[j] = notices[j + 1]
  BY <1>3
<1>6. \A j \in DOMAIN notices : j = 1 \/ (j - 1 \in DOMAIN notices' /\ notices[j] = notices'[j - 1])
  BY <1>3
<1>7. \A j \in DOMAIN notices : j \in Nat
  BY <1>3
<1>8. \A j \in DOMAIN notices' : j \in Nat \ {0}
  BY <1>3
<1>9. CASE what \in notify
  BY <1>1, <1>9 DEF GetsToShow
<1>10. CASE \A k \in DOMAIN notices : notices[k].what # what /\ shown[what] = value
  <2>1. 1 \in DOMAIN notices /\ first.what # what
    BY <1>3, <1>10
  <2>2. \A k \in DOMAIN notices' : notices'[k].what # what
    BY <1>5, <1>10
  <2>3. shown[what] = value
    BY <1>10, <2>1
  <2> QED BY <1>4, <2>1, <2>2, <2>3 DEF GetsToShow
<1>11. CASE \E k \in DOMAIN notices : /\ notices[k].what = what /\ notices[k].value = value
                                      /\ \A j \in DOMAIN notices : notices[j].what = what => j <= k
  <2> PICK k \in DOMAIN notices : /\ notices[k].what = what /\ notices[k].value = value
                                  /\ \A j \in DOMAIN notices : notices[j].what = what => j <= k
    BY <1>11
  <2>1. CASE k = 1
    <3>1. \A j \in DOMAIN notices' : notices'[j].what # what
      BY <1>5, <1>7, <1>8, <2>1
    <3>2. shown'[what] = value
      BY <1>3, <1>4, <2>1
    <3> QED BY <3>1, <3>2 DEF GetsToShow
  <2>2. CASE k # 1
    <3>1. /\ k - 1 \in DOMAIN notices' /\ notices'[k - 1].what = what
          /\ notices'[k - 1].value = value
      BY <1>6, <2>2
    <3>2. \A j \in DOMAIN notices' : notices'[j].what = what => j <= k - 1
      BY <1>5, <1>7, <1>8
    <3> QED BY <3>1, <3>2 DEF GetsToShow
  <2> QED BY <2>1, <2>2
<1> QED BY <1>3, <1>9, <1>10, <1>11 DEF GetsToShow

\* Where notices and what is shown stay, and what is marked does not get less, the editor
\* gets to show the same.
LEMMA StillGetsToShow ==
    ASSUME UNCHANGED <<notices, shown>>, notify \subseteq notify',
           NEW what, NEW value, GetsToShow(what, value)
    PROVE  GetsToShow(what, value)'
BY DEF GetsToShow

\* Every step keeps the notices on their way.
LEMMA StepNotices ==
    ASSUME SettingsIInv, NoticesOnTheirWay, [SettingsNext]_settingsVars
    PROVE  NoticesOnTheirWay'
<1>0. SettingsTypeOK /\ ResamplingKept
  BY DEF SettingsIInv
<1> DEFINE Unsettled == {"remaking", "written", "made", "read back"}
<1>1. ASSUME UNCHANGED <<player, rate_in_use, resampling_in_use, notices, shown>>,
             notify \subseteq notify', playing' => playing,
             \/ holder' = holder
             \/ holder \notin Unsettled
             \/ holder' \in {"remaking", "written"}
      PROVE  NoticesOnTheirWay'
  BY <1>1, StillGetsToShow DEF NoticesOnTheirWay
<1>2. ASSUME NEW s \in Settings, WriteParameter(s) PROVE NoticesOnTheirWay'
  BY <1>1, <1>2 DEF WriteParameter, player_vars, editor_vars
<1>3. CASE MarkParameter
  BY <1>1, <1>3 DEF MarkParameter, player_vars, editor_vars
<1>4. ASSUME NEW d \in Designs, SetResampling(d) PROVE NoticesOnTheirWay'
  BY <1>1, <1>4 DEF SetResampling, player_vars, editor_vars
<1>5. CASE BeginBlock
  BY <1>1, <1>5 DEF BeginBlock, player_vars, editor_vars
<1>6. CASE CompareSettings
  BY <1>1, <1>6 DEF CompareSettings, player_vars, editor_vars
<1>7. CASE SendSettings
  <2>1. /\ holder = "block: compared" /\ holder' = "free"
        /\ UNCHANGED <<playing, player, resampling, resampling_in_use>>
    BY <1>7 DEF SendSettings, player_vars
  <2>2. resampling_in_use = resampling
    BY <1>0, <2>1 DEF ResamplingKept
  <2>3. playing => GetsToShow("chip", player) /\ GetsToShow("resampling", resampling)
    BY <2>1, <2>2 DEF NoticesOnTheirWay
  <2>4. playing => GetsToShow("chip", player)' /\ GetsToShow("resampling", resampling)'
    <3>1. ASSUME playing PROVE GetsToShow("chip", player)'
      BY <1>0, <1>7, <2>1, <2>3, <3>1, SentIsLast
    <3>2. ASSUME playing PROVE GetsToShow("resampling", resampling)'
      BY <1>0, <1>7, <2>1, <2>3, <3>2, SentIsLast
    <3> QED BY <3>1, <3>2
  <2> QED BY <2>1, <2>2, <2>4 DEF NoticesOnTheirWay
<1>8. CASE WriteState
  BY <1>1, <1>8 DEF WriteState, editor_vars
<1>9. CASE CreatePlayer
  <2>1. holder' = "made" /\ "resampling" \in notify'
    BY <1>9 DEF CreatePlayer
  <2> QED BY <2>1 DEF NoticesOnTheirWay, GetsToShow
<1>10. CASE ReadState
  <2>1. /\ holder = "made" /\ holder' = "read back"
        /\ UNCHANGED <<playing, resampling_in_use, notices, shown, notify>>
    BY <1>10 DEF ReadState, editor_vars
  <2> QED BY <2>1, StillGetsToShow DEF NoticesOnTheirWay
<1>11. CASE GivePlayerState
  <2>1. /\ holder \in {"read back", "read"} /\ holder' \in {"free", "remaking"}
        /\ "chip" \in notify' /\ notify \subseteq notify'
        /\ UNCHANGED <<playing, resampling_in_use, notices, shown>>
    BY <1>11 DEF GivePlayerState, editor_vars
  <2>2. GetsToShow("chip", player)'
    BY <2>1 DEF GetsToShow
  <2> QED BY <2>1, <2>2, StillGetsToShow DEF NoticesOnTheirWay
<1>12. CASE ApplyChipSettings
  <2>1. /\ holder = "free" /\ holder' \in {"free", "remaking"}
        /\ "chip" \in notify' /\ notify \subseteq notify'
        /\ UNCHANGED <<playing, resampling_in_use, notices, shown>>
    BY <1>12 DEF ApplyChipSettings, Marked, editor_vars
  <2>2. GetsToShow("chip", player)'
    BY <2>1 DEF GetsToShow
  <2> QED BY <2>1, <2>2, StillGetsToShow DEF NoticesOnTheirWay
<1>13. CASE ApplyResampling
  BY <1>1, <1>13 DEF ApplyResampling, editor_vars
<1>14. ASSUME NEW s \in Settings, NEW d \in Designs, SetState(s, d) PROVE NoticesOnTheirWay'
  BY <1>1, <1>14 DEF SetState, editor_vars
<1>15. CASE ReleaseResources
  BY <1>15 DEF ReleaseResources, NoticesOnTheirWay
<1>16. CASE PrepareToPlay
  BY <1>16 DEF PrepareToPlay, NoticesOnTheirWay
<1>17. CASE ReceiveNotice
  <2>1. UNCHANGED <<playing, holder, player, resampling_in_use>>
    BY <1>17 DEF ReceiveNotice, player_vars
  <2>2. /\ GetsToShow("chip", player) => GetsToShow("chip", player)'
        /\ GetsToShow("resampling", resampling_in_use)
               => GetsToShow("resampling", resampling_in_use)'
    <3>1. ASSUME GetsToShow("chip", player) PROVE GetsToShow("chip", player)'
      BY <1>0, <1>17, <2>1, <3>1, TakenIsShown
    <3>2. ASSUME GetsToShow("resampling", resampling_in_use)
          PROVE  GetsToShow("resampling", resampling_in_use)'
      BY <1>0, <1>17, <2>1, <3>2, TakenIsShown
    <3> QED BY <3>1, <3>2
  <2> QED BY <2>1, <2>2 DEF NoticesOnTheirWay
<1>18. CASE UNCHANGED settingsVars
  BY <1>1, <1>18 DEF settingsVars
<1> QED BY <1>2, <1>3, <1>4, <1>5, <1>6, <1>7, <1>8, <1>9, <1>10, <1>11, <1>12,
           <1>13, <1>14, <1>15, <1>16, <1>17, <1>18 DEF SettingsNext

\* The editor that was told of everything shows what the player runs
\* (process_notifications, receive_chip_settings and receive_resampling), for queues of
\* every length: what does not fit stays marked, a player that was made again is told of,
\* and so is one whose queues were replaced.
THEOREM EditorCorrect == SettingsSpec => []EditorShowsThePlayer
<1>1. ASSUME SettingsInit PROVE NoticesOnTheirWay
  BY <1>1 DEF SettingsInit, NoticesOnTheirWay, GetsToShow
<1>2. ASSUME SettingsIInv, NoticesOnTheirWay, [SettingsNext]_settingsVars
      PROVE  NoticesOnTheirWay'
  BY <1>2, StepNotices
<1>3. ASSUME SettingsIInv, NoticesOnTheirWay PROVE EditorShowsThePlayer
  <2> SUFFICES ASSUME playing, holder = "free", notify = {}, notices = <<>>
               PROVE  shown = [chip |-> player, resampling |-> resampling]
    BY DEF EditorShowsThePlayer
  <2>1. GetsToShow("chip", player) /\ GetsToShow("resampling", resampling_in_use)
    BY <1>3 DEF NoticesOnTheirWay
  <2>2. DOMAIN notices = {}
    OBVIOUS
  <2>3. shown["chip"] = player /\ shown["resampling"] = resampling_in_use
    BY <2>1, <2>2 DEF GetsToShow
  <2>4. resampling_in_use = resampling
    BY <1>3 DEF SettingsIInv, ResamplingKept
  <2>5. shown \in [chip : Settings, resampling : Designs]
    BY <1>3 DEF SettingsIInv, SettingsTypeOK
  <2> QED BY <2>3, <2>4, <2>5
<1> QED BY <1>1, <1>2, <1>3, Inductive, PTL DEF SettingsSpec
=============================================================================
