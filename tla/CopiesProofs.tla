---------------------------- MODULE CopiesProofs ----------------------------
(* That what is kept in several places - the parameters of a bank, the     *)
(* fields of the chip, the part the editor is on - agrees once nothing is  *)
(* on its way, for every set of parameters, parts and programs, every      *)
(* range and every length of the queues.                                   *)
EXTENDS GlobalParameters, ChipControls, EditorControls, SequenceTheorems, TLAPS

-----------------------------------------------------------------------------
(* The parameters of a bank.                                               *)

\* A value held to the choices of a parameter is one of them.
LEMMA ClampedIsAValue == \A v \in Int : Clamped(v) \in GlobalValues
BY GlobalAssumption DEF Clamped, GlobalValues

\* The first of a queue that is not empty, the rest of it, and its last.
LEMMA RestOfQueue ==
    ASSUME NEW T, NEW q \in Seq(T), q # <<>>
    PROVE  /\ Head(q) \in T /\ Tail(q) \in Seq(T)
           /\ Len(q) \in Nat \ {0} /\ Len(Tail(q)) = Len(q) - 1
           /\ q[Len(q)] \in T
           /\ Tail(q) = <<>> => Head(q) = q[Len(q)]
           /\ Tail(q) # <<>> => Tail(q)[Len(Tail(q))] = q[Len(q)]
<1>1. Len(q) \in Nat /\ Len(q) # 0 /\ DOMAIN q = 1 .. Len(q)
  BY EmptySeq, LenProperties
<1>2. /\ Head(q) \in T /\ Tail(q) \in Seq(T) /\ Len(Tail(q)) = Len(q) - 1
      /\ \A k \in 1 .. Len(Tail(q)) : Tail(q)[k] = q[k + 1]
  BY HeadTailProperties
<1>3. Head(q) = q[1] /\ q[Len(q)] \in T
  BY <1>1, ElementOfSeq
<1>4. Tail(q) = <<>> => Len(q) = 1
  <2>1. Len(<<>>) = 0
    OBVIOUS
  <2> QED BY <1>1, <1>2, <2>1
<1>5. Tail(q) # <<>> => Len(q) - 1 \in 1 .. Len(q) - 1
  BY <1>1, <1>2, EmptySeq
<1> QED BY <1>1, <1>2, <1>3, <1>4, <1>5

\* A queue and what is put behind it.
LEMMA OneBehind ==
    ASSUME NEW T, NEW q \in Seq(T), NEW m \in T
    PROVE  /\ Append(q, m) \in Seq(T) /\ Append(q, m) # <<>>
           /\ Len(q) \in Nat /\ Len(Append(q, m)) = Len(q) + 1
           /\ Append(q, m)[Len(Append(q, m))] = m
BY AppendProperties, LenProperties, EmptySeq

\* The two messages of a file behind a queue.
LEMMA FileBehind ==
    ASSUME NEW q \in Seq(GlobalMessages), NEW globals \in AllGlobals
    PROVE  /\ q \o <<LoadGlobals(globals), RequestGlobals>> \in Seq(GlobalMessages)
           /\ Len(q \o <<LoadGlobals(globals), RequestGlobals>>) = Len(q) + 2
<1>1. LoadGlobals(globals) \in GlobalMessages /\ RequestGlobals \in GlobalMessages
  BY DEF GlobalMessages
<1>2. <<LoadGlobals(globals), RequestGlobals>> \in Seq(GlobalMessages)
  BY <1>1
<1>3. Len(<<LoadGlobals(globals), RequestGlobals>>) = 2
  OBVIOUS
<1> QED BY <1>2, <1>3, ConcatProperties

\* There is room for none.
LEMMA EmptyQueues ==
    /\ <<>> \in Seq(GlobalMessages) /\ <<>> \in Seq(AllGlobals)
    /\ Len(<<>>) <= MaxToPlayer /\ Len(<<>>) <= MaxToEditor
<1>1. Len(<<>>) = 0 /\ MaxToPlayer \in Nat /\ MaxToEditor \in Nat
  BY GlobalAssumption
<1> QED BY <1>1

\* A processor that was just made and its editor have the same parameters.
LEMMA GlobalInitHolds == GlobalInit => GlobalsIInv
<1> SUFFICES ASSUME GlobalInit PROVE GlobalsIInv
  OBVIOUS
<1>1. /\ toPlayer \in Seq(GlobalMessages) /\ Len(toPlayer) <= MaxToPlayer
      /\ toShow \in Seq(AllGlobals) /\ Len(toShow) <= MaxToEditor
  BY EmptyQueues DEF GlobalInit
<1>2. globalSteps \in 0 .. MaxGlobalSteps
  BY GlobalAssumption DEF GlobalInit
<1>3. DefaultGlobals \in AllGlobals
  BY GlobalAssumption DEF AllGlobals, GlobalValues
<1>4. GlobalsTypeOK
  BY <1>1, <1>2, <1>3 DEF GlobalInit, GlobalsTypeOK
<1>5. PlayerHasParameters /\ LastNoticeIsPlayers /\ ShownIsKnown
  BY DEF GlobalInit, PlayerHasParameters, LastNoticeIsPlayers, ShownIsKnown
<1> QED BY <1>4, <1>5 DEF GlobalsIInv

\* One more of the steps that are counted.
LEMMA StepsBounded ==
    ASSUME GlobalsTypeOK, OneMoreStep \/ UNCHANGED globalSteps
    PROVE  globalSteps' \in 0 .. MaxGlobalSteps
BY GlobalAssumption DEF GlobalsTypeOK, OneMoreStep

\* A parameter is set, by the editor or by the host.
LEMMA GlobalIsSet ==
    ASSUME GlobalsIInv, NEW g \in Globals, NEW value \in GlobalValues,
           TurnGlobal(g, value) \/ HostSetsGlobal(g, value)
    PROVE  GlobalsIInv'
<1> USE DEF GlobalsIInv
<1>1. globalParams' = [globalParams EXCEPT ![g] = value]
  BY DEF TurnGlobal, HostSetsGlobal, SetGlobal
<1>2. CASE TurnGlobal(g, value)
  <2>1. /\ globalsShown' = [globalsShown EXCEPT ![g] = value]
        /\ globalChanged' = (globalChanged \/ globalParams[g] # value)
        /\ UNCHANGED <<playerGlobals, globalNotice, toPlayer, toShow, since>>
    BY <1>2 DEF TurnGlobal, SetGlobal
  <2>2. GlobalsTypeOK'
    BY <1>1, <1>2, <2>1, StepsBounded DEF GlobalsTypeOK, AllGlobals, TurnGlobal
  <2>3. PlayerHasParameters'
    BY <1>1, <2>1 DEF PlayerHasParameters, GlobalsTypeOK, AllGlobals
  <2>4. LastNoticeIsPlayers'
    BY <2>1 DEF LastNoticeIsPlayers
  <2>5. ShownIsKnown'
    BY <1>1, <2>1 DEF ShownIsKnown, GlobalsTypeOK, AllGlobals
  <2> QED BY <2>2, <2>3, <2>4, <2>5
<1>3. CASE HostSetsGlobal(g, value)
  <2>1. /\ globalChanged' = TRUE /\ since' = since \cup {"host"}
        /\ UNCHANGED <<playerGlobals, globalsShown, globalNotice, toPlayer, toShow>>
    BY <1>3 DEF HostSetsGlobal
  <2>2. GlobalsTypeOK'
    BY <1>1, <1>3, <2>1, StepsBounded DEF GlobalsTypeOK, AllGlobals, HostSetsGlobal
  <2> QED BY <2>1, <2>2 DEF PlayerHasParameters, LastNoticeIsPlayers, ShownIsKnown
<1> QED BY <1>2, <1>3

\* A file is opened, and the player is told of one.
LEMMA GlobalsOfFile ==
    ASSUME GlobalsIInv, (\E globals \in AllGlobals : OpenBankFile(globals)) \/ HandleGlobals
    PROVE  GlobalsIInv'
<1> USE DEF GlobalsIInv
<1>1. CASE \E globals \in AllGlobals : OpenBankFile(globals)
  <2> PICK globals \in AllGlobals : OpenBankFile(globals)
    BY <1>1
  <2>1. GlobalsTypeOK'
    BY FileBehind, StepsBounded DEF OpenBankFile, GlobalsTypeOK
  <2> QED BY <2>1 DEF OpenBankFile, PlayerHasParameters, LastNoticeIsPlayers, ShownIsKnown
<1>2. CASE HandleGlobals
  <2>1. Head(toPlayer) \in GlobalMessages /\ Tail(toPlayer) \in Seq(GlobalMessages)
        /\ Len(Tail(toPlayer)) = Len(toPlayer) - 1 /\ Len(toPlayer) \in Nat
    BY <1>2, RestOfQueue DEF HandleGlobals, GlobalsTypeOK
  <2>2. Head(toPlayer).load => Head(toPlayer).globals \in AllGlobals
    BY <2>1 DEF GlobalMessages, LoadGlobals, RequestGlobals
  <2>3. /\ toPlayer' \in Seq(GlobalMessages) /\ Len(toPlayer') <= MaxToPlayer
        /\ playerGlobals' \in AllGlobals /\ globalNotice' \in BOOLEAN
        /\ since' \subseteq {"host", "file"}
    <3>1. toPlayer' = Tail(toPlayer) /\ MaxToPlayer \in Nat
      BY <1>2, GlobalAssumption DEF HandleGlobals
    <3>2. toPlayer' \in Seq(GlobalMessages) /\ Len(toPlayer') <= MaxToPlayer
      BY <2>1, <3>1 DEF GlobalsTypeOK
    <3>3. playerGlobals' \in AllGlobals
      BY <1>2, <2>2 DEF HandleGlobals, GlobalsTypeOK
    <3>4. globalNotice' \in BOOLEAN
      BY <1>2 DEF HandleGlobals
    <3>5. since' \subseteq {"host", "file"}
      BY <1>2 DEF HandleGlobals, GlobalsTypeOK
    <3> QED BY <3>2, <3>3, <3>4, <3>5
  <2>4. GlobalsTypeOK'
    BY <1>2, <2>3 DEF HandleGlobals, GlobalsTypeOK
  <2>5. PlayerHasParameters' /\ LastNoticeIsPlayers' /\ ShownIsKnown'
    BY <1>2 DEF HandleGlobals, GlobalsTypeOK, PlayerHasParameters, LastNoticeIsPlayers, ShownIsKnown
  <2> QED BY <2>4, <2>5
<1> QED BY <1>1, <1>2

\* A block applies the changes.
LEMMA GlobalsApplied ==
    ASSUME GlobalsIInv, ApplyGlobals
    PROVE  GlobalsIInv'
<1> USE DEF GlobalsIInv, ApplyGlobals
<1>1. GlobalsTypeOK'
  BY DEF GlobalsTypeOK
<1>2. PlayerHasParameters' /\ LastNoticeIsPlayers' /\ ShownIsKnown'
  BY DEF GlobalsTypeOK, PlayerHasParameters, LastNoticeIsPlayers, ShownIsKnown
<1> QED BY <1>1, <1>2

\* A notification is sent or received.
LEMMA GlobalsTold ==
    ASSUME GlobalsIInv, NotifyGlobals \/ ReceiveGlobals
    PROVE  GlobalsIInv'
<1> USE DEF GlobalsIInv
<1>1. CASE NotifyGlobals
  <2>1. /\ toShow' \in Seq(AllGlobals) /\ Len(toShow') <= MaxToEditor
        /\ toShow' # <<>> /\ toShow'[Len(toShow')] = playerGlobals
    BY <1>1, OneBehind, GlobalAssumption DEF NotifyGlobals, GlobalsTypeOK
  <2>2. GlobalsTypeOK'
    BY <1>1, <2>1 DEF NotifyGlobals, GlobalsTypeOK
  <2> QED BY <1>1, <2>1, <2>2
          DEF NotifyGlobals, PlayerHasParameters, LastNoticeIsPlayers, ShownIsKnown
<1>2. CASE ReceiveGlobals
  <2>1. /\ Head(toShow) \in AllGlobals /\ Tail(toShow) \in Seq(AllGlobals)
        /\ Len(toShow) \in Nat /\ Len(Tail(toShow)) = Len(toShow) - 1
        /\ Tail(toShow) = <<>> => Head(toShow) = toShow[Len(toShow)]
        /\ Tail(toShow) # <<>> => Tail(toShow)[Len(Tail(toShow))] = toShow[Len(toShow)]
    BY <1>2, RestOfQueue DEF ReceiveGlobals, GlobalsTypeOK
  <2>2. GlobalsTypeOK'
    BY <1>2, <2>1, GlobalAssumption DEF ReceiveGlobals, GlobalsTypeOK
  <2>3. PlayerHasParameters' /\ LastNoticeIsPlayers'
    BY <1>2, <2>1 DEF ReceiveGlobals, PlayerHasParameters, LastNoticeIsPlayers
  <2>4. ShownIsKnown'
    BY <1>2, <2>1 DEF ReceiveGlobals, LastNoticeIsPlayers, ShownIsKnown
  <2> QED BY <2>2, <2>3, <2>4
<1> QED BY <1>1, <1>2

\* The player is given a project, or is made again.
LEMMA GlobalsReplaced ==
    ASSUME GlobalsIInv,
           RemakeWithGlobals \/ \E set \in [Globals -> GlobalValues \cup WildValues] : ReadGlobals(set)
    PROVE  GlobalsIInv'
<1> USE DEF GlobalsIInv
<1>1. CASE RemakeWithGlobals
  <2>1. /\ toPlayer' \in Seq(GlobalMessages) /\ Len(toPlayer') <= MaxToPlayer
        /\ toShow' \in Seq(AllGlobals) /\ Len(toShow') <= MaxToEditor
    BY <1>1, EmptyQueues DEF RemakeWithGlobals
  <2>2. GlobalsTypeOK'
    BY <1>1, <2>1, StepsBounded DEF RemakeWithGlobals, GlobalsTypeOK
  <2> QED BY <1>1, <2>2
          DEF RemakeWithGlobals, PlayerHasParameters, LastNoticeIsPlayers, ShownIsKnown
<1>2. CASE \E set \in [Globals -> GlobalValues \cup WildValues] : ReadGlobals(set)
  <2> PICK set \in [Globals -> GlobalValues \cup WildValues] : ReadGlobals(set)
    BY <1>2
  <2>1. \A g \in Globals : set[g] \in Int
    <3>1. GlobalValues \cup WildValues \subseteq Int
      BY GlobalAssumption DEF GlobalValues
    <3> QED BY <3>1
  <2>2. playerGlobals' \in AllGlobals
    BY <2>1, ClampedIsAValue DEF ReadGlobals, AllGlobals
  <2>3. GlobalsTypeOK'
    BY <2>2, StepsBounded DEF ReadGlobals, GlobalsTypeOK
  <2> QED BY <2>3 DEF ReadGlobals, PlayerHasParameters, LastNoticeIsPlayers, ShownIsKnown
<1> QED BY <1>1, <1>2

\* Every step keeps the global parameters' invariant.
LEMMA GlobalStep ==
    ASSUME GlobalsIInv, [GlobalNext]_globalVars
    PROVE  GlobalsIInv'
<1>1. CASE UNCHANGED globalVars
  BY <1>1 DEF globalVars, GlobalsIInv, GlobalsTypeOK, PlayerHasParameters, LastNoticeIsPlayers,
              ShownIsKnown
<1>2. CASE GlobalNext
  BY <1>2, GlobalIsSet, GlobalsOfFile, GlobalsApplied, GlobalsTold, GlobalsReplaced DEF GlobalNext
<1> QED BY <1>1, <1>2

\* So the invariant holds all along.
LEMMA GlobalsInvariance == GlobalSpec => []GlobalsIInv
BY GlobalInitHolds, GlobalStep, PTL DEF GlobalSpec

\* The parameters of a bank, the player's and the editor's are of their types, and the
\* queues between them hold no more than there is room for: what a project holds that no
\* parameter has is held to the choices of one (from_properties).
THEOREM GlobalsTypeCorrect == GlobalSpec => []GlobalsTypeOK
<1>1. GlobalsIInv => GlobalsTypeOK
  BY DEF GlobalsIInv
<1> QED BY <1>1, GlobalsInvariance, PTL

\* The three copies of the parameters of a bank agree once nothing is on its way
\* (apply_parameter_changes, process_notifications, receive_global_parameters): for every
\* number of parameters and choices and queues of every length.
THEOREM GlobalsCorrect == GlobalSpec => []GlobalsAgree
<1>1. ASSUME GlobalsIInv PROVE GlobalsAgree
  <2> SUFFICES ASSUME GlobalsSettled
               PROVE  /\ "file" \notin since => globalParams = playerGlobals
                      /\ since = {} => globalsShown = playerGlobals
    BY DEF GlobalsAgree
  <2>1. "file" \notin since => globalParams = playerGlobals
    BY <1>1 DEF GlobalsIInv, PlayerHasParameters, GlobalsSettled
  <2>2. ASSUME since = {} PROVE globalsShown = playerGlobals
    <3>1. \A g \in Globals : globalsShown[g] = playerGlobals[g]
      BY <1>1, <2>1, <2>2 DEF GlobalsIInv, ShownIsKnown, GlobalsSettled
    <3> QED BY <1>1, <3>1 DEF GlobalsIInv, GlobalsTypeOK, AllGlobals
  <2> QED BY <2>1, <2>2
<1> QED BY <1>1, GlobalsInvariance, PTL

-----------------------------------------------------------------------------
(* The chip, field by field.                                               *)

\* A product grows with its factor.
LEMMA ProductGrows ==
    ASSUME NEW a \in Nat, NEW b \in Nat, NEW c \in Nat, b <= c
    PROVE  a * b \in Nat /\ a * b <= a * c
<1>1. a * c = a * b + a * (c - b)
  OBVIOUS
<1>2. a * b \in Nat /\ a * (c - b) \in Nat
  OBVIOUS
<1> QED BY <1>1, <1>2

\* The operators of four that some of the chips have.
LEMMA FourOps ==
    /\ FourOpsPerChip * MaxChips \in Nat
    /\ \A c \in 1 .. MaxChips : /\ FourOpsPerChip * c \in Nat
                                /\ FourOpsPerChip * c <= FourOpsPerChip * MaxChips
BY ProductGrows, ChipAssumption

\* A core that is there, whichever was asked for.
LEMMA AvailableIsBuilt ==
    /\ \A core : Available(core) \in Built
    /\ \A core \in Built : Available(core) = core
    /\ \A core : Available(core) \in 0 .. TopCore
BY ChipAssumption DEF Available

\* The values of each parameter.
LEMMA ValuesOfFields ==
    /\ ParameterValues["emulator"] = 0 .. TopCore
    /\ ParameterValues["count"] = 1 .. MaxChips
    /\ ParameterValues["fourop"] = 0 .. FourOpsPerChip * MaxChips
    /\ ParameterValues["type"] = 0 .. LastType
    /\ ParameterValues["alloc"] = -1 .. TopMode
    /\ \A f \in ChipFields : ParameterValues[f] \subseteq Int
<1>1. /\ ParameterValues["emulator"] = 0 .. TopCore
      /\ ParameterValues["count"] = 1 .. MaxChips
      /\ ParameterValues["fourop"] = 0 .. FourOpsPerChip * MaxChips
      /\ ParameterValues["type"] = 0 .. LastType
      /\ ParameterValues["alloc"] = -1 .. TopMode
  BY DEF ParameterValues
<1>2. \A f \in ChipFields : ParameterValues[f] \subseteq Int
  <2>1. TopCore \in Int /\ MaxChips \in Int /\ FourOpsPerChip * MaxChips \in Int
        /\ LastType \in Int /\ TopMode \in Int
    BY FourOps, ChipAssumption
  <2>2. \A a \in Int, b \in Int : a .. b \subseteq Int
    OBVIOUS
  <2> QED BY <1>1, <2>1, <2>2 DEF ChipFields
<1> QED BY <1>1, <1>2

\* Settings, field by field.
LEMMA FieldsOfSettings ==
    ASSUME NEW cs \in [ChipFields -> Int]
    PROVE  cs \in ChipSettings <=>
               /\ cs.emulator \in 0 .. TopCore /\ cs.count \in 1 .. MaxChips
               /\ cs.fourop \in 0 .. FourOpsPerChip * MaxChips
               /\ cs.type \in 0 .. LastType /\ cs.alloc \in -1 .. TopMode
BY ValuesOfFields DEF ChipSettings, ChipFields

\* A record of the five fields.
LEMMA RecordOfFields ==
    ASSUME NEW e \in Int, NEW c \in Int, NEW p \in Int, NEW t \in Int, NEW a \in Int
    PROVE  [emulator |-> e, count |-> c, fourop |-> p, type |-> t, alloc |-> a]
               \in [ChipFields -> Int]
<1> DEFINE g == [f \in ChipFields |-> IF f = "emulator" THEN e ELSE IF f = "count" THEN c
                    ELSE IF f = "fourop" THEN p ELSE IF f = "type" THEN t ELSE a]
<1> DEFINE r == [emulator |-> e, count |-> c, fourop |-> p, type |-> t, alloc |-> a]
<1>1. g \in [ChipFields -> Int]
  OBVIOUS
<1>2. g["emulator"] = e /\ g["count"] = c /\ g["fourop"] = p /\ g["type"] = t /\ g["alloc"] = a
  BY DEF ChipFields
<1>3. r["emulator"] = e /\ r["count"] = c /\ r["fourop"] = p /\ r["type"] = t /\ r["alloc"] = a
  OBVIOUS
<1> HIDE DEF g
<1>4. g = r
  BY <1>1, <1>2, <1>3 DEF ChipFields
<1> QED BY <1>1, <1>4

\* What the player runs of settings is settings, and what it runs of these is the same.
LEMMA PlayableIsPlayable ==
    ASSUME NEW cs \in ChipSettings
    PROVE  PlayableChip(cs) \in PlayableChips
<1> DEFINE pc == PlayableChip(cs)
<1>1. /\ cs \in [ChipFields -> Int]
      /\ cs.emulator \in 0 .. TopCore /\ cs.count \in 1 .. MaxChips
      /\ cs.fourop \in 0 .. FourOpsPerChip * MaxChips
      /\ cs.type \in 0 .. LastType /\ cs.alloc \in -1 .. TopMode
  BY FieldsOfSettings DEF ChipSettings
<1>2. MaxChips \in Nat /\ LastType \in Nat /\ TopMode \in Nat
  BY ChipAssumption
<1>3. /\ Within(1, MaxChips, cs.count) = cs.count
      /\ Lesser(cs.type, LastType) = cs.type /\ Within(-1, TopMode, cs.alloc) = cs.alloc
  BY <1>1, <1>2 DEF Within, Lesser
<1>4. pc = [emulator |-> Available(cs.emulator), count |-> cs.count,
            fourop |-> Lesser(cs.fourop, FourOpsPerChip * cs.count),
            type |-> cs.type, alloc |-> cs.alloc]
  BY <1>3 DEF PlayableChip
<1>5. /\ FourOpsPerChip * cs.count \in Nat
      /\ FourOpsPerChip * cs.count <= FourOpsPerChip * MaxChips
      /\ FourOpsPerChip * MaxChips \in Nat
  BY <1>1, FourOps
<1>6. /\ Lesser(cs.fourop, FourOpsPerChip * cs.count) \in 0 .. FourOpsPerChip * MaxChips
      /\ Lesser(Lesser(cs.fourop, FourOpsPerChip * cs.count), FourOpsPerChip * cs.count)
             = Lesser(cs.fourop, FourOpsPerChip * cs.count)
  BY <1>1, <1>5 DEF Lesser
<1>7. Available(cs.emulator) \in 0 .. TopCore
      /\ Available(Available(cs.emulator)) = Available(cs.emulator)
  BY AvailableIsBuilt
<1> HIDE DEF pc
<1>8. pc \in [ChipFields -> Int]
  <2>1. /\ Available(cs.emulator) \in Int /\ cs.count \in Int
        /\ Lesser(cs.fourop, FourOpsPerChip * cs.count) \in Int
        /\ cs.type \in Int /\ cs.alloc \in Int
    BY <1>1, <1>5, <1>6, <1>7
  <2> QED BY <1>4, <2>1, RecordOfFields
<1>9. /\ pc.emulator = Available(cs.emulator) /\ pc.count = cs.count
      /\ pc.fourop = Lesser(cs.fourop, FourOpsPerChip * cs.count)
      /\ pc.type = cs.type /\ pc.alloc = cs.alloc
  BY <1>4
<1>10. pc \in ChipSettings
  BY <1>1, <1>6, <1>7, <1>8, <1>9, FieldsOfSettings
<1>11. PlayableChip(pc) = pc
  <2>1. PlayableChip(pc) =
            [emulator |-> Available(Available(cs.emulator)), count |-> Within(1, MaxChips, cs.count),
             fourop |-> Lesser(Lesser(cs.fourop, FourOpsPerChip * cs.count),
                               FourOpsPerChip * Within(1, MaxChips, cs.count)),
             type |-> Lesser(cs.type, LastType), alloc |-> Within(-1, TopMode, cs.alloc)]
    BY <1>9 DEF PlayableChip
  <2> QED BY <1>3, <1>4, <1>6, <1>7, <2>1
<1> QED BY <1>10, <1>11 DEF PlayableChips, pc

\* Fields played alike make the same settings.
LEMMA AlikeIsTheSame ==
    ASSUME NEW a \in [ChipFields -> Int], NEW b \in [ChipFields -> Int], PlayedAlike(a, b)
    PROVE  PlayableChip(a) = PlayableChip(b)
<1> DEFINE top == FourOpsPerChip * MaxChips
           n == FourOpsPerChip * Within(1, MaxChips, a.count)
<1>1. a.fourop \in Int /\ b.fourop \in Int /\ a.count \in Int
  BY DEF ChipFields
<1>2. Within(1, MaxChips, a.count) \in 1 .. MaxChips
  BY <1>1, ChipAssumption DEF Within, Lesser
<1>3. n \in Nat /\ top \in Nat /\ n <= top
  BY <1>2, FourOps
<1>4. Lesser(a.fourop, top) = Lesser(b.fourop, top)
  BY DEF PlayedAlike
<1> HIDE DEF n, top
<1>5. Lesser(a.fourop, n) = Lesser(b.fourop, n)
  BY <1>1, <1>3, <1>4 DEF Lesser
<1> QED BY <1>5 DEF PlayableChip, PlayedAlike, n

\* Settings and what the player runs of them are played alike, but for the operators of
\* four, which the chips' number bounds.
LEMMA PlayedFieldsAlike ==
    ASSUME NEW cs \in ChipSettings
    PROVE  /\ Available(PlayableChip(cs).emulator) = Available(cs.emulator)
           /\ Lesser(PlayableChip(cs).type, LastType) = Lesser(cs.type, LastType)
           /\ Within(-1, TopMode, PlayableChip(cs).alloc) = Within(-1, TopMode, cs.alloc)
<1>1. cs \in [ChipFields -> Int] /\ cs.type \in 0 .. LastType /\ cs.alloc \in -1 .. TopMode
  BY FieldsOfSettings DEF ChipSettings
<1>2. /\ PlayableChip(cs).emulator = Available(cs.emulator)
      /\ PlayableChip(cs).type = Lesser(cs.type, LastType)
      /\ PlayableChip(cs).alloc = Within(-1, TopMode, cs.alloc)
  BY DEF PlayableChip
<1>3. Lesser(cs.type, LastType) = cs.type /\ Within(-1, TopMode, cs.alloc) = cs.alloc
  BY <1>1, ChipAssumption DEF Within, Lesser
<1> QED BY <1>2, <1>3, AvailableIsBuilt

\* The fields that are one of the five, of settings that one of them is changed of.
LEMMA OneField ==
    ASSUME NEW f \in ChipFields, NEW v \in Int, NEW cs \in [ChipFields -> Int]
    PROVE  /\ [cs EXCEPT ![f] = v] \in [ChipFields -> Int]
           /\ [cs EXCEPT ![f] = v].emulator = IF f = "emulator" THEN v ELSE cs.emulator
           /\ [cs EXCEPT ![f] = v].count = IF f = "count" THEN v ELSE cs.count
           /\ [cs EXCEPT ![f] = v].fourop = IF f = "fourop" THEN v ELSE cs.fourop
           /\ [cs EXCEPT ![f] = v].type = IF f = "type" THEN v ELSE cs.type
           /\ [cs EXCEPT ![f] = v].alloc = IF f = "alloc" THEN v ELSE cs.alloc
BY DEF ChipFields

\* A parameter that is set, whoever sets it: what is asked of it is what it holds.
LEMMA FieldIsSet ==
    ASSUME ChipTypeOK, NEW f \in ChipFields, NEW v \in ParameterValues[f], Set(f, v)
    PROVE  /\ chipParams' \in ChipSettings /\ asked' \in [ChipFields -> Int]
           /\ chipChanged' \in BOOLEAN
           /\ ~chipChanged' => ~chipChanged /\ chipParams' = chipParams
           /\ PlayedAlike(chipParams, asked) => PlayedAlike(chipParams', asked')
<1>1. /\ chipParams' = [chipParams EXCEPT ![f] = v] /\ asked' = [asked EXCEPT ![f] = v]
      /\ chipChanged' = (chipChanged \/ chipParams[f] # v)
  BY DEF Set
<1>2. v \in Int /\ chipParams \in [ChipFields -> Int] /\ asked \in [ChipFields -> Int]
  BY ValuesOfFields DEF ChipTypeOK, ChipSettings
<1>3. chipParams' \in ChipSettings
  BY <1>1, <1>2 DEF ChipTypeOK, ChipSettings
<1>4. asked' \in [ChipFields -> Int]
  BY <1>1, <1>2
<1>5. ~chipChanged' => ~chipChanged /\ chipParams' = chipParams
  BY <1>1, <1>2
<1>6. ASSUME PlayedAlike(chipParams, asked)
      PROVE  PlayedAlike(chipParams', asked')
  BY <1>1, <1>2, <1>6, OneField DEF PlayedAlike
<1>7. chipChanged' \in BOOLEAN
  BY <1>1
<1> QED BY <1>3, <1>4, <1>5, <1>6, <1>7

\* One more of the choices that are counted.
LEMMA ChoicesBounded ==
    ASSUME ChipTypeOK, OneMoreChoice \/ UNCHANGED choices
    PROVE  choices' \in 0 .. MaxChoices
BY ChipAssumption DEF ChipTypeOK, OneMoreChoice

\* At first nothing is on its way, and the player runs the defaults.
LEMMA ChipInitHolds == ChipInit => ChipIInv
<1> SUFFICES ASSUME ChipInit PROVE ChipIInv
  OBVIOUS
<1>1. FirstChip \in ChipSettings /\ chip \in PlayableChips
  BY PlayableIsPlayable, ChipAssumption DEF ChipInit
<1>2. chip.type \in 0 .. LastType
  BY <1>1, ValuesOfFields DEF PlayableChips, ChipSettings, ChipFields
<1>3. /\ chipRequests \in Seq(ChipSettings) /\ Len(chipRequests) <= MaxChipQueue
      /\ chipNotices \in Seq(PlayableChips) /\ Len(chipNotices) <= MaxChipQueue
  <2>1. Len(<<>>) = 0 /\ MaxChipQueue \in Nat
    BY ChipAssumption
  <2> QED BY <2>1 DEF ChipInit
<1>4. DOMAIN delayed = {}
  BY DEF ChipInit, NoDelays
<1>5. choices \in 0 .. MaxChoices
  BY ChipAssumption DEF ChipInit
<1>6. asked \in [ChipFields -> Int]
  BY <1>1 DEF ChipInit, ChipSettings
<1>7. ChipTypeOK
  BY <1>1, <1>2, <1>3, <1>4, <1>5, <1>6 DEF ChipInit, ChipTypeOK
<1>8. ParametersAsAsked /\ LastRequestIsParameters /\ LastNoticeIsChip
  BY DEF ChipInit, ParametersAsAsked, LastRequestIsParameters, LastNoticeIsChip, PlayedAlike
<1> QED BY <1>7, <1>8 DEF ChipIInv

\* The host, or a timer of the editor, sets a parameter.
LEMMA ChipIsSet ==
    ASSUME ChipIInv, NEW f \in ChipFields,
           (\E v \in ParameterValues[f] : HostSets(f, v)) \/ DelayIsOver(f)
    PROVE  ChipIInv'
<1> USE DEF ChipIInv
<1>1. PICK v \in ParameterValues[f] : Set(f, v)
  BY DEF HostSets, DelayIsOver, ChipTypeOK
<1>2. UNCHANGED <<chip, madeFor, chipRequests, chipNotice, chipNotices, chipEditor, chipShown,
                  hurried>>
  BY DEF HostSets, DelayIsOver
<1>3. choices' \in 0 .. MaxChoices
  BY ChoicesBounded DEF HostSets, DelayIsOver
<1>4. /\ DOMAIN delayed' \subseteq ChipFields
      /\ \A g \in DOMAIN delayed' : delayed'[g] \in ParameterValues[g]
  BY DEF HostSets, DelayIsOver, ChipTypeOK
<1>5. ChipTypeOK'
  BY <1>1, <1>2, <1>3, <1>4, FieldIsSet DEF ChipTypeOK
<1>6. ParametersAsAsked' /\ LastRequestIsParameters' /\ LastNoticeIsChip'
  BY <1>1, <1>2, FieldIsSet DEF ParametersAsAsked, LastRequestIsParameters, LastNoticeIsChip
<1> QED BY <1>5, <1>6

\* A choice of the editor: what it takes for what there is already is that.
LEMMA ChipIsChosen ==
    ASSUME ChipIInv, NEW f \in {"emulator", "alloc", "type"}, NEW v \in Offered(f), Choose(f, v)
    PROVE  ChipIInv'
<1> USE DEF ChipIInv
<1>1. f \in ChipFields /\ v \in ParameterValues[f] /\ v \in Int
  <2>1. CASE f = "emulator"
    BY <2>1, ChipAssumption, ValuesOfFields DEF Offered, ChipFields
  <2>2. CASE f # "emulator"
    BY <2>2, ValuesOfFields DEF Offered, ChipFields
  <2> QED BY <2>1, <2>2
<1>2. UNCHANGED <<chip, madeFor, chipRequests, chipNotice, chipNotices, chipEditor, chipShown,
                  delayed>>
  BY DEF Choose
<1>3. choices' \in 0 .. MaxChoices
  BY ChoicesBounded DEF Choose
<1>4. LastNoticeIsChip'
  BY <1>2 DEF LastNoticeIsChip
<1>5. CASE AsShown(f, v)
  <2>1. /\ asked' = [asked EXCEPT ![f] = v] /\ hurried' = (hurried \/ ChipOnItsWay)
        /\ UNCHANGED <<chipParams, chipChanged>>
    BY <1>5 DEF Choose
  <2>2. asked' \in [ChipFields -> Int]
    BY <1>1, <2>1 DEF ChipTypeOK
  <2>3. ChipTypeOK'
    BY <1>2, <1>3, <2>1, <2>2 DEF ChipTypeOK
  <2>4. LastRequestIsParameters'
    BY <1>2, <2>1 DEF LastRequestIsParameters
  <2>5. ASSUME ~hurried' PROVE PlayedAlike(chipParams', asked')
    <3>1. ~hurried /\ ~chipChanged /\ chipRequests = <<>> /\ ~chipNotice /\ chipNotices = <<>>
      BY <2>1, <2>5 DEF ChipOnItsWay
    <3>2. chipShown = PlayableChip(chipParams) /\ PlayedAlike(chipParams, asked)
      BY <3>1 DEF Choose, LastRequestIsParameters, LastNoticeIsChip, ParametersAsAsked
    <3>3. v = PlayableChip(chipParams)[f]
      BY <1>5, <3>2 DEF AsShown
    <3>4. /\ f = "emulator" => Available(v) = Available(chipParams.emulator)
          /\ f = "type" => Lesser(v, LastType) = Lesser(chipParams.type, LastType)
          /\ f = "alloc" => Within(-1, TopMode, v) = Within(-1, TopMode, chipParams.alloc)
      BY <3>3, PlayedFieldsAlike DEF ChipTypeOK
    <3> QED BY <1>1, <2>1, <3>2, <3>4, OneField DEF PlayedAlike, ChipTypeOK
  <2> QED BY <1>4, <2>3, <2>4, <2>5 DEF ParametersAsAsked
<1>6. CASE ~AsShown(f, v)
  <2>1. Set(f, v) /\ UNCHANGED hurried
    BY <1>6 DEF Choose
  <2>2. ChipTypeOK'
    BY <1>1, <1>2, <1>3, <2>1, FieldIsSet DEF ChipTypeOK
  <2>3. ParametersAsAsked' /\ LastRequestIsParameters'
    BY <1>1, <1>2, <2>1, FieldIsSet DEF ParametersAsAsked, LastRequestIsParameters
  <2> QED BY <1>4, <2>2, <2>3
<1> QED BY <1>5, <1>6

\* A slider is moved, or the editor closed, opened or told.
LEMMA ChipEditorSteps ==
    ASSUME ChipIInv,
           \/ \E f \in {"count", "fourop"} : \E v \in ParameterValues[f] : MoveSlider(f, v)
           \/ CloseEditor \/ OpenEditor \/ ReceiveChip
    PROVE  ChipIInv'
<1> USE DEF ChipIInv
<1>1. CASE \E f \in {"count", "fourop"} : \E v \in ParameterValues[f] : MoveSlider(f, v)
  <2> PICK f \in {"count", "fourop"} : \E v \in ParameterValues[f] : MoveSlider(f, v)
    BY <1>1
  <2> PICK v \in ParameterValues[f] : MoveSlider(f, v)
    OBVIOUS
  <2>1. /\ DOMAIN delayed' \subseteq ChipFields
        /\ \A g \in DOMAIN delayed' : delayed'[g] \in ParameterValues[g]
    BY DEF MoveSlider, ChipTypeOK, ChipFields
  <2>2. choices' \in 0 .. MaxChoices
    BY ChoicesBounded DEF MoveSlider
  <2>3. ChipTypeOK'
    BY <2>1, <2>2 DEF MoveSlider, ChipTypeOK
  <2> QED BY <2>3 DEF MoveSlider, ParametersAsAsked, LastRequestIsParameters, LastNoticeIsChip
<1>2. CASE CloseEditor
  <2>1. DOMAIN delayed' = {}
    BY <1>2 DEF CloseEditor, NoDelays
  <2>2. ChipTypeOK'
    BY <1>2, <2>1 DEF CloseEditor, ChipTypeOK
  <2> QED BY <1>2, <2>2 DEF CloseEditor, ParametersAsAsked, LastRequestIsParameters,
                            LastNoticeIsChip
<1>3. CASE OpenEditor
  <2>1. ChipTypeOK'
    BY <1>3 DEF OpenEditor, ChipTypeOK
  <2> QED BY <1>3, <2>1 DEF OpenEditor, ParametersAsAsked, LastRequestIsParameters,
                            LastNoticeIsChip
<1>4. CASE ReceiveChip
  <2>1. /\ Head(chipNotices) \in PlayableChips /\ Tail(chipNotices) \in Seq(PlayableChips)
        /\ Len(chipNotices) \in Nat /\ Len(Tail(chipNotices)) = Len(chipNotices) - 1
        /\ Tail(chipNotices) = <<>> => Head(chipNotices) = chipNotices[Len(chipNotices)]
        /\ Tail(chipNotices) # <<>> =>
               Tail(chipNotices)[Len(Tail(chipNotices))] = chipNotices[Len(chipNotices)]
    BY <1>4, RestOfQueue DEF ReceiveChip, ChipTypeOK
  <2>2. ChipTypeOK'
    BY <1>4, <2>1, ChipAssumption DEF ReceiveChip, ChipTypeOK
  <2>3. LastNoticeIsChip'
    BY <1>4, <2>1 DEF ReceiveChip, LastNoticeIsChip
  <2> QED BY <1>4, <2>2, <2>3 DEF ReceiveChip, ParametersAsAsked, LastRequestIsParameters
<1> QED BY <1>1, <1>2, <1>3, <1>4

\* The library chose a number of operators that the player has chips for.
LEMMA OptimalIsChosen ==
    ASSUME ChipIInv, NEW n \in ParameterValues.fourop, SelectOptimal4Ops(n)
    PROVE  ChipIInv'
<1> USE DEF ChipIInv
<1>1. /\ chip' = [chip EXCEPT !.fourop = n] /\ Set("fourop", n) /\ chipNotice' = TRUE
      /\ hurried' = (hurried \/ chipRequests # <<>>)
      /\ UNCHANGED <<madeFor, chipRequests, chipNotices, chipEditor, chipShown, delayed>>
      /\ n <= FourOpsPerChip * chip.count
  BY DEF SelectOptimal4Ops
<1>2. "fourop" \in ChipFields /\ n \in ParameterValues["fourop"] /\ n \in Nat
  BY ValuesOfFields, FourOps DEF ChipFields
<1>3. /\ chipParams' \in ChipSettings /\ asked' \in [ChipFields -> Int]
      /\ chipChanged' \in BOOLEAN
      /\ ~chipChanged' => ~chipChanged /\ chipParams' = chipParams
      /\ PlayedAlike(chipParams, asked) => PlayedAlike(chipParams', asked')
  BY <1>1, <1>2, FieldIsSet
<1>4. chip' \in PlayableChips
  <2>1. chip \in ChipSettings /\ chip \in [ChipFields -> Int] /\ PlayableChip(chip) = chip
    BY DEF ChipTypeOK, PlayableChips, ChipSettings
  <2>2. chip' \in ChipSettings
    BY <1>1, <1>2, <2>1, ValuesOfFields DEF ChipSettings
  <2>3. /\ chip'.emulator = chip.emulator /\ chip'.count = chip.count /\ chip'.fourop = n
        /\ chip'.type = chip.type /\ chip'.alloc = chip.alloc
    BY <1>1, <2>1 DEF ChipFields
  <2>4. /\ chip.emulator = Available(chip.emulator)
        /\ chip.count = Within(1, MaxChips, chip.count)
        /\ chip.type = Lesser(chip.type, LastType)
        /\ chip.alloc = Within(-1, TopMode, chip.alloc)
    BY <2>1 DEF PlayableChip
  <2>5. Lesser(n, FourOpsPerChip * chip.count) = n
    BY <1>1 DEF Lesser
  <2>6. PlayableChip(chip') = [emulator |-> chip.emulator, count |-> chip.count, fourop |-> n,
                               type |-> chip.type, alloc |-> chip.alloc]
    BY <2>3, <2>4, <2>5 DEF PlayableChip
  <2>7. PlayableChip(chip') = chip'
    BY <2>2, <2>3, <2>6 DEF ChipSettings, ChipFields
  <2> QED BY <2>2, <2>7 DEF PlayableChips
<1>5. choices' \in 0 .. MaxChoices
  BY ChoicesBounded DEF SelectOptimal4Ops
<1>6. ChipTypeOK'
  BY <1>1, <1>3, <1>4, <1>5 DEF ChipTypeOK
<1>7. ParametersAsAsked' /\ LastNoticeIsChip'
  BY <1>1, <1>3 DEF ParametersAsAsked, LastNoticeIsChip
<1>8. ASSUME ~hurried', ~chipChanged' PROVE chip' = PlayableChip(chipParams') /\ chipRequests' = <<>>
  <2>1. ~hurried /\ chipRequests = <<>> /\ ~chipChanged /\ chipParams' = chipParams
    BY <1>1, <1>3, <1>8
  <2>2. chip = PlayableChip(chipParams)
    BY <2>1 DEF LastRequestIsParameters
  <2>3. chipParams.fourop = n
    BY <1>1, <2>1, <1>2 DEF Set, ChipTypeOK, ChipSettings
  <2>4. chip.fourop = Lesser(n, FourOpsPerChip * chip.count)
    BY <2>2, <2>3 DEF PlayableChip
  <2>5. chip.fourop = n
    BY <1>1, <2>4 DEF Lesser
  <2>6. chip' = chip
    BY <1>1, <2>5 DEF ChipTypeOK, PlayableChips, ChipSettings
  <2> QED BY <1>1, <2>1, <2>2, <2>6
<1> QED BY <1>6, <1>7, <1>8 DEF LastRequestIsParameters

\* A block compares, the worker gives the player what was sent, and the editor is told.
LEMMA ChipGoesItsWay ==
    ASSUME ChipIInv, CompareChip \/ WorkerSetsChip \/ NotifyChip
    PROVE  ChipIInv'
<1> USE DEF ChipIInv
<1>1. CASE CompareChip
  <2>1. /\ chipChanged' = FALSE
        /\ UNCHANGED <<chipParams, chip, madeFor, chipNotice, chipNotices, chipEditor, chipShown,
                       delayed, choices, asked>>
    BY <1>1 DEF CompareChip
  <2>2. CASE PlayableChip(chipParams) = chip
    <3>1. hurried' = (hurried \/ chipRequests # <<>>) /\ UNCHANGED chipRequests
      BY <1>1, <2>2 DEF CompareChip
    <3>2. ChipTypeOK'
      BY <2>1, <3>1 DEF ChipTypeOK
    <3> QED BY <2>1, <2>2, <3>1, <3>2
            DEF ParametersAsAsked, LastRequestIsParameters, LastNoticeIsChip
  <2>3. CASE PlayableChip(chipParams) # chip
    <3>1. /\ Len(chipRequests) < MaxChipQueue /\ UNCHANGED hurried
          /\ chipRequests' = Append(chipRequests, chipParams)
      BY <1>1, <2>3 DEF CompareChip
    <3>2. /\ chipRequests' \in Seq(ChipSettings) /\ chipRequests' # <<>>
          /\ Len(chipRequests') <= MaxChipQueue
          /\ chipRequests'[Len(chipRequests')] = chipParams
      BY <3>1, OneBehind, ChipAssumption DEF ChipTypeOK
    <3>3. ChipTypeOK'
      BY <2>1, <3>1, <3>2 DEF ChipTypeOK
    <3> QED BY <2>1, <3>1, <3>2, <3>3
            DEF ParametersAsAsked, LastRequestIsParameters, LastNoticeIsChip
  <2> QED BY <2>2, <2>3
<1>2. CASE WorkerSetsChip
  <2>1. /\ Head(chipRequests) \in ChipSettings /\ Tail(chipRequests) \in Seq(ChipSettings)
        /\ Len(chipRequests) \in Nat /\ Len(Tail(chipRequests)) = Len(chipRequests) - 1
        /\ Tail(chipRequests) = <<>> => Head(chipRequests) = chipRequests[Len(chipRequests)]
        /\ Tail(chipRequests) # <<>> =>
               Tail(chipRequests)[Len(Tail(chipRequests))] = chipRequests[Len(chipRequests)]
    BY <1>2, RestOfQueue DEF WorkerSetsChip, ChipTypeOK
  <2>2. /\ chipRequests # <<>> /\ chipRequests' = Tail(chipRequests) /\ chipNotice' = TRUE
        /\ \/ chip' = PlayableChip(Head(chipRequests)) \/ chip' = PlayableChip(chipParams)
        /\ madeFor' \in {madeFor, chipParams.type}
        /\ UNCHANGED <<chipParams, chipChanged, chipNotices, chipEditor, chipShown, delayed,
                       choices, asked, hurried>>
    BY <1>2 DEF WorkerSetsChip
  <2>3. chip' \in PlayableChips
    BY <2>1, <2>2, PlayableIsPlayable DEF ChipTypeOK
  <2>4. chipParams.type \in 0 .. LastType
    BY ValuesOfFields DEF ChipTypeOK, ChipSettings, ChipFields
  <2>5. Len(chipRequests') <= MaxChipQueue
    BY <2>1, <2>2, ChipAssumption DEF ChipTypeOK
  <2>6. ChipTypeOK'
    BY <2>1, <2>2, <2>3, <2>4, <2>5 DEF ChipTypeOK
  <2>7. LastRequestIsParameters'
    BY <2>1, <2>2 DEF LastRequestIsParameters
  <2> QED BY <2>2, <2>6, <2>7 DEF ParametersAsAsked, LastNoticeIsChip
<1>3. CASE NotifyChip
  <2>1. /\ chipNotices' \in Seq(PlayableChips) /\ chipNotices' # <<>>
        /\ Len(chipNotices') <= MaxChipQueue
        /\ chipNotices'[Len(chipNotices')] = chip
    BY <1>3, OneBehind, ChipAssumption DEF NotifyChip, ChipTypeOK
  <2>2. ChipTypeOK'
    BY <1>3, <2>1 DEF NotifyChip, ChipTypeOK
  <2> QED BY <1>3, <2>1, <2>2
          DEF NotifyChip, ParametersAsAsked, LastRequestIsParameters, LastNoticeIsChip
<1> QED BY <1>1, <1>2, <1>3

\* What a project holds, held to the parameters' ranges, is played as it was asked.
LEMMA HeldIsPlayedAlike ==
    ASSUME NEW cs \in [ChipFields -> Int], cs.fourop >= 0, cs.type >= 0
    PROVE  /\ Held(cs) \in ChipSettings
           /\ PlayedAlike(Held(cs), [cs EXCEPT !.emulator = Held(cs).emulator])
<1> DEFINE top == FourOpsPerChip * MaxChips
<1>1. /\ TopCore \in Nat /\ MaxChips \in Nat \ {0} /\ top \in Nat /\ LastType \in Nat
      /\ TopMode \in Nat
  BY FourOps, ChipAssumption
<1> HIDE DEF top
<1>2. ASSUME NEW f \in ChipFields, NEW low \in Int, NEW high \in Int, low <= high,
             ParameterValues[f] = low .. high
      PROVE  LeastValue(f) = low /\ GreatestValue(f) = high
  BY <1>2 DEF LeastValue, GreatestValue
<1>3. /\ LeastValue("emulator") = 0 /\ GreatestValue("emulator") = TopCore
      /\ LeastValue("count") = 1 /\ GreatestValue("count") = MaxChips
      /\ LeastValue("fourop") = 0 /\ GreatestValue("fourop") = top
      /\ LeastValue("type") = 0 /\ GreatestValue("type") = LastType
      /\ LeastValue("alloc") = -1 /\ GreatestValue("alloc") = TopMode
  <2>1. LeastValue("emulator") = 0 /\ GreatestValue("emulator") = TopCore
    BY <1>1, <1>2, ValuesOfFields DEF ChipFields
  <2>2. LeastValue("count") = 1 /\ GreatestValue("count") = MaxChips
    BY <1>1, <1>2, ValuesOfFields DEF ChipFields
  <2>3. LeastValue("fourop") = 0 /\ GreatestValue("fourop") = top
    BY <1>1, <1>2, ValuesOfFields DEF ChipFields, top
  <2>4. LeastValue("type") = 0 /\ GreatestValue("type") = LastType
    BY <1>1, <1>2, ValuesOfFields DEF ChipFields
  <2>5. LeastValue("alloc") = -1 /\ GreatestValue("alloc") = TopMode
    BY <1>1, <1>2, ValuesOfFields DEF ChipFields
  <2> QED BY <2>1, <2>2, <2>3, <2>4, <2>5
<1>4. /\ cs.emulator \in Int /\ cs.count \in Int /\ cs.fourop \in Int /\ cs.type \in Int
      /\ cs.alloc \in Int
  BY DEF ChipFields
<1>5. /\ Held(cs).emulator = Within(0, TopCore, cs.emulator)
      /\ Held(cs).count = Within(1, MaxChips, cs.count)
      /\ Held(cs).fourop = Within(0, top, cs.fourop)
      /\ Held(cs).type = Within(0, LastType, cs.type)
      /\ Held(cs).alloc = Within(-1, TopMode, cs.alloc)
  BY <1>3 DEF Held, ChipFields
<1>6. /\ Held(cs).emulator \in 0 .. TopCore /\ Held(cs).count \in 1 .. MaxChips
      /\ Held(cs).fourop \in 0 .. top /\ Held(cs).type \in 0 .. LastType
      /\ Held(cs).alloc \in -1 .. TopMode
  BY <1>1, <1>4, <1>5 DEF Within, Lesser
<1>7. Held(cs) \in [ChipFields -> Int]
  <2>1. \A f \in ChipFields : Held(cs)[f] \in Int
    BY <1>1, <1>6 DEF ChipFields
  <2>2. Held(cs) = [f \in ChipFields |-> Held(cs)[f]]
    BY DEF Held
  <2> QED BY <2>1, <2>2
<1>8. Held(cs) \in ChipSettings
  BY <1>6, <1>7, FieldsOfSettings DEF top
<1>9. /\ Within(1, MaxChips, Held(cs).count) = Within(1, MaxChips, cs.count)
      /\ Lesser(Held(cs).fourop, top) = Lesser(cs.fourop, top)
      /\ Lesser(Held(cs).type, LastType) = Lesser(cs.type, LastType)
      /\ Within(-1, TopMode, Held(cs).alloc) = Within(-1, TopMode, cs.alloc)
  BY <1>1, <1>4, <1>5 DEF Within, Lesser
<1>10. "emulator" \in ChipFields /\ Held(cs).emulator \in Int
  BY <1>1, <1>6 DEF ChipFields
<1>11. PlayedAlike(Held(cs), [cs EXCEPT !.emulator = Held(cs).emulator])
  BY <1>9, <1>10, OneField DEF PlayedAlike, top
<1> QED BY <1>8, <1>11

\* A project is read.
LEMMA ChipIsRead ==
    ASSUME ChipIInv, NEW set \in WildChips, ReadChip(set)
    PROVE  ChipIInv'
<1> USE DEF ChipIInv
<1> DEFINE cs == FromProperties(set)
<1>1. cs \in [ChipFields -> Int] /\ cs.fourop >= 0 /\ cs.type >= 0
  <2>1. set \in [ChipFields -> Int]
    BY ChipAssumption
  <2> QED BY <2>1 DEF FromProperties, ChipFields
<1> HIDE DEF cs
<1>2. /\ chipParams' = Held(cs) /\ chip' = PlayableChip(chipParams')
      /\ madeFor' = chipParams'.type /\ chipNotice' = TRUE
      /\ chipChanged' = (chipChanged \/ chipParams' # chipParams)
      /\ asked' = [cs EXCEPT !.emulator = chipParams'.emulator]
      /\ hurried' = (hurried \/ chipRequests # <<>>)
      /\ UNCHANGED <<chipRequests, chipNotices, chipEditor, chipShown, delayed>>
  BY DEF ReadChip, cs
<1>3. chipParams' \in ChipSettings /\ PlayedAlike(chipParams', asked')
  BY <1>1, <1>2, HeldIsPlayedAlike
<1>4. chip' \in PlayableChips
  BY <1>2, <1>3, PlayableIsPlayable
<1>5. chipParams'.type \in 0 .. LastType /\ chipParams'.emulator \in Int
  BY <1>3, ValuesOfFields DEF ChipSettings, ChipFields
<1>6. asked' \in [ChipFields -> Int]
  BY <1>1, <1>2, <1>5
<1>7. choices' \in 0 .. MaxChoices
  BY ChoicesBounded DEF ReadChip
<1>8. ChipTypeOK'
  BY <1>2, <1>3, <1>4, <1>5, <1>6, <1>7 DEF ChipTypeOK
<1>9. ParametersAsAsked' /\ LastRequestIsParameters' /\ LastNoticeIsChip'
  BY <1>2, <1>3 DEF ParametersAsAsked, LastRequestIsParameters, LastNoticeIsChip
<1> QED BY <1>8, <1>9

\* Every step keeps the chip settings' invariant.
LEMMA ChipStep ==
    ASSUME ChipIInv, [ChipNext]_chipVars
    PROVE  ChipIInv'
<1>1. CASE UNCHANGED chipVars
  BY <1>1 DEF chipVars, ChipIInv, ChipTypeOK, ParametersAsAsked, LastRequestIsParameters,
              LastNoticeIsChip
<1>2. CASE ChipNext
  BY <1>2, ChipIsSet, ChipIsChosen, ChipEditorSteps, OptimalIsChosen, ChipGoesItsWay, ChipIsRead
     DEF ChipNext
<1> QED BY <1>1, <1>2

\* So the invariant holds all along.
LEMMA ChipInvariance == ChipSpec => []ChipIInv
BY ChipInitHolds, ChipStep, PTL DEF ChipSpec

\* The parameters of the chip stay within their ranges, whatever a project holds, and the
\* player only ever runs settings it can play as they are: no request, project or choice
\* of the library gives it more chips or operators than there are, or a core that is not
\* built (set_chip_settings, playable_chip_settings and set_num_4ops).
THEOREM ChipTypeCorrect == ChipSpec => []ChipTypeOK
<1>1. ChipIInv => ChipTypeOK
  BY DEF ChipIInv
<1> QED BY <1>1, ChipInvariance, PTL

\* Once nothing is on its way the player runs what each field was last asked to be, and
\* the editor shows that (process_parameter_changes, set_chip_settings_nonrt,
\* apply_chip_menu_choice): for every number of chips, cores and types, and queues of
\* every length.
THEOREM ChipCorrect == ChipSpec => []ChipRunsWhatWasAsked
<1>1. ASSUME ChipIInv PROVE ChipRunsWhatWasAsked
  <2> SUFFICES ASSUME ~ChipOnItsWay, ~hurried
               PROVE  chip = PlayableChip(asked) /\ (chipEditor => chipShown = chip)
    BY DEF ChipRunsWhatWasAsked
  <2>1. ~chipChanged /\ chipRequests = <<>> /\ ~chipNotice /\ chipNotices = <<>>
    BY DEF ChipOnItsWay
  <2>2. chip = PlayableChip(chipParams)
    BY <1>1, <2>1 DEF ChipIInv, LastRequestIsParameters
  <2>3. PlayableChip(chipParams) = PlayableChip(asked)
    BY <1>1, AlikeIsTheSame DEF ChipIInv, ChipTypeOK, ChipSettings, ParametersAsAsked
  <2> QED BY <1>1, <2>1, <2>2, <2>3 DEF ChipIInv, LastNoticeIsChip
<1> QED BY <1>1, ChipInvariance, PTL

-----------------------------------------------------------------------------
(* The part and the program box of the editor.                             *)

\* The messages to the processor, and what each one holds.
LEMMA ProcessorMessageKinds ==
    /\ \A p \in EditorParts, g \in BoxPrograms :
          Message("SelectProgram", p, g, 0) \in ProcessorMessages
    /\ \A p \in EditorParts : Message("SetActivePart", p, NoChoice, 0) \in ProcessorMessages
    /\ StateRequests \in Seq(ProcessorMessages)
    /\ \A m \in ProcessorMessages :
          /\ m.tag = "SelectProgram" => m.part \in EditorParts /\ m.program \in BoxPrograms
          /\ m.tag = "SetActivePart" => m.part \in EditorParts
<1>1. /\ Bare("RequestFullBankState") \in ProcessorMessages
      /\ Bare("RequestSelections") \in ProcessorMessages
      /\ Bare("RequestActivePart") \in ProcessorMessages
  BY DEF ProcessorMessages
<1>2. StateRequests \in Seq(ProcessorMessages)
  BY <1>1 DEF StateRequests
<1>3. ASSUME NEW m \in ProcessorMessages
      PROVE  /\ m.tag = "SelectProgram" => m.part \in EditorParts /\ m.program \in BoxPrograms
             /\ m.tag = "SetActivePart" => m.part \in EditorParts
  BY DEF ProcessorMessages, Message, Bare
<1> QED BY <1>2, <1>3 DEF ProcessorMessages

\* The notices to the editor, and what each one holds.
LEMMA EditorNoticeKinds ==
    /\ \A g \in BoxPrograms, v \in KnobValues :
          /\ Message("NotifyInstrument", KitPart, g, v) \in EditorNotices
          /\ Message("NotifyInstrument", KitPart, g, v).tag = "NotifyInstrument"
    /\ \A p \in EditorParts, g \in BoxPrograms :
          /\ Message("NotifySelection", p, g, 0) \in EditorNotices
          /\ Message("NotifySelection", p, g, 0).tag = "NotifySelection"
    /\ \A p \in EditorParts :
          /\ Message("NotifyActivePart", p, NoChoice, 0) \in EditorNotices
          /\ Message("NotifyActivePart", p, NoChoice, 0).tag = "NotifyActivePart"
          /\ Message("NotifyActivePart", p, NoChoice, 0).part = p
    /\ Bare("NotifyReady") \in EditorNotices
    /\ \A m \in EditorNotices :
          /\ m.tag = "NotifyInstrument" => m.program \in BoxPrograms /\ m.value \in KnobValues
          /\ m.tag = "NotifySelection" => m.part \in EditorParts /\ m.program \in BoxPrograms
          /\ m.tag = "NotifyActivePart" => m.part \in EditorParts
<1>1. ASSUME NEW m \in EditorNotices
      PROVE  /\ m.tag = "NotifyInstrument" => m.program \in BoxPrograms /\ m.value \in KnobValues
             /\ m.tag = "NotifySelection" => m.part \in EditorParts /\ m.program \in BoxPrograms
             /\ m.tag = "NotifyActivePart" => m.part \in EditorParts
  BY DEF EditorNotices, Message, Bare
<1>2. /\ \A g \in BoxPrograms, v \in KnobValues :
            Message("NotifyInstrument", KitPart, g, v) \in EditorNotices
      /\ \A p \in EditorParts, g \in BoxPrograms :
            Message("NotifySelection", p, g, 0) \in EditorNotices
      /\ \A p \in EditorParts : Message("NotifyActivePart", p, NoChoice, 0) \in EditorNotices
      /\ Bare("NotifyReady") \in EditorNotices
  BY DEF EditorNotices
<1>3. /\ \A g \in BoxPrograms, v \in KnobValues :
            Message("NotifyInstrument", KitPart, g, v).tag = "NotifyInstrument"
      /\ \A p \in EditorParts, g \in BoxPrograms :
            Message("NotifySelection", p, g, 0).tag = "NotifySelection"
      /\ \A p \in EditorParts :
            /\ Message("NotifyActivePart", p, NoChoice, 0).tag = "NotifyActivePart"
            /\ Message("NotifyActivePart", p, NoChoice, 0).part = p
  BY DEF Message
<1> QED BY <1>1, <1>2, <1>3

\* Messages go to the queue as far as it has room, and none is left where there
\* is no queue.
LEMMA FlushMessagesKeeps ==
    ASSUME QueuesOK, prepared \in BOOLEAN,
           NEW messages \in Seq(ProcessorMessages), FlushMessages(messages)
    PROVE  /\ mq_from_ui' \in Seq(ProcessorMessages) /\ Len(mq_from_ui') <= QueueRoom
           /\ waiting' \in Seq(ProcessorMessages)
           /\ ~prepared => mq_from_ui' = <<>>
<1> DEFINE room == IF prepared THEN QueueRoom - Len(mq_from_ui) ELSE 0
           sent == IF Len(messages) < room THEN Len(messages) ELSE room
           first == SubSeq(messages, 1, sent)
           rest == SubSeq(messages, sent + 1, Len(messages))
<1>1. /\ Len(messages) \in Nat /\ Len(mq_from_ui) \in Nat
      /\ mq_from_ui \in Seq(ProcessorMessages) /\ Len(mq_from_ui) <= QueueRoom
      /\ ~prepared => mq_from_ui = <<>>
  BY LenProperties DEF QueuesOK
<1>2. room \in Nat /\ sent \in Nat /\ sent <= Len(messages) /\ sent <= room
  BY <1>1, EditorControlsAssumption
<1>3. \A i \in 1 .. Len(messages) : messages[i] \in ProcessorMessages
  BY ElementOfSeq
<1>4. first \in Seq(ProcessorMessages) /\ Len(first) = sent
  <2>1. \A i \in 1 .. sent : messages[i] \in ProcessorMessages
    BY <1>1, <1>2, <1>3
  <2>2. /\ first \in Seq(ProcessorMessages)
        /\ Len(first) = IF 1 <= sent THEN sent - 1 + 1 ELSE 0
    BY <1>2, <2>1, SubSeqProperties
  <2> QED BY <1>2, <2>2
<1>5. rest \in Seq(ProcessorMessages)
  <2>1. \A i \in sent + 1 .. Len(messages) : messages[i] \in ProcessorMessages
    BY <1>1, <1>2, <1>3
  <2> QED BY <1>1, <1>2, <2>1, SubSeqProperties
<1>6. mq_from_ui' = mq_from_ui \o first /\ waiting' = IF prepared THEN rest ELSE <<>>
  BY DEF FlushMessages
<1>7. ~prepared => sent = 0
  BY <1>2
<1>8. room = IF prepared THEN QueueRoom - Len(mq_from_ui) ELSE 0
  OBVIOUS
<1> HIDE DEF room, sent, first, rest
<1>9. mq_from_ui' \in Seq(ProcessorMessages) /\ Len(mq_from_ui') = Len(mq_from_ui) + sent
  BY <1>1, <1>4, <1>6, ConcatProperties
<1>10. Len(mq_from_ui') <= QueueRoom
  <2>1. CASE prepared
    BY <1>1, <1>2, <1>8, <1>9, <2>1, EditorControlsAssumption
  <2>2. CASE ~prepared
    BY <1>1, <1>2, <1>7, <1>9, <2>2, EditorControlsAssumption
  <2> QED BY <2>1, <2>2
<1>11. waiting' \in Seq(ProcessorMessages)
  BY <1>5, <1>6
<1>12. ~prepared => mq_from_ui' = <<>>
  <2>1. ~prepared => Len(mq_from_ui') = 0
    BY <1>1, <1>7, <1>9, EmptySeq
  <2> QED BY <1>9, <2>1, EmptySeq
<1> QED BY <1>9, <1>10, <1>11, <1>12

\* What waits goes first.
LEMMA WriteToProcessorKeeps ==
    ASSUME QueuesOK, prepared \in BOOLEAN,
           NEW messages \in Seq(ProcessorMessages), WriteToProcessor(messages)
    PROVE  /\ mq_from_ui' \in Seq(ProcessorMessages) /\ Len(mq_from_ui') <= QueueRoom
           /\ waiting' \in Seq(ProcessorMessages)
           /\ ~prepared => mq_from_ui' = <<>>
<1>1. waiting \o messages \in Seq(ProcessorMessages)
  BY ConcatProperties DEF QueuesOK
<1>2. FlushMessages(waiting \o messages)
  BY DEF WriteToProcessor
<1> QED BY <1>1, <1>2, FlushMessagesKeeps

\* The program box shows the program it is given or none, and the control a value.
LEMMA ShowProgramShows ==
    ASSUME NEW p \in EditorParts, NEW g \in BoxPrograms \cup {NoChoice},
           imap' \in [BoxPrograms -> KnobValues], ShowProgram(p, g)
    PROVE  /\ box' \in BoxPrograms \cup {NoChoice} /\ knob' \in KnobValues
           /\ box' \in {NoChoice, g}
<1>1. box' \in {NoChoice, g} /\ box' \in BoxPrograms \cup {NoChoice}
  BY DEF ShowProgram
<1>2. knob' = IF box' = NoChoice THEN 0 ELSE imap'[box']
  BY DEF ShowProgram
<1>3. knob' \in KnobValues
  BY <1>1, <1>2, EditorControlsAssumption
<1> QED BY <1>1, <1>3

\* What of the state bears on the part that is told, and on what the box shows.
LEMMA PartStaysTold ==
    ASSUME PartIsTold, prepared' => prepared,
           UNCHANGED <<active_part, tell_part, mq_to_editor, midichannel>>
    PROVE  PartIsTold'
BY DEF PartIsTold, PartToldAt

\* The program box shows what it showed.
LEMMA BoxStays ==
    BoxShowsNoOtherProgram /\ UNCHANGED <<box, midiprogram, midichannel>>
      => BoxShowsNoOtherProgram'
BY DEF BoxShowsNoOtherProgram

-----------------------------------------------------------------------------
(* What the editor is told.                                                *)

\* A notice leaves the queue, and the last one of a part is still the last, or is
\* the one that is heard.
LEMMA HeardPartIsTold ==
    ASSUME ControlsTypeOK, PartIsTold, mq_to_editor # <<>>,
           mq_to_editor' = Tail(mq_to_editor),
           UNCHANGED <<prepared, active_part, tell_part>>,
           midichannel' = IF Head(mq_to_editor).tag = "NotifyActivePart"
                          THEN Head(mq_to_editor).part ELSE midichannel
    PROVE  PartIsTold'
<1> SUFFICES ASSUME prepared', ~tell_part'
             PROVE  \E k \in 0 .. Len(mq_to_editor') : PartToldAt(k)'
  BY DEF PartIsTold
<1> DEFINE n == Len(mq_to_editor)
<1>1. mq_to_editor \in Seq(EditorNotices)
  BY DEF ControlsTypeOK, QueuesOK
<1>2. /\ n \in Nat \ {0} /\ Head(mq_to_editor) = mq_to_editor[1]
      /\ Len(mq_to_editor') = n - 1
      /\ \A i \in 1 .. n - 1 : mq_to_editor'[i] = mq_to_editor[i + 1]
  BY <1>1, HeadTailProperties, EmptySeq
<1>3. PICK k \in 0 .. n : PartToldAt(k)
  BY DEF PartIsTold
<1>4. \A j \in k + 1 .. n : mq_to_editor[j].tag # "NotifyActivePart"
  BY <1>3 DEF PartToldAt
<1>5. CASE k = 0
  <2>1. mq_to_editor[1].tag # "NotifyActivePart" /\ midichannel = active_part
    BY <1>2, <1>3, <1>4, <1>5 DEF PartToldAt
  <2>2. midichannel' = active_part'
    BY <1>2, <2>1
  <2>3. \A j \in 1 .. n - 1 : mq_to_editor'[j].tag # "NotifyActivePart"
    BY <1>2, <1>4, <1>5
  <2>4. PartToldAt(0)'
    BY <1>2, <2>2, <2>3 DEF PartToldAt
  <2> QED BY <1>2, <2>4
<1>6. CASE k = 1
  <2>1. mq_to_editor[1] = Message("NotifyActivePart", active_part, NoChoice, 0)
    BY <1>3, <1>6 DEF PartToldAt
  <2>2. active_part \in EditorParts
    BY DEF ControlsTypeOK, ProcessorOK
  <2>3. midichannel' = active_part'
    BY <1>2, <2>1, <2>2, EditorNoticeKinds
  <2>4. \A j \in 1 .. n - 1 : mq_to_editor'[j].tag # "NotifyActivePart"
    BY <1>2, <1>4, <1>6
  <2>5. PartToldAt(0)'
    BY <1>2, <2>3, <2>4 DEF PartToldAt
  <2> QED BY <1>2, <2>5
<1>7. CASE k \in 2 .. n
  <2>1. mq_to_editor'[k - 1] = Message("NotifyActivePart", active_part', NoChoice, 0)
    BY <1>2, <1>3, <1>7 DEF PartToldAt
  <2>2. \A j \in k .. n - 1 : mq_to_editor'[j].tag # "NotifyActivePart"
    BY <1>2, <1>4, <1>7
  <2>3. PartToldAt(k - 1)'
    BY <1>2, <1>7, <2>1, <2>2 DEF PartToldAt
  <2> QED BY <1>2, <1>7, <2>3
<1> QED BY <1>2, <1>5, <1>6, <1>7

\* The notices (process_notifications).
LEMMA ReceiveNotificationKeeps == ControlsIInv /\ ReceiveNotification => ControlsIInv'
<1> SUFFICES ASSUME ControlsIInv, ReceiveNotification PROVE ControlsIInv'
  OBVIOUS
<1> DEFINE m == Head(mq_to_editor)
<1> USE DEF ControlsIInv, ControlsTypeOK
<1>1. /\ mq_to_editor # <<>> /\ mq_to_editor' = Tail(mq_to_editor)
      /\ UNCHANGED <<prepared, processorVars, marks, drag, gestures, acts>>
  BY DEF ReceiveNotification
<1>2. /\ m \in EditorNotices /\ mq_to_editor' \in Seq(EditorNotices)
      /\ Len(mq_to_editor') = Len(mq_to_editor) - 1 /\ Len(mq_to_editor) \in Nat
  BY <1>1, HeadTailProperties, LenProperties DEF QueuesOK
<1>3. /\ m.tag = "NotifyInstrument" => m.program \in BoxPrograms /\ m.value \in KnobValues
      /\ m.tag = "NotifySelection" => m.part \in EditorParts /\ m.program \in BoxPrograms
      /\ m.tag = "NotifyActivePart" => m.part \in EditorParts
  BY <1>2, EditorNoticeKinds
<1>4. QueuesOK'
  <2>1. /\ mq_from_ui' \in Seq(ProcessorMessages) /\ Len(mq_from_ui') <= QueueRoom
        /\ waiting' \in Seq(ProcessorMessages)
        /\ ~prepared => mq_from_ui' = <<>>
    <3>1. CASE m.tag = "NotifyReady"
      <4>1. WriteToProcessor(StateRequests)
        BY <3>1 DEF ReceiveNotification
      <4> QED BY <4>1, ProcessorMessageKinds, WriteToProcessorKeeps DEF ProcessorOK
    <3>2. CASE m.tag # "NotifyReady"
      BY <3>2 DEF ReceiveNotification, QueuesOK
    <3> QED BY <3>1, <3>2
  <2>2. Len(mq_to_editor') <= QueueRoom
    BY <1>2, EditorControlsAssumption DEF QueuesOK
  <2>3. prepared' = prepared /\ prepared
    BY <1>1 DEF QueuesOK
  <2> QED BY <1>2, <2>1, <2>2, <2>3 DEF QueuesOK
<1>5. ProcessorOK' /\ MarksOK' /\ HandOK'
  BY <1>1 DEF ProcessorOK, MarksOK, HandOK, processorVars, marks
<1>6. /\ ShownOK' /\ BoxShowsNoOtherProgram'
      /\ midichannel' = IF m.tag = "NotifyActivePart" THEN m.part ELSE midichannel
  <2>1. \/ m.tag = "NotifyReady" /\ UNCHANGED shown
        \/ m.tag = "NotifyInstrument" /\ ReceiveInstrument(m.program, m.value)
        \/ m.tag = "NotifySelection" /\ ReceiveSelection(m.part, m.program)
        \/ m.tag = "NotifyActivePart" /\ OnChangeMidiChannel(m.part)
    BY DEF ReceiveNotification
  <2> HIDE DEF m
  <2>2. CASE m.tag = "NotifyReady" /\ UNCHANGED shown
    <3>1. UNCHANGED <<midichannel, midiprogram, imap, box, knob>>
      BY <2>2 DEF shown
    <3> QED BY <2>2, <3>1, BoxStays DEF ShownOK
  <2>3. CASE m.tag = "NotifyInstrument" /\ ReceiveInstrument(m.program, m.value)
    <3>1. /\ imap' = [imap EXCEPT ![m.program] = m.value]
          /\ UNCHANGED <<midichannel, midiprogram>>
          /\ IF imap[m.program] # m.value THEN ShowProgram(midichannel, box)
             ELSE UNCHANGED <<box, knob>>
      BY <2>3 DEF ReceiveInstrument
    <3>2. imap' \in [BoxPrograms -> KnobValues]
      BY <1>3, <2>3, <3>1 DEF ShownOK
    <3>3. /\ box' \in BoxPrograms \cup {NoChoice} /\ knob' \in KnobValues
          /\ box' \in {NoChoice, box}
      BY <3>1, <3>2, ShowProgramShows DEF ShownOK
    <3> QED BY <2>3, <3>1, <3>2, <3>3 DEF ShownOK, BoxShowsNoOtherProgram
  <2>4. CASE m.tag = "NotifySelection" /\ ReceiveSelection(m.part, m.program)
    <3>1. /\ midiprogram' = [midiprogram EXCEPT ![m.part] = m.program]
          /\ UNCHANGED <<midichannel, imap>>
          /\ IF m.part = midichannel THEN ShowProgram(m.part, m.program)
             ELSE UNCHANGED <<box, knob>>
      BY <2>4 DEF ReceiveSelection
    <3>2. midiprogram' \in [EditorParts -> BoxPrograms]
      BY <1>3, <2>4, <3>1 DEF ShownOK
    <3>3. CASE m.part = midichannel
      <4>1. /\ box' \in BoxPrograms \cup {NoChoice} /\ knob' \in KnobValues
            /\ box' \in {NoChoice, m.program}
        BY <1>3, <2>4, <3>1, <3>3, ShowProgramShows DEF ShownOK
      <4>2. midiprogram'[midichannel'] = m.program
        BY <3>1, <3>3 DEF ShownOK
      <4> QED BY <2>4, <3>1, <3>2, <4>1, <4>2 DEF ShownOK, BoxShowsNoOtherProgram
    <3>4. CASE m.part # midichannel
      <4>1. midiprogram'[midichannel'] = midiprogram[midichannel]
        BY <3>1, <3>4 DEF ShownOK
      <4> QED BY <2>4, <3>1, <3>2, <3>4, <4>1 DEF ShownOK, BoxShowsNoOtherProgram
    <3> QED BY <3>3, <3>4
  <2>5. CASE m.tag = "NotifyActivePart" /\ OnChangeMidiChannel(m.part)
    <3>1. /\ midichannel' = m.part /\ m.part \in EditorParts
          /\ UNCHANGED <<midiprogram, imap>>
          /\ IF m.part # midichannel THEN ShowProgram(m.part, midiprogram[m.part])
             ELSE UNCHANGED <<box, knob>>
      BY <1>3, <2>5 DEF OnChangeMidiChannel
    <3>2. CASE m.part # midichannel
      <4>1. midiprogram[m.part] \in BoxPrograms \cup {NoChoice}
        BY <3>1 DEF ShownOK
      <4>2. /\ box' \in BoxPrograms \cup {NoChoice} /\ knob' \in KnobValues
            /\ box' \in {NoChoice, midiprogram[m.part]}
        BY <3>1, <3>2, <4>1, ShowProgramShows DEF ShownOK
      <4> QED BY <2>5, <3>1, <4>2 DEF ShownOK, BoxShowsNoOtherProgram
    <3>3. CASE m.part = midichannel
      BY <2>5, <3>1, <3>3, BoxStays DEF ShownOK
    <3> QED BY <3>2, <3>3
  <2> QED BY <2>1, <2>2, <2>3, <2>4, <2>5
<1>7. PartIsTold'
  <2>1. UNCHANGED <<prepared, active_part, tell_part>>
    BY <1>1 DEF processorVars, marks
  <2> QED BY <1>1, <1>6, <2>1, HeardPartIsTold
<1> QED BY <1>4, <1>5, <1>6, <1>7

-----------------------------------------------------------------------------
(* The editor.                                                             *)

\* Messages go out, which is nothing the part or the box depends on.
LEMMA FlushTimerKeeps == ControlsIInv /\ FlushTimer => ControlsIInv'
<1> SUFFICES ASSUME ControlsIInv, FlushTimer PROVE ControlsIInv'
  OBVIOUS
<1> USE DEF ControlsIInv, ControlsTypeOK
<1>1. /\ FlushMessages(waiting)
      /\ UNCHANGED <<prepared, processorVars, marks, mq_to_editor, shown, drag, gestures, acts>>
  BY DEF FlushTimer
<1>2. QueuesOK'
  BY <1>1, FlushMessagesKeeps DEF QueuesOK, ProcessorOK
<1>3. ProcessorOK' /\ MarksOK' /\ ShownOK' /\ HandOK'
  BY <1>1 DEF ProcessorOK, MarksOK, ShownOK, HandOK, processorVars, marks, shown
<1>4. PartIsTold' /\ BoxShowsNoOtherProgram'
  BY <1>1, PartStaysTold, BoxStays DEF processorVars, marks, shown
<1> QED BY <1>2, <1>3, <1>4

\* The user chooses a program, which is the editor's part's at once.
LEMMA SelectInBoxKeeps ==
    ASSUME ControlsIInv, NEW g \in BoxPrograms, SelectInBox(g)
    PROVE  ControlsIInv'
<1> USE DEF ControlsIInv, ControlsTypeOK
<1>1. /\ acts < MaxActs /\ acts' = acts + 1
      /\ midiprogram' = [midiprogram EXCEPT ![midichannel] = g]
      /\ WriteToProcessor(<<Message("SelectProgram", midichannel, g, 0)>>)
      /\ ShowProgram(midichannel, g)
      /\ UNCHANGED <<midichannel, imap, values, to_apply, drag, gestures>>
      /\ UNCHANGED <<prepared, active_part, selected, voices, tell_part, tell_selection,
                     tell_program, mq_to_editor>>
  BY DEF SelectInBox, Act, NotEditor, marks
<1>2. QueuesOK'
  <2>1. Message("SelectProgram", midichannel, g, 0) \in ProcessorMessages
    BY ProcessorMessageKinds DEF ShownOK
  <2>2. <<Message("SelectProgram", midichannel, g, 0)>> \in Seq(ProcessorMessages)
    BY <2>1
  <2> QED BY <1>1, <2>2, WriteToProcessorKeeps DEF QueuesOK, ProcessorOK
<1>3. ProcessorOK' /\ MarksOK'
  BY <1>1 DEF ProcessorOK, MarksOK
<1>4. HandOK'
  BY <1>1, EditorControlsAssumption DEF HandOK
<1>5. ShownOK' /\ BoxShowsNoOtherProgram'
  <2>1. /\ imap' \in [BoxPrograms -> KnobValues] /\ midichannel \in EditorParts
        /\ midiprogram' \in [EditorParts -> BoxPrograms] /\ midiprogram'[midichannel] = g
    BY <1>1 DEF ShownOK
  <2>2. /\ box' \in BoxPrograms \cup {NoChoice} /\ knob' \in KnobValues
        /\ box' \in {NoChoice, g}
    BY <1>1, <2>1, ShowProgramShows
  <2> QED BY <1>1, <2>1, <2>2 DEF ShownOK, BoxShowsNoOtherProgram
<1>6. PartIsTold'
  BY <1>1, PartStaysTold
<1> QED BY <1>2, <1>3, <1>4, <1>5, <1>6

\* The user chooses a part, which the processor is to be told of first.
LEMMA ChoosePartKeeps ==
    ASSUME ControlsIInv, NEW p \in EditorParts, ChoosePart(p)
    PROVE  ControlsIInv'
<1> USE DEF ControlsIInv, ControlsTypeOK
<1>1. /\ acts < MaxActs /\ acts' = acts + 1
      /\ WriteToProcessor(<<Message("SetActivePart", p, NoChoice, 0)>>)
      /\ UNCHANGED <<midichannel, midiprogram, imap, box, knob>>
      /\ UNCHANGED <<values, to_apply, drag, gestures>>
      /\ UNCHANGED <<prepared, active_part, selected, voices, tell_part, tell_selection,
                     tell_program, mq_to_editor>>
  BY DEF ChoosePart, Act, NotEditor, marks, shown
<1>2. QueuesOK'
  <2>1. <<Message("SetActivePart", p, NoChoice, 0)>> \in Seq(ProcessorMessages)
    BY ProcessorMessageKinds
  <2> QED BY <1>1, <2>1, WriteToProcessorKeeps DEF QueuesOK, ProcessorOK
<1>3. ProcessorOK' /\ MarksOK' /\ ShownOK'
  BY <1>1 DEF ProcessorOK, MarksOK, ShownOK
<1>4. HandOK'
  BY <1>1, EditorControlsAssumption DEF HandOK
<1>5. PartIsTold' /\ BoxShowsNoOtherProgram'
  BY <1>1, PartStaysTold, BoxStays
<1> QED BY <1>2, <1>3, <1>4, <1>5

\* A control is taken hold of, and let go.
LEMMA GestureKeeps ==
    ASSUME ControlsIInv, NEW kind \in Kinds, BeginGesture(kind) \/ EndGesture(kind)
    PROVE  ControlsIInv'
<1> USE DEF ControlsIInv, ControlsTypeOK
<1>1. /\ UNCHANGED <<midichannel, midiprogram, imap, box, knob>>
      /\ UNCHANGED <<values, to_apply, mq_from_ui, waiting>>
      /\ UNCHANGED <<prepared, active_part, selected, voices, tell_part, tell_selection,
                     tell_program, mq_to_editor>>
  BY DEF BeginGesture, EndGesture, NotEditor, marks, shown
<1>2. QueuesOK' /\ ProcessorOK' /\ MarksOK' /\ ShownOK'
  BY <1>1 DEF QueuesOK, ProcessorOK, MarksOK, ShownOK
<1>3. HandOK'
  <2>1. CASE BeginGesture(kind)
    <3>1. /\ acts < MaxActs /\ acts' = acts + 1 /\ drag' = kind
          /\ gestures' = gestures \cup {<<kind, midichannel>>}
      BY <2>1 DEF BeginGesture, Act
    <3>2. acts' \in 0 .. MaxActs
      BY <3>1, EditorControlsAssumption DEF HandOK
    <3> QED BY <3>1, <3>2 DEF HandOK, ShownOK
  <2>2. CASE EndGesture(kind)
    BY <2>2 DEF EndGesture, HandOK
  <2> QED BY <2>1, <2>2
<1>4. PartIsTold' /\ BoxShowsNoOtherProgram'
  BY <1>1, PartStaysTold, BoxStays
<1> QED BY <1>2, <1>3, <1>4

\* A control takes a value, which is a parameter's.
LEMMA ValueKeeps ==
    ASSUME ControlsIInv, NEW kind, NEW v \in KnobValues, Act, WriteValue(kind, v)
    PROVE  ControlsIInv'
<1> USE DEF ControlsIInv, ControlsTypeOK
<1>1. /\ knob' = v /\ values' = [values EXCEPT ![midichannel] = v]
      /\ to_apply' \in {to_apply, to_apply \cup {midichannel}}
      /\ acts < MaxActs /\ acts' = acts + 1
      /\ UNCHANGED <<mq_from_ui, waiting, midichannel, midiprogram, imap, box, drag, gestures>>
      /\ UNCHANGED <<prepared, active_part, selected, voices, tell_part, tell_selection,
                     tell_program, mq_to_editor>>
  BY DEF WriteValue, SetParameter, NotEditor, Act, marks
<1>2. QueuesOK' /\ MarksOK'
  BY <1>1 DEF QueuesOK, MarksOK
<1>3. ProcessorOK' /\ ShownOK'
  BY <1>1 DEF ProcessorOK, ShownOK
<1>4. HandOK'
  BY <1>1, EditorControlsAssumption DEF HandOK
<1>5. PartIsTold' /\ BoxShowsNoOtherProgram'
  BY <1>1, PartStaysTold, BoxStays
<1> QED BY <1>2, <1>3, <1>4, <1>5

-----------------------------------------------------------------------------
(* The processor.                                                          *)

\* What neither the messages of the editor nor a block do to what is shown.
LEMMA EditingStays ==
    ControlsTypeOK /\ BoxShowsNoOtherProgram /\ Editing
      => /\ ShownOK' /\ BoxShowsNoOtherProgram'
         /\ waiting' \in Seq(ProcessorMessages)
         /\ drag' \in Kinds \cup {"none"} /\ gestures' \subseteq Kinds \X EditorParts
         /\ midichannel' = midichannel
BY DEF Editing, shown, ControlsTypeOK, ShownOK, QueuesOK, HandOK, BoxShowsNoOtherProgram

\* A message of the editor.  A part that is not the active one is marked to be told.
LEMMA HandleEditorMessageKeeps == ControlsIInv /\ HandleEditorMessage => ControlsIInv'
<1> SUFFICES ASSUME ControlsIInv, HandleEditorMessage PROVE ControlsIInv'
  OBVIOUS
<1> DEFINE m == Head(mq_from_ui)
<1> USE DEF ControlsIInv, ControlsTypeOK
<1>1. /\ mq_from_ui # <<>> /\ mq_from_ui' = Tail(mq_from_ui)
      /\ Editing /\ UNCHANGED <<prepared, mq_to_editor, acts>>
      /\ \/ m.tag = "SelectProgram" /\ HandleSelection(m.part, m.program)
         \/ m.tag = "SetActivePart" /\ HandleActivePart(m.part)
         \/ HandleRequest(m.tag)
  BY DEF HandleEditorMessage
<1>2. /\ m \in ProcessorMessages /\ mq_from_ui' \in Seq(ProcessorMessages)
      /\ Len(mq_from_ui') = Len(mq_from_ui) - 1 /\ Len(mq_from_ui) \in Nat
  BY <1>1, HeadTailProperties, LenProperties DEF QueuesOK
<1>3. /\ m.tag = "SelectProgram" => m.part \in EditorParts /\ m.program \in BoxPrograms
      /\ m.tag = "SetActivePart" => m.part \in EditorParts
  BY <1>2, ProcessorMessageKinds
<1> HIDE DEF m
<1>4. QueuesOK'
  <2>1. Len(mq_from_ui') <= QueueRoom
    BY <1>2, EditorControlsAssumption DEF QueuesOK
  <2>2. prepared' = prepared /\ prepared
    BY <1>1 DEF QueuesOK
  <2> QED BY <1>1, <1>2, <2>1, <2>2, EditingStays DEF QueuesOK
<1>5. ShownOK' /\ BoxShowsNoOtherProgram' /\ HandOK'
  BY <1>1, EditingStays DEF HandOK
<1>6. ProcessorOK' /\ MarksOK' /\ PartIsTold'
  <2>1. CASE m.tag = "SelectProgram" /\ HandleSelection(m.part, m.program)
    <3>1. /\ selected' = [selected EXCEPT ![m.part] = m.program]
          /\ \/ UNCHANGED <<values, to_apply>>
             \/ /\ values' = [values EXCEPT ![m.part] = voices[m.program]]
                /\ to_apply' \in {to_apply, to_apply \cup {m.part}}
          /\ UNCHANGED <<active_part, voices, tell_part, tell_selection, tell_program>>
      BY <2>1 DEF HandleSelection, Follow, SetParameter, marks
    <3>2. ProcessorOK'
      <4>1. selected' \in [EditorParts -> BoxPrograms]
        BY <1>3, <2>1, <3>1 DEF ProcessorOK
      <4>2. values' \in [EditorParts -> KnobValues] /\ to_apply' \subseteq EditorParts
        BY <1>3, <2>1, <3>1 DEF ProcessorOK
      <4> QED BY <1>1, <3>1, <4>1, <4>2 DEF ProcessorOK
    <3>3. MarksOK'
      BY <3>1 DEF MarksOK
    <3> QED BY <1>1, <3>1, <3>2, <3>3, EditingStays, PartStaysTold
  <2>2. CASE m.tag = "SetActivePart" /\ HandleActivePart(m.part)
    <3>1. /\ active_part' = m.part /\ m.part \in EditorParts
          /\ tell_part' = (tell_part \/ m.part # active_part)
          /\ UNCHANGED <<selected, voices, values, to_apply, tell_selection, tell_program>>
      BY <1>3, <2>2 DEF HandleActivePart
    <3>2. ProcessorOK' /\ MarksOK'
      BY <1>1, <3>1 DEF ProcessorOK, MarksOK
    <3>3. PartIsTold'
      <4>1. CASE m.part = active_part
        <5>1. ~tell_part' => ~tell_part
          BY <3>1
        <5>2. /\ active_part' = active_part /\ mq_to_editor' = mq_to_editor
              /\ midichannel' = midichannel /\ prepared' = prepared
          BY <1>1, <3>1, <4>1, EditingStays
        <5> QED BY <5>1, <5>2 DEF PartIsTold, PartToldAt
      <4>2. CASE m.part # active_part
        BY <3>1, <4>2 DEF PartIsTold
      <4> QED BY <4>1, <4>2
    <3> QED BY <3>2, <3>3
  <2>3. CASE HandleRequest(m.tag)
    <3>1. /\ tell_program' \in {BoxPrograms, tell_program}
          /\ tell_selection' \in {EditorParts, tell_selection}
          /\ tell_part' = (tell_part \/ m.tag = "RequestActivePart")
          /\ UNCHANGED <<active_part, selected, voices, values, to_apply>>
      BY <2>3 DEF HandleRequest, processorVars
    <3>2. ProcessorOK' /\ MarksOK'
      BY <1>1, <3>1 DEF ProcessorOK, MarksOK
    <3>3. PartIsTold'
      <4>1. ~tell_part' => ~tell_part
        BY <3>1
      <4>2. /\ active_part' = active_part /\ mq_to_editor' = mq_to_editor
            /\ midichannel' = midichannel /\ prepared' = prepared
        BY <1>1, <3>1, EditingStays
      <4> QED BY <4>1, <4>2 DEF PartIsTold, PartToldAt
    <3> QED BY <3>2, <3>3
  <2> QED BY <1>1, <2>1, <2>2, <2>3
<1> QED BY <1>4, <1>5, <1>6

\* The host selects a program for a part.
LEMMA HostSelectsKeeps ==
    ASSUME ControlsIInv, NEW p \in EditorParts, NEW g \in BoxPrograms, HostSelects(p, g)
    PROVE  ControlsIInv'
<1> USE DEF ControlsIInv, ControlsTypeOK
<1>1. /\ acts < MaxActs /\ acts' = acts + 1 /\ Editing
      /\ selected' = [selected EXCEPT ![p] = g]
      /\ values' = [values EXCEPT ![p] = voices[g]]
      /\ to_apply' \in {to_apply, to_apply \cup {p}}
      /\ tell_selection' = tell_selection \cup {p}
      /\ UNCHANGED <<prepared, active_part, voices, tell_part, tell_program, mq_from_ui,
                     mq_to_editor>>
  BY DEF HostSelects, Act, Follow, SetParameter
<1>2. QueuesOK' /\ ShownOK' /\ BoxShowsNoOtherProgram'
  BY <1>1, EditingStays DEF QueuesOK
<1>3. ProcessorOK'
  <2>1. selected' \in [EditorParts -> BoxPrograms] /\ values' \in [EditorParts -> KnobValues]
    BY <1>1 DEF ProcessorOK
  <2> QED BY <1>1, <2>1 DEF ProcessorOK
<1>4. MarksOK'
  BY <1>1 DEF MarksOK
<1>5. HandOK'
  BY <1>1, EditingStays, EditorControlsAssumption DEF HandOK
<1>6. PartIsTold'
  BY <1>1, EditingStays, PartStaysTold
<1> QED BY <1>2, <1>3, <1>4, <1>5, <1>6

\* The parameters of a part become its program.
LEMMA ApplyPartKeeps ==
    ASSUME ControlsIInv, NEW p \in EditorParts, ApplyPart(p)
    PROVE  ControlsIInv'
<1> USE DEF ControlsIInv, ControlsTypeOK
<1>1. /\ to_apply' = to_apply \ {p} /\ Editing
      /\ voices' = [voices EXCEPT ![selected[p]] = values[p]]
      /\ tell_program' = tell_program \cup {selected[p]}
      /\ UNCHANGED <<prepared, active_part, selected, values, tell_part, tell_selection,
                     mq_from_ui, mq_to_editor, acts>>
  BY DEF ApplyPart
<1>2. QueuesOK' /\ ShownOK' /\ BoxShowsNoOtherProgram' /\ HandOK'
  BY <1>1, EditingStays DEF QueuesOK, HandOK
<1>3. ProcessorOK'
  <2>1. voices' \in [BoxPrograms -> KnobValues]
    BY <1>1 DEF ProcessorOK
  <2> QED BY <1>1, <2>1 DEF ProcessorOK
<1>4. MarksOK'
  BY <1>1 DEF MarksOK, ProcessorOK
<1>5. PartIsTold'
  BY <1>1, EditingStays, PartStaysTold
<1> QED BY <1>2, <1>3, <1>4, <1>5

\* A notice goes to the queue, which has room for it.
LEMMA NotifyKeeps ==
    ASSUME ControlsIInv, NEW m \in EditorNotices, Notify(m)
    PROVE  /\ QueuesOK' /\ ProcessorOK' /\ ShownOK' /\ HandOK'
           /\ BoxShowsNoOtherProgram'
           /\ Len(mq_to_editor) \in Nat /\ Len(mq_to_editor') = Len(mq_to_editor) + 1
           /\ \A i \in 1 .. Len(mq_to_editor) : mq_to_editor'[i] = mq_to_editor[i]
           /\ mq_to_editor'[Len(mq_to_editor) + 1] = m
           /\ prepared /\ UNCHANGED <<prepared, active_part, midichannel>>
<1> USE DEF ControlsIInv, ControlsTypeOK
<1>1. /\ prepared /\ Len(mq_to_editor) < QueueRoom
      /\ mq_to_editor' = Append(mq_to_editor, m)
      /\ Editing /\ UNCHANGED <<prepared, mq_from_ui, acts>>
      /\ UNCHANGED <<active_part, selected, voices, values, to_apply>>
  BY DEF Notify, processorVars
<1>2. /\ Len(mq_to_editor) \in Nat /\ Len(mq_to_editor') = Len(mq_to_editor) + 1
      /\ mq_to_editor' \in Seq(EditorNotices)
      /\ \A i \in 1 .. Len(mq_to_editor) : mq_to_editor'[i] = mq_to_editor[i]
      /\ mq_to_editor'[Len(mq_to_editor) + 1] = m
  BY <1>1, LenProperties, AppendProperties DEF QueuesOK
<1>3. QueuesOK'
  BY <1>1, <1>2, EditingStays, EditorControlsAssumption DEF QueuesOK
<1>4. ProcessorOK'
  BY <1>1 DEF ProcessorOK
<1>5. ShownOK' /\ HandOK' /\ BoxShowsNoOtherProgram' /\ midichannel' = midichannel
  BY <1>1, EditingStays DEF HandOK
<1> QED BY <1>1, <1>2, <1>3, <1>4, <1>5

\* A notice that is not of a part comes after the last that is.
LEMMA OtherNoticesKeep ==
    ASSUME ControlsIInv, NEW m \in EditorNotices, Notify(m), m.tag # "NotifyActivePart",
           MarksOK', tell_part' = tell_part
    PROVE  ControlsIInv'
<1> DEFINE n == Len(mq_to_editor)
<1>1. /\ n \in Nat /\ Len(mq_to_editor') = n + 1
      /\ \A i \in 1 .. n : mq_to_editor'[i] = mq_to_editor[i]
      /\ mq_to_editor'[n + 1] = m
      /\ prepared /\ UNCHANGED <<prepared, active_part, midichannel>>
  BY NotifyKeeps
<1>2. PartIsTold'
  <2> SUFFICES ASSUME ~tell_part' PROVE \E k \in 0 .. n + 1 : PartToldAt(k)'
    BY <1>1 DEF PartIsTold
  <2>1. PICK k \in 0 .. n : PartToldAt(k)
    BY <1>1 DEF PartIsTold, ControlsIInv
  <2>2. \A j \in k + 1 .. n + 1 : mq_to_editor'[j].tag # "NotifyActivePart"
    <3> TAKE j \in k + 1 .. n + 1
    <3>1. CASE j = n + 1
      BY <1>1, <3>1
    <3>2. CASE j # n + 1
      BY <1>1, <2>1, <3>2 DEF PartToldAt
    <3> QED BY <3>1, <3>2
  <2>3. IF k = 0 THEN midichannel' = active_part'
        ELSE mq_to_editor'[k] = Message("NotifyActivePart", active_part', NoChoice, 0)
    BY <1>1, <2>1 DEF PartToldAt
  <2>4. PartToldAt(k)'
    BY <1>1, <2>2, <2>3 DEF PartToldAt
  <2> QED BY <1>1, <2>4
<1> QED BY <1>2, NotifyKeeps DEF ControlsIInv, ControlsTypeOK

\* The editor is told of a program.
LEMMA NotifyInstrumentKeeps ==
    ASSUME ControlsIInv, NEW g \in BoxPrograms, NotifyInstrument(g)
    PROVE  ControlsIInv'
<1>1. /\ tell_program' = tell_program \ {g} /\ UNCHANGED <<tell_part, tell_selection>>
      /\ Notify(Message("NotifyInstrument", KitPart, g, voices[g]))
  BY DEF NotifyInstrument
<1>2. voices[g] \in KnobValues
  BY DEF ControlsIInv, ControlsTypeOK, ProcessorOK
<1>3. MarksOK'
  BY <1>1 DEF MarksOK, ControlsIInv, ControlsTypeOK
<1>4. /\ Message("NotifyInstrument", KitPart, g, voices[g]) \in EditorNotices
      /\ Message("NotifyInstrument", KitPart, g, voices[g]).tag = "NotifyInstrument"
  BY <1>2, EditorNoticeKinds
<1> QED BY <1>1, <1>3, <1>4, OtherNoticesKeep

\* The editor is told of the selection of a part.
LEMMA NotifySelectionKeeps ==
    ASSUME ControlsIInv, NEW p \in EditorParts, NotifySelection(p)
    PROVE  ControlsIInv'
<1>1. /\ tell_selection' = tell_selection \ {p} /\ UNCHANGED <<tell_part, tell_program>>
      /\ Notify(Message("NotifySelection", p, selected[p], 0))
  BY DEF NotifySelection
<1>2. selected[p] \in BoxPrograms
  BY DEF ControlsIInv, ControlsTypeOK, ProcessorOK
<1>3. MarksOK'
  BY <1>1 DEF MarksOK, ControlsIInv, ControlsTypeOK
<1>4. /\ Message("NotifySelection", p, selected[p], 0) \in EditorNotices
      /\ Message("NotifySelection", p, selected[p], 0).tag = "NotifySelection"
  BY <1>2, EditorNoticeKinds
<1> QED BY <1>1, <1>3, <1>4, OtherNoticesKeep

\* The active part is told last.
LEMMA NotifyActivePartKeeps == ControlsIInv /\ NotifyActivePart => ControlsIInv'
<1> SUFFICES ASSUME ControlsIInv, NotifyActivePart PROVE ControlsIInv'
  OBVIOUS
<1> DEFINE n == Len(mq_to_editor)
           m == Message("NotifyActivePart", active_part, NoChoice, 0)
<1>1. /\ tell_part' = FALSE /\ Notify(m) /\ UNCHANGED <<tell_selection, tell_program>>
  BY DEF NotifyActivePart
<1>2. m \in EditorNotices
  BY EditorNoticeKinds DEF ControlsIInv, ControlsTypeOK, ProcessorOK
<1>3. /\ n \in Nat /\ Len(mq_to_editor') = n + 1 /\ mq_to_editor'[n + 1] = m
      /\ active_part' = active_part
  BY <1>1, <1>2, NotifyKeeps
<1>4. MarksOK'
  BY <1>1 DEF MarksOK, ControlsIInv, ControlsTypeOK
<1>5. PICK k \in Nat \ {0} : k = Len(mq_to_editor')
  BY <1>3
<1>6. PartIsTold'
  <2>1. /\ mq_to_editor'[k] = Message("NotifyActivePart", active_part', NoChoice, 0)
        /\ \A j \in k + 1 .. Len(mq_to_editor') : FALSE
    BY <1>3, <1>5
  <2>2. PartToldAt(k)'
    BY <1>5, <2>1 DEF PartToldAt
  <2> QED BY <1>5, <2>2 DEF PartIsTold
<1> QED BY <1>1, <1>2, <1>4, <1>6, NotifyKeeps DEF ControlsIInv, ControlsTypeOK

\* The queues are gone with what was in them.
LEMMA ReleaseKeeps == ControlsIInv /\ ReleaseResources => ControlsIInv'
<1> SUFFICES ASSUME ControlsIInv, ReleaseResources PROVE ControlsIInv'
  OBVIOUS
<1> USE DEF ControlsIInv, ControlsTypeOK
<1>1. /\ acts < MaxActs /\ acts' = acts + 1 /\ prepared' = FALSE
      /\ mq_from_ui' = <<>> /\ mq_to_editor' = <<>> /\ Editing
      /\ UNCHANGED <<active_part, selected, voices, values, to_apply>>
      /\ UNCHANGED <<tell_part, tell_selection, tell_program>>
  BY DEF ReleaseResources, Act, processorVars, marks
<1>2. QueuesOK'
  <2>1. <<>> \in Seq(ProcessorMessages) /\ <<>> \in Seq(EditorNotices) /\ Len(<<>>) = 0
    BY EmptySeq
  <2> QED BY <1>1, <2>1, EditingStays, EditorControlsAssumption DEF QueuesOK
<1>3. ProcessorOK' /\ MarksOK'
  BY <1>1 DEF ProcessorOK, MarksOK
<1>4. ShownOK' /\ BoxShowsNoOtherProgram' /\ HandOK'
  BY <1>1, EditingStays, EditorControlsAssumption DEF HandOK
<1>5. PartIsTold'
  BY <1>1 DEF PartIsTold
<1> QED BY <1>2, <1>3, <1>4, <1>5

\* The queues are new, and everything is to be told.
LEMMA PrepareToPlayKeeps == ControlsIInv /\ PrepareToPlay => ControlsIInv'
<1> SUFFICES ASSUME ControlsIInv, PrepareToPlay PROVE ControlsIInv'
  OBVIOUS
<1> USE DEF ControlsIInv, ControlsTypeOK
<1>1. /\ acts < MaxActs /\ acts' = acts + 1 /\ prepared' = TRUE
      /\ mq_from_ui' = <<>> /\ mq_to_editor' = <<Bare("NotifyReady")>> /\ Editing
      /\ tell_part' = TRUE /\ tell_selection' = EditorParts /\ tell_program' = BoxPrograms
      /\ UNCHANGED <<active_part, selected, voices, values, to_apply>>
  BY DEF PrepareToPlay, Act, processorVars
<1>2. QueuesOK'
  <2>1. <<>> \in Seq(ProcessorMessages) /\ Len(<<>>) = 0
    BY EmptySeq
  <2>2. <<Bare("NotifyReady")>> \in Seq(EditorNotices) /\ Len(<<Bare("NotifyReady")>>) = 1
    BY EditorNoticeKinds
  <2> QED BY <1>1, <2>1, <2>2, EditingStays, EditorControlsAssumption DEF QueuesOK
<1>3. ProcessorOK' /\ MarksOK'
  BY <1>1 DEF ProcessorOK, MarksOK
<1>4. ShownOK' /\ BoxShowsNoOtherProgram' /\ HandOK'
  BY <1>1, EditingStays, EditorControlsAssumption DEF HandOK
<1>5. PartIsTold'
  BY <1>1 DEF PartIsTold
<1> QED BY <1>2, <1>3, <1>4, <1>5

-----------------------------------------------------------------------------
(* The theorems of the editor's part.                                      *)

\* An editor that was just opened shows no program of another part.
LEMMA ControlsStart == ControlsInit => ControlsIInv
<1> SUFFICES ASSUME ControlsInit PROVE ControlsIInv
  OBVIOUS
<1> USE DEF ControlsInit
<1>1. QueuesOK
  BY EmptySeq, EditorControlsAssumption DEF QueuesOK
<1>2. ProcessorOK /\ MarksOK
  BY EditorControlsAssumption DEF ProcessorOK, MarksOK
<1>3. ShownOK /\ HandOK
  BY EditorControlsAssumption DEF ShownOK, HandOK
<1>4. PartToldAt(0)
  BY EmptySeq DEF PartToldAt
<1>5. PartIsTold
  BY <1>4, EmptySeq DEF PartIsTold
<1>6. BoxShowsNoOtherProgram
  BY DEF BoxShowsNoOtherProgram
<1> QED BY <1>1, <1>2, <1>3, <1>5, <1>6 DEF ControlsIInv, ControlsTypeOK

\* Nothing changes where nothing happens.
LEMMA ControlsStutter ==
    ControlsIInv /\ UNCHANGED editorControlsVars => ControlsIInv'
<1> SUFFICES ASSUME ControlsIInv, UNCHANGED editorControlsVars PROVE ControlsIInv'
  OBVIOUS
<1> USE DEF ControlsIInv, ControlsTypeOK
<1>1. /\ UNCHANGED <<prepared, active_part, selected, voices, values, to_apply>>
      /\ UNCHANGED <<tell_part, tell_selection, tell_program, mq_from_ui, mq_to_editor, waiting>>
      /\ UNCHANGED <<midichannel, midiprogram, imap, box, knob, drag, gestures, acts>>
  BY DEF editorControlsVars, processorVars, marks, shown
<1>2. QueuesOK' /\ ProcessorOK' /\ MarksOK' /\ ShownOK' /\ HandOK'
  BY <1>1 DEF QueuesOK, ProcessorOK, MarksOK, ShownOK, HandOK
<1>3. PartIsTold' /\ BoxShowsNoOtherProgram'
  BY <1>1, PartStaysTold, BoxStays
<1> QED BY <1>2, <1>3

\* Every state of the editor and the processor has the invariant.
LEMMA ControlsInvariant == ControlsSpec => []ControlsIInv
<1>1. ControlsIInv /\ [ControlsNext]_editorControlsVars => ControlsIInv'
  <2> SUFFICES ASSUME ControlsIInv, [ControlsNext]_editorControlsVars
               PROVE  ControlsIInv'
    OBVIOUS
  <2>1. CASE FlushTimer \/ ReceiveNotification \/ HandleEditorMessage
    BY <2>1, FlushTimerKeeps, ReceiveNotificationKeeps, HandleEditorMessageKeeps
  <2>2. CASE \E g \in BoxPrograms : SelectInBox(g) \/ NotifyInstrument(g)
    BY <2>2, SelectInBoxKeeps, NotifyInstrumentKeeps
  <2>3. CASE \E p \in EditorParts : ChoosePart(p) \/ ApplyPart(p) \/ NotifySelection(p)
    BY <2>3, ChoosePartKeeps, ApplyPartKeeps, NotifySelectionKeeps
  <2>4. CASE \E p \in EditorParts, g \in BoxPrograms : HostSelects(p, g)
    BY <2>4, HostSelectsKeeps
  <2>5. CASE \E kind \in Kinds : BeginGesture(kind) \/ EndGesture(kind)
    BY <2>5, GestureKeeps
  <2>6. CASE \E v \in KnobValues :
                \/ SliderValueChanged(v) \/ KnobValueChanged(v) \/ OperatorValueChanged(v)
                \/ ButtonClicked(v)
    <3>1. PICK v \in KnobValues : \/ SliderValueChanged(v) \/ KnobValueChanged(v)
                                  \/ OperatorValueChanged(v) \/ ButtonClicked(v)
      BY <2>6
    <3>2. Act /\ \E kind \in Kinds \cup {"none"} : WriteValue(kind, v)
      BY <3>1 DEF SliderValueChanged, KnobValueChanged, OperatorValueChanged, ButtonClicked,
                  Kinds
    <3> QED BY <3>2, ValueKeeps
  <2>7. CASE NotifyActivePart \/ ReleaseResources \/ PrepareToPlay
    BY <2>7, NotifyActivePartKeeps, ReleaseKeeps, PrepareToPlayKeeps
  <2>8. CASE UNCHANGED editorControlsVars
    BY <2>8, ControlsStutter
  <2>9. CASE \/ SliderDragStarted \/ SliderDragEnded \/ KnobDragStarted \/ KnobDragEnded
             \/ OperatorDragStarted \/ OperatorDragEnded
    BY <2>5, <2>9 DEF SliderDragStarted, SliderDragEnded, KnobDragStarted, KnobDragEnded,
                      OperatorDragStarted, OperatorDragEnded, Kinds
  <2> QED BY <2>1, <2>2, <2>3, <2>4, <2>6, <2>7, <2>8, <2>9 DEF ControlsNext
<1> QED BY <1>1, ControlsStart, PTL DEF ControlsSpec

\* What each side keeps is of its kind, and no queue holds more than it has room
\* for: write_raw_to_processor keeps what does not fit.
THEOREM ControlsTypeCorrect == ControlsSpec => []ControlsTypeOK
<1>1. ControlsIInv => ControlsTypeOK
  BY DEF ControlsIInv
<1> QED BY <1>1, ControlsInvariant, PTL

\* Once nothing is on its way, the editor is on the part that is active in the
\* processor, whatever was dropped on the way; and the program box never shows a
\* program that is not the part's.
THEOREM ControlsCorrect == ControlsSpec => []EditorIsOnItsPart
<1>1. ControlsIInv => EditorIsOnItsPart
  <2> SUFFICES ASSUME ControlsIInv PROVE EditorIsOnItsPart
    OBVIOUS
  <2>1. ASSUME Settled PROVE midichannel = active_part
    <3>1. PICK k \in 0 .. Len(mq_to_editor) : PartToldAt(k)
      BY <2>1 DEF ControlsIInv, PartIsTold, Settled
    <3>2. k = 0
      BY <2>1, EmptySeq DEF Settled
    <3> QED BY <3>1, <3>2 DEF PartToldAt
  <2> QED BY <2>1 DEF ControlsIInv, EditorIsOnItsPart, EditorIsOnTheActivePart
<1> QED BY <1>1, ControlsInvariant, PTL
=============================================================================
