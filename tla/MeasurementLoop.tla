-------------------------- MODULE MeasurementLoop --------------------------
(***************************************************************************)
(* The way of a measurement: a program is loaded into the bank manager to  *)
(* be measured, the manager asks the worker (src/sources/worker.cc), and   *)
(* the result comes back to a program that may be another by then.  A      *)
(* player that is made again (prepareToPlay) takes the programs over, and  *)
(* neither what was asked nor what is on its way; lost says, as a ghost,   *)
(* which programs were left with delays that are not theirs.               *)
(***************************************************************************)
EXTENDS BankManager

CONSTANTS
    DelaysOf,  \* what the measurer finds for a voice
    Places,    \* programs to measure, a bank and a number each
    MaxLoop    \* the messages that mq_to_worker and mq_from_worker have room for

ASSUME LoopAssumption ==
    /\ DelaysOf \in [Voices -> Delays]
    /\ Places \subseteq BankIds \X Programs
    /\ MaxLoop \in Nat \ {0}

VARIABLES
    mq_to_worker,
    measure_requests,  \* measure_requests_: at most one for each program
    mq_from_worker,
    lost               \* ghost

loopQueues == <<mq_to_worker, measure_requests, mq_from_worker>>
loop_vars == <<slots, slots_notify_flag, held, ins, loopQueues, lost>>

Current(place) == ins[place[1]][place[2]]
DelaysFit(i) == i.blank \/ i.delays = DelaysOf[i.voice]

\* What a player has when nothing is on its way.
Unmeasured == {place \in Places : ~DelaysFit(Current(place))}

LoopInit ==
    /\ Init
    /\ mq_to_worker = <<>> /\ mq_from_worker = <<>> /\ measure_requests = {}
    /\ lost = Unmeasured

-----------------------------------------------------------------------------
(* Programs.  A new program brings no delays or those of its own.  An edit *)
(* of the parameters is of the voice: the delays stay, and the program is  *)
(* to be measured.                                                         *)

LoadNew(place) ==
    /\ \E v \in Voices :
          \/ \E answer \in Answers :
                LoadProgram(place[1], place[2], [voice |-> v, delays |-> NoDelay, blank |-> FALSE],
                            NoName, {"NeedMeasurement"}, answer)
          \/ LoadProgram(place[1], place[2],
                         [voice |-> v, delays |-> DelaysOf[v], blank |-> FALSE],
                         NoName, {}, "taken")
    /\ lost' = lost \ {place}
    /\ UNCHANGED loopQueues

EditVoice(place) ==
    /\ \E v \in Voices, blank \in BOOLEAN :
          LoadProgram(place[1], place[2], [Current(place) EXCEPT !.voice = v, !.blank = blank],
                      NoName, {"NeedMeasurement", "KeepName"}, "taken")
    /\ lost' = lost \ {place}
    /\ UNCHANGED loopQueues

Discard(place) ==
    /\ \/ DeleteProgram(place[1], place[2], FALSE)
       \/ DeleteBank(place[1], FALSE)
       \/ ClearBanks(FALSE)
    /\ UNCHANGED <<loopQueues, lost>>

-----------------------------------------------------------------------------
(* Requests and results.                                                   *)

\* The delays an instrument had before do not matter to its measurement.
RequestOf(x) ==
    [place |-> <<slots[x[1]].id, x[2]>>,
     ins |-> [ins[slots[x[1]].id][x[2]] EXCEPT !.delays = NoDelay]]

RequestMeasurements(sent) ==
    /\ SendMeasurementRequests(sent)
    /\ \E order \in InOrder(sent) :
          mq_to_worker' = mq_to_worker \o [k \in DOMAIN order |-> RequestOf(order[k])]
    /\ Len(mq_to_worker') <= MaxLoop
    /\ UNCHANGED <<measure_requests, mq_from_worker, lost>>

\* Wrong, to try the checks: the request that was there first stays.
RequestedOnce(r) ==
    IF \E q \in measure_requests : q.place = r.place THEN measure_requests
    ELSE measure_requests \cup {r}

\* The requests with another: of one program only the last counts.
Requested(r) == {q \in measure_requests : q.place # r.place} \cup {r}

\* Worker::handle_message.
TakeRequest ==
    /\ mq_to_worker # <<>>
    /\ measure_requests' = Requested(Head(mq_to_worker))
    /\ mq_to_worker' = Tail(mq_to_worker)
    /\ UNCHANGED <<vars, mq_from_worker, lost>>

\* One measurement, for which there must be room.
Measure(r) ==
    /\ r \in measure_requests /\ Len(mq_from_worker) < MaxLoop
    /\ mq_from_worker' = Append(mq_from_worker, r)
    /\ measure_requests' = measure_requests \ {r}
    /\ UNCHANGED <<vars, mq_to_worker, lost>>

\* A result is taken if the bank is there, and the program as it was, its delays
\* apart.
Fits(r) == r.place[1] \in held /\ EqualExceptDelays(r.ins, Current(r.place))

TakeResult ==
    /\ mq_from_worker # <<>>
    /\ LET r == Head(mq_from_worker)
       IN  IF Fits(r)
           THEN /\ ins' = [ins EXCEPT ![r.place[1]][r.place[2]].delays = DelaysOf[r.ins.voice]]
                /\ slots' = [slots EXCEPT ![CHOOSE s \in SlotsOf(r.place[1]) : TRUE].to_notify =
                                @ \cup {r.place[2]}]
                /\ lost' = lost \ {r.place}
                /\ UNCHANGED <<slots_notify_flag, held>>
           ELSE UNCHANGED <<vars, lost>>
    /\ mq_from_worker' = Tail(mq_from_worker)
    /\ UNCHANGED <<mq_to_worker, measure_requests>>

-----------------------------------------------------------------------------
(* A player made again reads the programs in use into banks that come in   *)
(* the order of the slots; queues and worker are new.                      *)

InUseSlots == {s \in Slots : slots[s].used # {}}

\* The banks that have something, as they are written and read.
InUseInOrder ==
    {kept \in [1 .. Cardinality(InUseSlots) -> InUseSlots] :
        /\ InUseSlots = {kept[k] : k \in DOMAIN kept}
        /\ \A j, k \in DOMAIN kept : j < k => kept[j] < kept[k]}

Remade(kept) ==
    [s \in Slots |-> IF s \notin DOMAIN kept THEN EmptySlot
                     ELSE [slots[kept[s]] EXCEPT !.to_notify = slots[kept[s]].used,
                                                 !.to_measure = {}]]

RemakePlayer ==
    /\ \E kept \in InUseInOrder : slots' = Remade(kept)
    /\ slots_notify_flag' = TRUE
    /\ held' = {slots[s].id : s \in InUseSlots}
    /\ ins' = [b \in BankIds |-> [p \in Programs |->
                  IF ins[b][p].blank THEN BlankInstrument ELSE ins[b][p]]]
    /\ mq_to_worker' = <<>> /\ mq_from_worker' = <<>> /\ measure_requests' = {}
    /\ lost' = Unmeasured

-----------------------------------------------------------------------------
LoopNext ==
    \/ \E place \in Places : LoadNew(place) \/ EditVoice(place) \/ Discard(place)
    \/ \E sent \in SUBSET ToMeasure : sent # {} /\ RequestMeasurements(sent)
    \/ TakeRequest \/ (\E r \in measure_requests : Measure(r)) \/ TakeResult
    \/ RemakePlayer

LoopSpec == LoopInit /\ [][LoopNext]_loop_vars

-----------------------------------------------------------------------------
\* Requests and results, wherever they are.
InLoop ==
    {mq_to_worker[k] : k \in DOMAIN mq_to_worker} \cup measure_requests
       \cup {mq_from_worker[k] : k \in DOMAIN mq_from_worker}

\* Somewhere on its way is a measurement that will be taken for the program as
\* it is.
ToBeMeasured(place) == \E s \in SlotsOf(place[1]) : place[2] \in slots[s].to_measure
IsOf(r, place) == r.place = place /\ EqualExceptDelays(r.ins, Current(place))
OnItsWay(place) == ToBeMeasured(place) \/ \E r \in InLoop : IsOf(r, place)

\* A program has the delays of its own voice, or they are coming: whatever was
\* loaded over it, edited, deleted or evicted while requests and results were on
\* their way, no result of another instrument stays in it, and none is left
\* without.  Only a player that was made again leaves some so.
MeasuredOrOnItsWay ==
    \A place \in Places :
        place[1] \in held /\ place \notin lost
            => DelaysFit(Current(place)) \/ OnItsWay(place)

\* The requests and results are of programs there can be.
Requests == [place : BankIds \X Programs, ins : Instruments]
LoopTypeOK ==
    /\ mq_to_worker \in Seq(Requests) /\ mq_from_worker \in Seq(Requests)
    /\ measure_requests \in SUBSET Requests
    /\ lost \in SUBSET Places

\* Of the requests for a program that are still to be taken the last one is of it as it
\* is, since it replaces the ones before it; or, with none to be taken, the one that was;
\* or it is measured.
LastRequestIsOf(place) ==
    \/ \E k \in 1 .. Len(mq_to_worker) :
          /\ IsOf(mq_to_worker[k], place)
          /\ \A j \in k + 1 .. Len(mq_to_worker) : mq_to_worker[j].place # place
    \/ /\ \A j \in 1 .. Len(mq_to_worker) : mq_to_worker[j].place # place
       /\ \E r \in measure_requests : IsOf(r, place)
    \/ \E k \in 1 .. Len(mq_from_worker) : IsOf(mq_from_worker[k], place)

LoopInv ==
    \A place \in Places :
        place[1] \in held /\ place \notin lost
            => DelaysFit(Current(place)) \/ ToBeMeasured(place) \/ LastRequestIsOf(place)

LoopIInv == IInv /\ LoopTypeOK /\ LoopInv
=============================================================================
