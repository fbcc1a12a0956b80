------------------------------- MODULE Worker -------------------------------
(***************************************************************************)
(* The worker thread (src/sources/worker.cc) between the audio thread that *)
(* gives it jobs and the host's thread that starts and stops it            *)
(* (src/sources/plugin_processor.cc).  A job is a message; the semaphore   *)
(* is posted once for each, after it was sent, and once more to stop.      *)
(* Two jobs there are: to measure how long the instrument of a program     *)
(* sounds, and to set up the player, which takes the player lock.          *)
(*                                                                         *)
(* The queues are those of MessageQueue, bounded by a number of messages.  *)
(* The host does not stop the worker while a block is processed.           *)
(*                                                                         *)
(* asked and answered are ghosts: of each program, the instrument whose    *)
(* measurement was requested last, and the one whose result came last.     *)
(***************************************************************************)
EXTENDS Integers, Sequences

CONSTANTS
    Programs,      \* the programs of all banks
    Instruments,   \* what a program can hold
    NoProgram, NoInstrument,
    MaxToWorker,   \* the messages mq_to_worker has room for
    MaxFromWorker  \* and mq_from_worker

ASSUME WorkerAssumption ==
    /\ NoProgram \notin Programs
    /\ NoInstrument \notin Instruments
    /\ MaxToWorker \in Nat \ {0}
    /\ MaxFromWorker \in Nat \ {0}

VARIABLES
    host,              \* where the host's thread is in starting and stopping
    audio,             \* where the audio thread is in its block
    player_lock,       \* who holds it
    to_worker,         \* mq_to_worker
    from_worker,       \* mq_from_worker
    sem, quit,         \* sem_ and quit_
    wpc, job,          \* where the worker is, and the program it measures
    measure_requests,  \* measure_requests_; NoInstrument where there is none
    asked, answered    \* ghosts

workerVars == <<wpc, job, measure_requests>>
ghosts == <<asked, answered>>
vars == <<host, audio, player_lock, to_worker, from_worker, sem, quit,
          wpc, job, measure_requests, asked, answered>>

Measurements == [kind : {"measure"}, program : Programs, ins : Instruments]
Setup == [kind |-> "setup"]
Jobs == Measurements \cup {Setup}
Results == [program : Programs, ins : Instruments]

NoRequest == [p \in Programs |-> NoInstrument]

Init ==
    /\ host = "stopped" /\ audio = "idle" /\ player_lock = "free"
    /\ to_worker = <<>> /\ from_worker = <<>>
    /\ sem = 0 /\ quit = FALSE
    /\ wpc = "stopped" /\ job = NoProgram
    /\ measure_requests = NoRequest
    /\ asked = NoRequest /\ answered = NoRequest

-----------------------------------------------------------------------------
(* The host's thread: prepareToPlay and releaseResources.                  *)

Start ==
    /\ host = "stopped"
    /\ host' = "running"
    /\ wpc' = "wait"
    /\ UNCHANGED <<audio, player_lock, to_worker, from_worker, sem, quit>>
    /\ UNCHANGED <<job, measure_requests, ghosts>>

\* stop_worker says so, posts, and waits for the thread to end.
AskToQuit ==
    /\ host = "running" /\ audio = "idle"
    /\ host' = "quitting"
    /\ quit' = TRUE
    /\ UNCHANGED <<audio, player_lock, to_worker, from_worker, sem>>
    /\ UNCHANGED <<workerVars, ghosts>>

PostQuit ==
    /\ host = "quitting"
    /\ host' = "joining"
    /\ sem' = sem + 1
    /\ UNCHANGED <<audio, player_lock, to_worker, from_worker, quit>>
    /\ UNCHANGED <<workerVars, ghosts>>

\* The worker that ended goes with its requests and its semaphore, and the queues
\* with what is in them; the next one has new ones, and nothing is asked of it.
Join ==
    /\ host = "joining" /\ wpc = "stopped"
    /\ host' = "stopped"
    /\ to_worker' = <<>> /\ from_worker' = <<>>
    /\ sem' = 0 /\ quit' = FALSE
    /\ measure_requests' = NoRequest
    /\ asked' = NoRequest /\ answered' = NoRequest
    /\ UNCHANGED <<audio, player_lock, wpc, job>>

\* The host reads or writes the state, or prepares the player.
HoldPlayer ==
    /\ host = "running" /\ player_lock = "free"
    /\ host' = "holding" /\ player_lock' = "host"
    /\ UNCHANGED <<audio, to_worker, from_worker, sem, quit>>
    /\ UNCHANGED <<workerVars, ghosts>>

ReleasePlayer ==
    /\ host = "holding"
    /\ host' = "running" /\ player_lock' = "free"
    /\ UNCHANGED <<audio, to_worker, from_worker, sem, quit>>
    /\ UNCHANGED <<workerVars, ghosts>>

-----------------------------------------------------------------------------
(* The audio thread: a block.  Without the lock it leaves every result     *)
(* where it is and sends nothing.                                          *)

BeginBlock ==
    /\ host \in {"running", "holding"} /\ audio = "idle" /\ player_lock = "free"
    /\ audio' = "reading" /\ player_lock' = "audio"
    /\ UNCHANGED <<host, to_worker, from_worker, sem, quit>>
    /\ UNCHANGED <<workerVars, ghosts>>

TakeResult ==
    /\ audio = "reading" /\ from_worker # <<>>
    /\ from_worker' = Tail(from_worker)
    /\ answered' = [answered EXCEPT ![Head(from_worker).program] = Head(from_worker).ins]
    /\ UNCHANGED <<host, audio, player_lock, to_worker, sem, quit, asked>>
    /\ UNCHANGED workerVars

NoMoreResults ==
    /\ audio = "reading" /\ from_worker = <<>>
    /\ audio' = "sending"
    /\ UNCHANGED <<host, player_lock, to_worker, from_worker, sem, quit>>
    /\ UNCHANGED <<workerVars, ghosts>>


HasRoom == Len(to_worker) < MaxToWorker

\* emit_measurement_request, request_resampling and the RequestChipSettings of
\* process_parameter_changes: a message, if there is room for it ...
SendJob(m) ==
    /\ audio = "sending"
    /\ HasRoom
    /\ to_worker' = Append(to_worker, m)
    /\ asked' = IF m = Setup THEN asked ELSE [asked EXCEPT ![m.program] = m.ins]
    /\ audio' = "sent"
    /\ UNCHANGED <<host, player_lock, from_worker, sem, quit, answered>>
    /\ UNCHANGED workerVars

\* ... and then the semaphore.
PostJob ==
    /\ audio = "sent"
    /\ sem' = sem + 1
    /\ audio' = "sending"
    /\ UNCHANGED <<host, player_lock, to_worker, from_worker, quit>>
    /\ UNCHANGED <<workerVars, ghosts>>

EndBlock ==
    /\ audio = "sending"
    /\ audio' = "idle" /\ player_lock' = "free"
    /\ UNCHANGED <<host, to_worker, from_worker, sem, quit>>
    /\ UNCHANGED <<workerVars, ghosts>>

-----------------------------------------------------------------------------
(* The worker: run.                                                        *)

\* wait, or a try_wait that succeeds.
TakeToken ==
    /\ wpc \in {"wait", "pending"} /\ sem > 0
    /\ sem' = sem - 1
    /\ wpc' = "woken"
    /\ UNCHANGED <<host, audio, player_lock, to_worker, from_worker, quit>>
    /\ UNCHANGED <<job, measure_requests, ghosts>>

\* Wrong, to try the checks: a worker that is woken always receives.
CheckNothing ==
    /\ wpc = "woken"
    /\ wpc' = "receive"
    /\ UNCHANGED <<host, audio, player_lock, to_worker, from_worker, sem, quit>>
    /\ UNCHANGED <<job, measure_requests, ghosts>>

CheckQuit ==
    /\ wpc = "woken"
    /\ wpc' = IF quit THEN "stopped" ELSE "receive"
    /\ UNCHANGED <<host, audio, player_lock, to_worker, from_worker, sem, quit>>
    /\ UNCHANGED <<job, measure_requests, ghosts>>

\* Wrong, to try the checks: a request that waits is not replaced.
RequestIfNone(m) ==
    IF measure_requests[m.program] # NoInstrument THEN measure_requests
    ELSE [measure_requests EXCEPT ![m.program] = m.ins]

\* What is asked last of a program is what is measured.
Request(m) == [measure_requests EXCEPT ![m.program] = m.ins]

\* receive_one, for a message that only touches what the worker has itself.
ReceiveRequest ==
    /\ wpc = "receive" /\ to_worker # <<>> /\ Head(to_worker) # Setup
    /\ measure_requests' = Request(Head(to_worker))
    /\ to_worker' = Tail(to_worker)
    /\ wpc' = "pending"
    /\ UNCHANGED <<host, audio, player_lock, from_worker, sem, quit, job, ghosts>>

\* For one that waits for the player first.
LockPlayer ==
    /\ wpc = "receive" /\ to_worker # <<>> /\ Head(to_worker) = Setup
    /\ player_lock = "free"
    /\ player_lock' = "worker"
    /\ wpc' = "setup"
    /\ UNCHANGED <<host, audio, to_worker, from_worker, sem, quit>>
    /\ UNCHANGED <<job, measure_requests, ghosts>>

UnlockPlayer ==
    /\ wpc = "setup"
    /\ player_lock' = "free"
    /\ wpc' = "finish"
    /\ UNCHANGED <<host, audio, to_worker, from_worker, sem, quit>>
    /\ UNCHANGED <<job, measure_requests, ghosts>>

FinishSetup ==
    /\ wpc = "finish" /\ to_worker # <<>>
    /\ to_worker' = Tail(to_worker)
    /\ wpc' = "pending"
    /\ UNCHANGED <<host, audio, player_lock, from_worker, sem, quit>>
    /\ UNCHANGED <<job, measure_requests, ghosts>>

\* receive_pending has taken everything that was announced.
NothingPending ==
    /\ wpc = "pending" /\ sem = 0
    /\ wpc' = "measuring"
    /\ UNCHANGED <<host, audio, player_lock, to_worker, from_worker, sem, quit>>
    /\ UNCHANGED <<job, measure_requests, ghosts>>

Requested == {p \in Programs : measure_requests[p] # NoInstrument}

NothingToMeasure ==
    /\ wpc = "measuring" /\ Requested = {}
    /\ wpc' = "wait"
    /\ UNCHANGED <<host, audio, player_lock, to_worker, from_worker, sem, quit>>
    /\ UNCHANGED <<job, measure_requests, ghosts>>

\* Wrong, to try the checks: without room, the worker only waits for it.
NoRoomButWait ==
    /\ wpc = "measuring" /\ Requested # {}
    /\ Len(from_worker) >= MaxFromWorker
    /\ UNCHANGED vars

\* There is no room for a result: a rest, and then what was announced meanwhile.
NoRoom ==
    /\ wpc = "measuring" /\ Requested # {}
    /\ Len(from_worker) >= MaxFromWorker
    /\ wpc' = "pending"
    /\ UNCHANGED <<host, audio, player_lock, to_worker, from_worker, sem, quit>>
    /\ UNCHANGED <<job, measure_requests, ghosts>>

\* A result is reserved, and the measurement of some program begins.
BeginMeasurement ==
    /\ wpc = "measuring" /\ Len(from_worker) < MaxFromWorker
    /\ job' \in Requested
    /\ wpc' = "measure"
    /\ UNCHANGED <<host, audio, player_lock, to_worker, from_worker, sem, quit>>
    /\ UNCHANGED <<measure_requests, ghosts>>

\* Wrong, to try the checks: one measurement to a wake-up.
FinishOneAndWait ==
    /\ wpc = "measure"
    /\ from_worker' = Append(from_worker, [program |-> job, ins |-> measure_requests[job]])
    /\ measure_requests' = [measure_requests EXCEPT ![job] = NoInstrument]
    /\ wpc' = "wait" /\ job' = NoProgram
    /\ UNCHANGED <<host, audio, player_lock, to_worker, sem, quit, ghosts>>

\* It ends and is sent, and the request goes.
FinishMeasurement ==
    /\ wpc = "measure"
    /\ from_worker' = Append(from_worker, [program |-> job, ins |-> measure_requests[job]])
    /\ measure_requests' = [measure_requests EXCEPT ![job] = NoInstrument]
    /\ wpc' = "pending" /\ job' = NoProgram
    /\ UNCHANGED <<host, audio, player_lock, to_worker, sem, quit, ghosts>>

\* Or it is given up, and what was reserved is never finished.
GiveUpMeasurement ==
    /\ wpc = "measure" /\ quit
    /\ wpc' = "stopped" /\ job' = NoProgram
    /\ UNCHANGED <<host, audio, player_lock, to_worker, from_worker, sem, quit>>
    /\ UNCHANGED <<measure_requests, ghosts>>

-----------------------------------------------------------------------------
Host  == Start \/ AskToQuit \/ PostQuit \/ Join \/ HoldPlayer \/ ReleasePlayer
Audio == \/ BeginBlock \/ TakeResult \/ NoMoreResults \/ PostJob \/ EndBlock
         \/ \E m \in Jobs : SendJob(m)
Run   == \/ TakeToken \/ CheckQuit \/ ReceiveRequest
         \/ LockPlayer \/ UnlockPlayer \/ FinishSetup
         \/ NothingPending \/ NothingToMeasure \/ NoRoom
         \/ BeginMeasurement \/ FinishMeasurement \/ GiveUpMeasurement
Next  == Host \/ Audio \/ Run

Spec == Init /\ [][Next]_vars

\* The threads go on; the host lets go of what it holds and joins when it can,
\* but need not stop the worker nor start it; a block that has begun ends.  The
\* audio thread and the worker each get the player lock in the end although
\* others take it in between.
Fairness ==
    /\ WF_vars(PostQuit) /\ WF_vars(Join) /\ WF_vars(ReleasePlayer)
    /\ SF_vars(BeginBlock) /\ WF_vars(TakeResult) /\ WF_vars(NoMoreResults)
    /\ WF_vars(PostJob) /\ WF_vars(EndBlock)
    /\ WF_vars(Run) /\ SF_vars(LockPlayer)

FairSpec == Spec /\ Fairness

-----------------------------------------------------------------------------
HostStates   == {"stopped", "running", "holding", "quitting", "joining"}
AudioStates  == {"idle", "reading", "sending", "sent"}
WorkerStates == {"stopped", "wait", "woken", "receive", "setup", "finish",
                 "pending", "measuring", "measure"}

\* The types of the queues, of the requests and of where the threads are, with
\* the room the queues have.
TypeOK ==
    /\ host \in HostStates /\ audio \in AudioStates /\ wpc \in WorkerStates
    /\ player_lock \in {"free", "host", "audio", "worker"}
    /\ to_worker \in Seq(Jobs) /\ Len(to_worker) <= MaxToWorker
    /\ from_worker \in Seq(Results) /\ Len(from_worker) <= MaxFromWorker
    /\ sem \in Nat /\ quit \in BOOLEAN
    /\ job \in Programs \cup {NoProgram}
    /\ measure_requests \in [Programs -> Instruments \cup {NoInstrument}]
    /\ asked \in [Programs -> Instruments \cup {NoInstrument}]
    /\ answered \in [Programs -> Instruments \cup {NoInstrument}]
    /\ wpc = "measure" => /\ job \in Programs /\ measure_requests[job] # NoInstrument
                        /\ Len(from_worker) < MaxFromWorker

\* receive_one asserts that there is a message: a worker that was woken and not
\* told to quit finds one, however sending, posting and stopping interleave.
AnnouncedIsThere ==
    wpc \in {"receive", "setup", "finish"} => to_worker # <<>>

\* Of the two who may hold the player for a while and the audio thread, at most
\* one does; the host never waits for the worker to end while it holds the
\* player, nor does it while a block is processed.
PlayerHasOneHolder ==
    /\ (player_lock = "host") <=> (host = "holding")
    /\ (player_lock = "audio") <=> (audio # "idle")
    /\ (player_lock = "worker") <=> (wpc = "setup")
    /\ host \in {"stopped", "quitting", "joining"} => audio = "idle"

\* i is the instrument of the last of a queue that is about program p.
About(m, p) == m # Setup /\ m.program = p
NoneAbout(q, p) == \A k \in DOMAIN q : ~About(q[k], p)
IsLast(q, p, i) ==
    \E k \in DOMAIN q : /\ About(q[k], p) /\ q[k].ins = i
                        /\ \A l \in DOMAIN q : l > k => ~About(q[l], p)

\* i is the newest that is known of program p on its way through the worker: in
\* the messages, in the requests, in the results or at its end.
IsNewest(p, i) ==
    \/ IsLast(to_worker, p, i)
    \/ /\ NoneAbout(to_worker, p)
       /\ \/ measure_requests[p] = i /\ i # NoInstrument
          \/ measure_requests[p] = NoInstrument /\ IsLast(from_worker, p, i)
          \/ /\ measure_requests[p] = NoInstrument /\ NoneAbout(from_worker, p)
             /\ answered[p] = i

\* No request is lost and none overtakes a later one: what a program was asked
\* for last is still on its way or was the last to be answered, although the
\* worker measures the programs in an order of its own, replaces a request by a
\* later one and takes new ones between two measurements.
LastRequestIsKept == \A p \in Programs : IsNewest(p, asked[p])

-----------------------------------------------------------------------------
\* stop_worker returns: no full queue, no measurement and no wait for the player
\* keeps the worker from ending when it is told to (run, and the quit that
\* ComputeDurations looks at).
StopReturns == (host = "joining") ~> (host = "stopped")

\* Once no more jobs come and the worker is not stopped, everything asked for is
\* measured and answered; none waits for the next message to arrive (run).
Quiet == host \in {"running", "holding"} /\ audio # "sent"
AllIsAnswered == <>[]Quiet => <>[](answered = asked)

-----------------------------------------------------------------------------
(* Why a worker that is woken finds a message: the semaphore counts them.  *)

Taken == IF wpc \in {"woken", "receive", "setup", "finish"} THEN 1 ELSE 0
Unposted == IF audio = "sent" THEN 1 ELSE 0
QuitPosted == IF host = "joining" THEN 1 ELSE 0

TokensAreMessages ==
    /\ wpc # "stopped" => sem + Taken = Len(to_worker) - Unposted + QuitPosted
    /\ host = "stopped" => sem = 0 /\ to_worker = <<>> /\ ~quit

\* A worker that passed the check has not taken the token that was posted to
\* stop it.
QuitTokenWaits ==
    host = "joining" /\ wpc \in {"receive", "setup", "finish"} => sem > 0

\* The message that is being handled stays the first one until it is finished.
SetupStaysFirst ==
    wpc \in {"setup", "finish"} => to_worker # <<>> /\ Head(to_worker) = Setup

QuitIsToldBefore == (host \in {"quitting", "joining"}) => quit

WorkerRuns == (host \in {"running", "holding"}) => (wpc # "stopped" /\ ~quit)

IInv ==
    /\ TypeOK
    /\ PlayerHasOneHolder
    /\ QuitIsToldBefore
    /\ WorkerRuns
    /\ TokensAreMessages
    /\ QuitTokenWaits
    /\ SetupStaysFirst
=============================================================================
