------------------------------ MODULE MCBanks ------------------------------
(* The bank manager with one of its clients, on a small instance: anyone   *)
(* who calls it, the editor that is told of changes, or the worker that    *)
(* measures programs.                                                      *)
EXTENDS EditorMirror, MeasurementLoop, TLC

CONSTANTS
    m1, p1, m2, v1, v2, n0, n1, bank1, bank2,
    Clients  \* those of this instance

VARIABLE client

all_vars == <<client, mirror_vars, loopQueues, lost>>

\* m1 and p1 are the two halves of one entry.
Numbers == (m1 :> bank1) @@ (p1 :> bank1) @@ (m2 :> bank2)
MelodicNumber == (m1 :> bank1)
Measured12 == (v1 :> 1) @@ (v2 :> 2)
NotMeasured == (v1 :> 0)
NoPlaces == {}
FirstPlace == {<<m1, 0>>}
Plain == [voice |-> v1, delays |-> 0, blank |-> FALSE]
BlankAndPlain == [bank : BankIds, program : Programs, instrument : {Plain, BlankInstrument}, name : {n0}]
OneNamedBank == [bank : {m1}, program : Programs, instrument : {Plain, BlankInstrument}, name : {n0}]

\* A bank file with one bank, its first program in use.
OneBank == <<m1>>
FirstProgramOnly ==
    [b \in BankIds |-> [p \in Programs |->
        IF b = m1 /\ p = 0 THEN Plain
        ELSE BlankInstrument]]

BanksInit ==
    /\ client \in Clients
    /\ MirrorInit
    /\ mq_to_worker = <<>> /\ mq_from_worker = <<>> /\ measure_requests = {}
    /\ lost = IF client = "worker" THEN Unmeasured ELSE Places

NoEditor == UNCHANGED <<mq_to_ui, instrument_map, silent>>
NoWorker == UNCHANGED <<loopQueues, lost>>

BanksNext ==
    /\ UNCHANGED client
    /\ \/ client = "anyone" /\ Next /\ NoEditor /\ NoWorker
       \/ client = "editor" /\ MirrorNext /\ NoWorker
       \/ client = "worker" /\ LoopNext /\ NoEditor

BanksSpec == BanksInit /\ [][BanksNext]_all_vars
=============================================================================
