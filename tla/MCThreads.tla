------------------------------ MODULE MCThreads ------------------------------
(* What lies between two threads, each by itself on a small instance: a    *)
(* queue, the worker, and the editor.  Which one it is stays what it was.  *)
EXTENDS SimpleFifo, Worker, MCControls

CONSTANTS short, long, huge, p1, p2, i1, i2

VARIABLE between

threadsVars == <<between, fifo_vars, vars, editorControlsVars>>

\* A body of one byte, one of two, and one whose length added to that of the
\* header is a small number again (simple_fifo_too_long).
Sizes == (short :> 1) @@ (long :> 2) @@ (huge :> Word - HeaderSize)

ThreadsInit ==
    /\ between \in {"queue", "worker", "editor"}
    /\ FifoInit /\ Init /\ ControlsInit

ThreadsNext ==
    /\ UNCHANGED between
    /\ \/ between = "queue" /\ FifoNext /\ UNCHANGED <<vars, editorControlsVars>>
       \/ between = "worker" /\ Next /\ UNCHANGED <<fifo_vars, editorControlsVars>>
       \/ between = "editor" /\ ControlsNext /\ UNCHANGED <<fifo_vars, vars>>

\* None of the actions of Fairness can be taken where the worker is not started.
ThreadsSpec == ThreadsInit /\ [][ThreadsNext]_threadsVars /\ Fairness
=============================================================================
