---------------------------- MODULE MessageQueue ----------------------------
(***************************************************************************)
(* What a message queue promises its two ends, whatever its bytes do: a    *)
(* message that is sent arrives whole, once and in order, and the queue    *)
(* holds fewer bytes than its capacity.                                    *)
(***************************************************************************)
EXTENDS Integers, Sequences

CONSTANTS
    Messages,   \* what can be sent
    NoMessage,  \* what the receiver looks at when it looks at none
    LengthOf,   \* the bytes a message takes, its header with it
    Capacity    \* of the queue, in bytes

VARIABLES
    queue,      \* sent, and not yet done with
    used,       \* the bytes it takes
    inHand      \* what the receiver looks at

vars == <<queue, used, inHand>>

Init == queue = <<>> /\ used = 0 /\ inHand = NoMessage

Send(m) ==
    /\ used + LengthOf[m] < Capacity
    /\ queue' = Append(queue, m)
    /\ used' = used + LengthOf[m]
    /\ UNCHANGED inHand

\* The receiver looks at the oldest message ...
Look ==
    /\ inHand = NoMessage /\ queue # <<>>
    /\ inHand' = Head(queue)
    /\ UNCHANGED <<queue, used>>

\* ... and is done with it, or leaves it for later.
Finish ==
    /\ inHand # NoMessage
    /\ inHand' = NoMessage
    /\ queue' = Tail(queue)
    /\ used' = used - LengthOf[inHand]

Leave ==
    /\ inHand # NoMessage
    /\ inHand' = NoMessage
    /\ UNCHANGED <<queue, used>>

Next == (\E m \in Messages : Send(m)) \/ Look \/ Finish \/ Leave

Spec == Init /\ [][Next]_vars
=============================================================================
