----------------------------- MODULE SimpleFifo -----------------------------
(***************************************************************************)
(* The queue of messages between two threads (src/sources/messages.cc over *)
(* src/sources/utility/simple_fifo.cc): one thread reserves a message,     *)
(* fills it and publishes it, the other reads it where it lies.  The       *)
(* indices are those of juce::AbstractFifo, which is a library; the buffer *)
(* is twice as long as the queue, and a message that is finished is copied *)
(* into the other half, so that whoever reads it finds it in one piece.    *)
(*                                                                         *)
(* Each step is what a thread does between two accesses to an index that   *)
(* the other thread may change.  A cell of the buffer holds the number of  *)
(* a byte of a message rather than the byte.  pending is a ghost: what was *)
(* published and is not finished, each with its distance from the start.   *)
(***************************************************************************)
EXTENDS Integers, Sequences

CONSTANTS
    Capacity,    \* of the queue, in bytes
    HeaderSize,  \* sizeof(Message_Header)
    Messages,    \* what is sent
    SizeOf,      \* the size of the body of each
    NoMessage,
    Word         \* the numbers of an unsigned int are those below it

ASSUME FifoAssumption ==
    /\ Capacity \in Nat \ {0}
    /\ HeaderSize \in Nat \ {0}
    /\ Word \in Nat /\ HeaderSize < Word /\ Capacity < Word
    /\ SizeOf \in [Messages -> 0 .. Word - 1]
    /\ NoMessage \notin Messages

VARIABLES
    buffer,               \* buffer_, both halves
    validStart, validEnd, \* of the AbstractFifo
    wstep, wmsg,            \* where the writing thread is, and with what
    rpc, rmsg,            \* where the reading thread is, and the header it read
    pending               \* ghost

fifo_vars == <<buffer, validStart, validEnd, wstep, wmsg, rpc, rmsg, pending>>

Positions == 0 .. 2 * Capacity - 1
Half == 0 .. Capacity - 1

FifoInit ==
    /\ buffer = [i \in Positions |-> <<NoMessage, 0>>]
    /\ validStart = 0 /\ validEnd = 0
    /\ wstep = "idle" /\ wmsg = NoMessage
    /\ rpc = "idle" /\ rmsg = NoMessage
    /\ pending = <<>>

-----------------------------------------------------------------------------
(* juce::AbstractFifo.                                                     *)

NumReady == IF validEnd >= validStart THEN validEnd - validStart
                                      ELSE Capacity - (validStart - validEnd)
FreeSpace == Capacity - NumReady

\* prepareToWrite and prepareToRead give all of what is asked for.  One byte
\* stays free, so that a full queue is not an empty one.
CanWrite(n) == n = 0 \/ n <= FreeSpace - 1
CanRead(n)  == n = 0 \/ n <= NumReady

\* finishedWrite and finishedRead, for an index.
Moved(index, n) == IF index + n >= Capacity THEN index + n - Capacity ELSE index + n

-----------------------------------------------------------------------------
(* Simple_Fifo::write and read: memory for length bytes at the offset.     *)

Sum(offset, length) == (offset + length) % Word

InRange(offset, length) == offset <= Capacity /\ length <= Capacity - offset

\* Wrong, to try the checks: the offset of a body is not part of what is reserved.
RoomForTheBody(offset, length) == InRange(offset, length) /\ CanWrite(length)

Room(offset, length)  == InRange(offset, length) /\ CanWrite(Sum(offset, length))
Ready(offset, length) == InRange(offset, length) /\ CanRead(Sum(offset, length))

LengthOf == [m \in Messages |-> Sum(HeaderSize, SizeOf[m])]

\* n bytes of message m, from its byte k on, put at position p of the buffer.
Filled(p, m, k, n) ==
    [i \in Positions |-> IF p <= i /\ i < p + n THEN <<m, k + (i - p)>> ELSE buffer[i]]

\* n bytes of the buffer copied from position p to position q.
Copied(p, q, n) ==
    [i \in Positions |-> IF q <= i /\ i < q + n THEN buffer[p + (i - q)] ELSE buffer[i]]

-----------------------------------------------------------------------------
(* The thread that writes.                                                 *)

WriteHeader(m) ==
    /\ wstep = "idle"
    /\ Room(0, HeaderSize)
    /\ buffer' = Filled(validEnd, m, 0, HeaderSize)
    /\ wstep' = "header" /\ wmsg' = m
    /\ UNCHANGED <<validStart, validEnd, rpc, rmsg, pending>>

\* The header stays where it is when there is no room for the body.
ReserveBody ==
    /\ wstep = "header"
    /\ wstep' = IF Room(HeaderSize, SizeOf[wmsg]) THEN "reserved" ELSE "idle"
    /\ UNCHANGED <<buffer, validStart, validEnd, wmsg, rpc, rmsg, pending>>

SetBody ==
    /\ wstep = "reserved"
    /\ buffer' = Filled(validEnd + HeaderSize, wmsg, HeaderSize, SizeOf[wmsg])
    /\ wstep' = "filled"
    /\ UNCHANGED <<validStart, validEnd, wmsg, rpc, rmsg, pending>>

\* The worker reserves its result before it measures, and may give that up.
GiveUp ==
    /\ wstep = "reserved"
    /\ wstep' = "idle"
    /\ UNCHANGED <<buffer, validStart, validEnd, wmsg, rpc, rmsg, pending>>

InFirstHalf ==
    LET length == LengthOf[wmsg]
    IN  IF length <= Capacity - validEnd THEN length ELSE Capacity - validEnd

\* finish_write copies what lies in the first half into the second ...
MirrorUp ==
    /\ wstep = "filled"
    /\ buffer' = Copied(validEnd, validEnd + Capacity, InFirstHalf)
    /\ wstep' = "mirrored up"
    /\ UNCHANGED <<validStart, validEnd, wmsg, rpc, rmsg, pending>>

\* Wrong, to try the checks: the beginning is copied over what runs past the half.
MirrorTheOtherWay ==
    /\ wstep = "mirrored up"
    /\ buffer' = Copied(0, Capacity, LengthOf[wmsg] - InFirstHalf)
    /\ wstep' = "mirrored"
    /\ UNCHANGED <<validStart, validEnd, wmsg, rpc, rmsg, pending>>

\* ... and what runs past the first half to its beginning ...
MirrorDown ==
    /\ wstep = "mirrored up"
    /\ buffer' = Copied(Capacity, 0, LengthOf[wmsg] - InFirstHalf)
    /\ wstep' = "mirrored"
    /\ UNCHANGED <<validStart, validEnd, wmsg, rpc, rmsg, pending>>

\* ... and publishes it.
Publish ==
    /\ wstep = "mirrored"
    /\ validEnd' = Moved(validEnd, LengthOf[wmsg])
    /\ pending' = Append(pending, [msg |-> wmsg, off |-> NumReady])
    /\ wstep' = "idle"
    /\ UNCHANGED <<buffer, validStart, wmsg, rpc, rmsg>>

-----------------------------------------------------------------------------
(* The thread that reads.                                                  *)

ReadHeader ==
    /\ rpc = "idle"
    /\ Ready(0, HeaderSize)
    /\ rmsg' = buffer[validStart][1]
    /\ rpc' = "header"
    /\ UNCHANGED <<buffer, validStart, validEnd, wstep, wmsg, pending>>

ReadBody ==
    /\ rpc = "header"
    /\ rpc' = IF Ready(HeaderSize, SizeOf[rmsg]) THEN "reading" ELSE "idle"
    /\ UNCHANGED <<buffer, validStart, validEnd, wstep, wmsg, rmsg, pending>>

\* A message that cannot be handled yet is left to be read again
\* (AdlplugAudioProcessor::process_messages).
Leave ==
    /\ rpc = "reading"
    /\ rpc' = "idle"
    /\ UNCHANGED <<buffer, validStart, validEnd, wstep, wmsg, rmsg, pending>>

\* Wrong, to try the checks: the header stays.
FinishBody ==
    /\ rpc = "reading"
    /\ validStart' = Moved(validStart, SizeOf[rmsg])
    /\ pending' = [k \in 1 .. Len(pending) - 1 |->
                      [pending[k + 1] EXCEPT !.off = @ - SizeOf[rmsg]]]
    /\ rpc' = "idle"
    /\ UNCHANGED <<buffer, validEnd, wstep, wmsg, rmsg>>

FinishRead ==
    /\ rpc = "reading"
    /\ validStart' = Moved(validStart, LengthOf[rmsg])
    /\ pending' = [k \in 1 .. Len(pending) - 1 |->
                      [pending[k + 1] EXCEPT !.off = @ - LengthOf[rmsg]]]
    /\ rpc' = "idle"
    /\ UNCHANGED <<buffer, validEnd, wstep, wmsg, rmsg>>

-----------------------------------------------------------------------------
Write == \/ \E m \in Messages : WriteHeader(m)
         \/ ReserveBody \/ SetBody \/ GiveUp \/ MirrorUp \/ MirrorDown \/ Publish
Read  == ReadHeader \/ ReadBody \/ Leave \/ FinishRead
FifoNext  == Write \/ Read

FifoSpec == FifoInit /\ [][FifoNext]_fifo_vars

-----------------------------------------------------------------------------
WriterStates == {"idle", "header", "reserved", "filled", "mirrored up", "mirrored"}
ReaderStates == {"idle", "header", "reading"}

\* The types of the buffer, of the indices and of where the two threads are.
FifoTypeOK ==
    /\ buffer \in [Positions -> (Messages \cup {NoMessage}) \X Nat]
    /\ validStart \in Half /\ validEnd \in Half
    /\ wstep \in WriterStates /\ wmsg \in Messages \cup {NoMessage}
    /\ rpc \in ReaderStates /\ rmsg \in Messages \cup {NoMessage}
    /\ wstep # "idle" => wmsg \in Messages
    /\ rpc # "idle" => rmsg \in Messages
    /\ pending \in Seq([msg : Messages, off : 0 .. Capacity])

\* From its header on, whoever reads has the oldest message that was sent, all of
\* it and in one piece, wherever in the ring it lies, while the other thread
\* reserves, fills, mirrors or gives up whatever it likes; and a header that is
\* there never lacks its body (Messages::read, and the double buffer of
\* Simple_Fifo).
MessageInOnePiece ==
    rpc # "idle" =>
        /\ pending # <<>> /\ rmsg = Head(pending).msg
        /\ LengthOf[rmsg] <= NumReady
        /\ \A d \in 0 .. LengthOf[rmsg] - 1 : buffer[validStart + d] = <<rmsg, d>>

\* finish_write asserts that what was reserved is still free: no reader, and no
\* reservation of this thread's own, takes it in between.
ReservedIsFree ==
    wstep \in {"reserved", "filled", "mirrored up", "mirrored"} =>
        CanWrite(LengthOf[wmsg])

-----------------------------------------------------------------------------
(* Why it holds: what lies in the ring.                                    *)

\* How far position i of either half lies behind an index of the ring.
Behind(i, index) ==
    IF i >= index + Capacity THEN i - index - Capacity
    ELSE IF i >= index THEN i - index
    ELSE i - index + Capacity

\* What is pending fits, and lies end to end from validStart to validEnd.
PendingFillsTheRing ==
    /\ pending = <<>> => NumReady = 0
    /\ pending # <<>> => /\ pending[1].off = 0
                        /\ LET last == pending[Len(pending)]
                           IN  last.off + LengthOf[last.msg] = NumReady
    /\ \A k \in DOMAIN pending :
          /\ InRange(HeaderSize, SizeOf[pending[k].msg])
          /\ pending[k].off + LengthOf[pending[k].msg] <= NumReady
          /\ k > 1 => pending[k].off = pending[k - 1].off + LengthOf[pending[k - 1].msg]
    /\ \A j, k \in DOMAIN pending :
          j < k => pending[j].off + LengthOf[pending[j].msg] <= pending[k].off

\* Both halves hold what is pending.
BothHalvesHold ==
    \A k \in DOMAIN pending, i \in Positions :
        LET d == Behind(i, validStart) - pending[k].off
        IN  0 <= d /\ d < LengthOf[pending[k].msg] => buffer[i] = <<pending[k].msg, d>>

ReaderIsAtTheHead == rpc # "idle" => pending # <<>> /\ rmsg = pending[1].msg

\* The first n bytes of the message being written are in place.
Written(n) == \A i \in Positions : validEnd <= i /\ i < validEnd + n =>
                                      buffer[i] = <<wmsg, i - validEnd>>

\* Those of them that lie in the first half are in the second too.
WrittenUp == \A i \in Positions :
                 validEnd + Capacity <= i /\ i < validEnd + Capacity + InFirstHalf =>
                     buffer[i] = <<wmsg, i - validEnd - Capacity>>

WriterIsOnItsWay ==
    /\ wstep # "idle" => CanWrite(HeaderSize) /\ Written(HeaderSize)
    /\ wstep \notin {"idle", "header"} =>
          InRange(HeaderSize, SizeOf[wmsg]) /\ CanWrite(LengthOf[wmsg])
    /\ wstep \in {"filled", "mirrored up", "mirrored"} => Written(LengthOf[wmsg])
    /\ wstep \in {"mirrored up", "mirrored"} => WrittenUp
    /\ wstep = "mirrored" =>
          \A i \in Positions : Behind(i, validEnd) < LengthOf[wmsg] =>
                                  buffer[i] = <<wmsg, Behind(i, validEnd)>>

\* The inductive invariant.
FifoIInv ==
    /\ FifoTypeOK
    /\ PendingFillsTheRing
    /\ BothHalvesHold
    /\ ReaderIsAtTheHead
    /\ WriterIsOnItsWay

-----------------------------------------------------------------------------
\* The bytes make a queue of messages: sent whole, received once, in the order
\* they were sent in, and never more than fits.
Contents == [k \in DOMAIN pending |-> pending[k].msg]
InHand == IF rpc = "reading" THEN rmsg ELSE NoMessage

Queue == INSTANCE MessageQueue WITH
    queue <- Contents, used <- NumReady, inHand <- InHand

QueueSpec == Queue!Spec
=============================================================================
