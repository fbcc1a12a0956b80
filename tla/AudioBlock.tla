------------------------------ MODULE AudioBlock ------------------------------
(***************************************************************************)
(* A block of audio (sources/plugin_processor.cc): the pieces a host's     *)
(* block is made in, the segments of a piece, the MIDI events each segment *)
(* plays, and the notes the editor is shown.  Another thread may hold the  *)
(* player while a piece begins, and then the piece is silence.             *)
(*                                                                         *)
(* One MIDI channel is modelled, and of its messages those that the notes  *)
(* go by.                                                                  *)
(***************************************************************************)
EXTENDS Integers, Sequences, FiniteSets, FiniteSetsExt

CONSTANTS Keys,       \* the keys played
          Kinds,      \* the kinds of message: on, off, allOff, sysex, other
          Interval,   \* midi_interval_max, even
          Sizes,      \* block sizes a host prepares the plugin with, 0 for none
          Lengths,    \* lengths of the blocks it then asks for
          Times,      \* times of the events in a block
          MaxEvents,  \* events in a block
          MaxQueued   \* MIDI messages of the editor that wait

ASSUME AudioAssumption ==
    /\ Kinds \subseteq {"on", "off", "allOff", "sysex", "other"}
    /\ Interval \in Nat \ {0} /\ Interval % 2 = 0
    /\ Sizes \subseteq Nat /\ Lengths \subseteq Nat /\ Times \subseteq Nat
    /\ MaxEvents \in Nat /\ MaxQueued \in Nat

VARIABLES
    size,       \* the size of rendered_
    frames,     \* nframes of the host's block
    piece,      \* the size of its pieces
    first_frame, \* where the piece begins
    iframe,     \* where its segment begins
    where,      \* where in the block the audio thread is
    holder,     \* who holds player_lock_
    events,     \* the block's events that were not read yet: records of time, kind, key
    fromUi,     \* mq_from_ui_: MIDI messages of the editor's keyboard
    active,     \* midi_channel_note_active_
    count,      \* midi_channel_note_count_
    written,    \* frames of the block that were written
    missed,     \* whether a piece of the block was silence: "no", "before", "last"
    mistimed    \* whether an event was played too far from its time

audioVars == <<size, frames, piece, first_frame, iframe, where, holder, events, fromUi,
               active, count, written, missed, mistimed>>

Least(a, b) == IF a < b THEN a ELSE b

Messages == [kind : Kinds, key : Keys]

(***************************************************************************)
(* handle_midi(): the notes.  A message of the system that the library     *)
(* acted on may have stopped every note.                                   *)
(***************************************************************************)
Notes == [active |-> active, count |-> count]

\* Wrong, to try the checks: a key that is on counts again.
NoteOnCounted(n, m) == [active |-> n.active \cup {m.key}, count |-> n.count + 1]
NoteOn(n, m) ==
    [active |-> n.active \cup {m.key},
     count |-> IF m.key \in n.active THEN n.count ELSE n.count + 1]

NoteOff(n, m) ==
    [active |-> n.active \ {m.key},
     count |-> IF m.key \in n.active THEN n.count - 1 ELSE n.count]

Handled(n, m) ==
    CASE m.kind = "on" -> NoteOn(n, m)
      [] m.kind = "off" -> NoteOff(n, m)
      [] m.kind \in {"allOff", "sysex"} -> [active |-> {}, count |-> 0]
      [] OTHER -> n

AllHandled(n, messages) ==
    LET after[k \in 0 .. Len(messages)] ==
            IF k = 0 THEN n ELSE Handled(after[k - 1], messages[k])
    IN  after[Len(messages)]

(***************************************************************************)
(* prepareToPlay(), while no block is played.                              *)
(***************************************************************************)
AudioInit ==
    /\ size \in Sizes
    /\ frames = 0 /\ piece = 0 /\ first_frame = 0 /\ iframe = 0 /\ where = "idle"
    /\ holder = "none" /\ events = <<>> /\ fromUi = <<>>
    /\ active = {} /\ count = 0
    /\ written = 0 /\ missed = "no" /\ mistimed = FALSE

PrepareToPlay(s) ==
    /\ where = "idle" /\ holder = "none"
    /\ size' = s
    /\ fromUi' = <<>> /\ active' = {} /\ count' = 0
    /\ UNCHANGED <<frames, piece, first_frame, iframe, where, holder, events,
                   written, missed, mistimed>>

(***************************************************************************)
(* process_block(): a host with binary64 samples has its own buffer        *)
(* written to, in one piece; the others get their block in pieces of the   *)
(* prepared size, and silence where that is none.                          *)
(***************************************************************************)
Blocks == UNION {[1..k -> [time : Times, kind : Kinds, key : Keys]] : k \in 0..MaxEvents}

InOrder(es) == \A i \in 1..(Len(es) - 1) : es[i].time <= es[i + 1].time

StartBlock(n, es, wide) ==
    /\ where = "idle"
    /\ InOrder(es) /\ \A i \in DOMAIN es : es[i].time < n
    /\ frames' = n /\ events' = es
    /\ piece' = IF wide THEN n ELSE size
    /\ first_frame' = 0 /\ missed' = "no"
    /\ where' = IF (wide \/ n > 0) /\ (wide \/ size > 0) THEN "piece" ELSE "ended"
    /\ written' = IF ~wide /\ size = 0 THEN n ELSE 0
    /\ UNCHANGED <<size, iframe, holder, fromUi, active, count, mistimed>>

\* process_block_bypassed(): the messages alone, and the host's events dropped.
Bypassed ==
    /\ where = "idle"
    /\ LET n == IF holder = "none" THEN AllHandled(Notes, fromUi) ELSE Notes
       IN  active' = n.active /\ count' = n.count
    /\ fromUi' = IF holder = "none" THEN <<>> ELSE fromUi
    /\ UNCHANGED <<size, frames, piece, first_frame, iframe, where, holder, events,
                   written, missed, mistimed>>

(***************************************************************************)
(* process(): a piece, silent when the player cannot be had.               *)
(***************************************************************************)
\* Wrong, to try the checks: the last piece is as long as the others.
WholePiece == piece
PieceFrames == Least(piece, frames - first_frame)

EndOfPiece(now) ==
    /\ first_frame' = first_frame + piece
    /\ where' = IF first_frame + piece < frames THEN "piece" ELSE "ended"
    /\ written' = first_frame + now

SilentPiece ==
    /\ where = "piece" /\ holder = "other"
    /\ EndOfPiece(PieceFrames)
    /\ missed' = "last"
    /\ UNCHANGED <<size, frames, piece, iframe, holder, events, fromUi, active, count, mistimed>>

StartPiece ==
    /\ where = "piece" /\ holder = "none"
    /\ holder' = "audio"
    /\ where' = "segment" /\ iframe' = 0
    /\ LET n == AllHandled(Notes, fromUi)
       IN  active' = n.active /\ count' = n.count
    /\ fromUi' = <<>> /\ missed' = IF missed = "no" THEN "no" ELSE "before"
    /\ UNCHANGED <<size, frames, piece, first_frame, events, written, mistimed>>

\* The segment from iframe on, and where it is in the host's block.
SegmentFrames == Least(PieceFrames - iframe, Interval)
Position == first_frame + iframe
FinalSegment == first_frame + iframe + SegmentFrames = frames

PlaysNow(e) ==
    FinalSegment \/ e.time < Position \/ e.time - Position < Interval \div 2

\* The events read in this segment: those up to the first that is to wait.
Reads ==
    LET waits == {i \in DOMAIN events : ~PlaysNow(events[i])}
    IN  IF waits = {} THEN Len(events) ELSE Min(waits) - 1

\* An event is played less than a whole interval early and half of one late.
FarFrom(e) ==
    LET now == first_frame + iframe
    IN  e.time - now >= Interval \/ now - e.time > Interval \div 2

Segment ==
    /\ where = "segment" /\ iframe < PieceFrames
    /\ LET now == SubSeq(events, 1, Reads)
           n == AllHandled(Notes, [i \in DOMAIN now |-> [kind |-> now[i].kind, key |-> now[i].key]])
       IN  /\ active' = n.active /\ count' = n.count
           /\ mistimed' = (mistimed \/ (missed = "no" /\ \E i \in DOMAIN now : FarFrom(now[i])))
    /\ events' = SubSeq(events, Reads + 1, Len(events))
    /\ iframe' = iframe + SegmentFrames
    /\ written' = first_frame + iframe + SegmentFrames
    /\ UNCHANGED <<size, frames, piece, first_frame, where, holder, fromUi, missed>>

EndPiece ==
    /\ where = "segment" /\ iframe = PieceFrames
    /\ holder' = "none"
    /\ EndOfPiece(iframe)
    /\ UNCHANGED <<size, frames, piece, iframe, events, fromUi, active, count, missed, mistimed>>

BlockEnds ==
    /\ where = "ended"
    /\ where' = "idle" /\ events' = <<>>
    /\ frames' = 0 /\ piece' = 0 /\ first_frame' = 0 /\ iframe' = 0 /\ written' = 0
    /\ UNCHANGED <<size, holder, fromUi, active, count, missed, mistimed>>

(***************************************************************************)
(* The worker or a thread of the host, and the editor's keyboard.          *)
(***************************************************************************)
TakePlayer ==
    /\ holder = "none" /\ holder' = "other"
    /\ UNCHANGED <<size, frames, piece, first_frame, iframe, where, events, fromUi, active, count,
                   written, missed, mistimed>>

LeavePlayer ==
    /\ holder = "other" /\ holder' = "none"
    /\ UNCHANGED <<size, frames, piece, first_frame, iframe, where, events, fromUi, active, count,
                   written, missed, mistimed>>

EditorPlays(m) ==
    /\ Len(fromUi) < MaxQueued
    /\ fromUi' = Append(fromUi, m)
    /\ UNCHANGED <<size, frames, piece, first_frame, iframe, where, holder, events, active, count,
                   written, missed, mistimed>>

AudioNext ==
    \/ \E s \in Sizes : PrepareToPlay(s)
    \/ \E n \in Lengths, es \in Blocks, wide \in BOOLEAN : StartBlock(n, es, wide)
    \/ Bypassed
    \/ SilentPiece
    \/ StartPiece
    \/ Segment
    \/ EndPiece
    \/ BlockEnds
    \/ TakePlayer
    \/ LeavePlayer
    \/ \E m \in Messages : EditorPlays(m)

AudioSpec == AudioInit /\ [][AudioNext]_audioVars

(***************************************************************************)
(* Properties.                                                             *)
(***************************************************************************)
\* "The count a channel keeps must be the number of notes it holds"
\* (fuzz/host.cc:102): of any sequence of notes on and off, repeated or
\* unpaired, from the host and from the editor's keyboard, and of resets.
CountIsNotesHeld == count = Cardinality(active)

\* When a block ends every frame of it has been written and none past its end,
\* whatever its length is against the one prepared; and its events have all been
\* played, but for those of a last piece that found the player taken.
BlockIsPlayed ==
    /\ written <= frames
    /\ where = "ended" => written = frames
    /\ (where = "ended" /\ frames > 0 /\ missed # "last" /\ piece > 0) => events = <<>>

\* An event is played within half an interval after its time and less than one
\* before it, where the pieces of a block and their segments meet too, unless a
\* piece before found the player taken.
EventsOnTime == ~mistimed

\* A block of any length comes out whole, and with its events where they belong.
BlockIsRendered == BlockIsPlayed /\ EventsOnTime
=============================================================================
