---------------------------- MODULE ChipResampler ----------------------------
(***************************************************************************)
(* The bookkeeping of Chip_Resampler (sources/utility/chip_resampler.h):   *)
(* a host asks for exactly so many frames, the filter turns so many of the *)
(* chip's into as many as it can, and what it made too many of waits for   *)
(* the next call.  Frames are told by their number in the stream.          *)
(*                                                                         *)
(* The filter itself, MediaPerch's cascade, is external: it makes up       *)
(* frames for each down of the chip's, the first after a delay of its own, *)
(* and no more than max_output() in a call.                                *)
(***************************************************************************)
EXTENDS Integers

CONSTANTS Ratios,     \* the reduced ratios of the rates, records of up and down
          MaxFrames,  \* max_frames of prepare(), the longest call
          Delays      \* the chip's frames a filter takes before its first frame

ASSUME ResamplerAssumption ==
    /\ Ratios \subseteq [up : Nat \ {0}, down : Nat \ {0}]
    /\ MaxFrames \in Nat \ {0} /\ Delays \subseteq Nat

VARIABLES
    ratio,      \* up() and down() of the cascade, or Unprepared
    credit,     \* external: what the chip's frames so far leave, in 1/down frames
    heldCount, heldAt, \* held_count_, held_at_
    heldFrom,   \* the number of the first frame in held_
    asked, done, \* frames and done of the call, asked 0 outside of one
    made,       \* frames the filter made since it was prepared
    given,      \* frames the host was given
    jumped      \* whether a frame was given out of its turn

resamplerVars ==
    <<ratio, credit, heldCount, heldAt, heldFrom, asked, done, made, given, jumped>>

Unprepared == [up |-> 0, down |-> 0]
Active == ratio # Unprepared

Ceiling(n, d) == (n + d - 1) \div d
Lesser(a, b) == IF a < b THEN a ELSE b

\* max_in_: the chip's frames that the longest call takes, and two more.
MaxIn == Ceiling(MaxFrames * ratio.down, ratio.up) + 2

\* Wrong, to try the checks: the frames are rounded down, with none to spare.
ChipFramesBelow(frames) == (frames * ratio.down) \div ratio.up

\* chip_frames_for(): the frames it takes, with one spare.
ChipFramesFor(frames) == Ceiling(frames * ratio.down, ratio.up) + 1

\* External: what the cascade makes of n frames, and the most it may make.
Produced(n) == LET c == credit + n * ratio.up IN IF c < 0 THEN 0 ELSE c \div ratio.down
MaxOutput(n) == Ceiling(n * ratio.up, ratio.down) + 1

(***************************************************************************)
(* prepare() and unprepare(), where a player is made; Stream counts start  *)
(* again with the player.                                                  *)
(***************************************************************************)
Forgotten ==
    /\ heldCount' = 0 /\ heldAt' = 0 /\ heldFrom' = 0
    /\ made' = 0 /\ given' = 0 /\ asked' = 0 /\ done' = 0 /\ jumped' = FALSE

Prepare(r, delay) ==
    /\ asked = 0
    /\ ratio' = r /\ credit' = -(delay * r.up)
    /\ Forgotten

Unprepare ==
    /\ asked = 0 /\ Active
    /\ ratio' = Unprepared /\ credit' = 0
    /\ Forgotten

(***************************************************************************)
(* pull(): take_held(), then the filter as often as the call needs it.     *)
(* Without a filter the generator writes into the block itself.            *)
(***************************************************************************)
TakeFromHeld(use) ==
    /\ heldAt' = heldAt + use /\ heldCount' = heldCount - use
    /\ done' = use /\ given' = given + use
    /\ jumped' = (jumped \/ (use > 0 /\ heldFrom + heldAt # given))

TakeHeld(frames) == TakeFromHeld(Lesser(heldCount, frames))

Pull(frames) ==
    /\ Active /\ asked = 0
    /\ asked' = frames
    /\ TakeHeld(frames)
    /\ UNCHANGED <<ratio, credit, heldFrom, made>>

Want == Lesser(MaxIn, ChipFramesFor(asked - done))

\* Wrong, to try the checks: held_at_ stays where it was.
HoldRestFurther(use, produced) ==
    /\ heldCount' = produced - use /\ heldAt' = heldAt
    /\ heldFrom' = made + use

\* What is left over is held; what was held before is written over.
HoldRest(use, produced) ==
    /\ heldCount' = produced - use /\ heldAt' = 0
    /\ heldFrom' = made + use

Refill ==
    /\ asked > 0 /\ done < asked
    /\ LET produced == Produced(Want)
           use == Lesser(produced, asked - done)
       IN  /\ credit' = credit + Want * ratio.up - produced * ratio.down
           /\ HoldRest(use, produced)
           /\ made' = made + produced
           /\ done' = done + use /\ given' = given + use
           /\ jumped' = (jumped \/ (use > 0 /\ made # given))
    /\ UNCHANGED <<ratio, asked>>

\* The end of the call.  The count of the stream is kept small: what was made
\* and given alike is forgotten.
Return ==
    /\ asked > 0 /\ done = asked
    /\ asked' = 0 /\ done' = 0
    /\ made' = made - given /\ heldFrom' = heldFrom - given /\ given' = 0
    /\ UNCHANGED <<ratio, credit, heldCount, heldAt, jumped>>

ResamplerInit ==
    /\ ratio = Unprepared /\ credit = 0
    /\ heldCount = 0 /\ heldAt = 0 /\ heldFrom = 0
    /\ asked = 0 /\ done = 0 /\ made = 0 /\ given = 0 /\ jumped = FALSE

ResamplerNext ==
    \/ \E r \in Ratios, delay \in Delays : Prepare(r, delay)
    \/ Unprepare
    \/ \E frames \in 1..MaxFrames : Pull(frames)
    \/ Refill
    \/ Return

ResamplerFairness == WF_resamplerVars(Refill) /\ WF_resamplerVars(Return)
ResamplerSpec == ResamplerInit /\ [][ResamplerNext]_resamplerVars /\ ResamplerFairness

(***************************************************************************)
(* Properties.                                                             *)
(***************************************************************************)
\* The counts of the held frames and of the call stay in range: no call is given
\* more frames than it asked for.
ResamplerTypeOK ==
    /\ ratio \in Ratios \cup {Unprepared}
    /\ heldCount \in Nat /\ heldAt \in Nat /\ done \in 0..asked
    /\ asked \in 0..MaxFrames

\* What is held fits held_, which has room for the most the filter makes of a
\* whole call, and stays less than what three frames of the chip make: the
\* spare frame of each call does not pile up into a delay of the sound.
HeldIsBounded ==
    Active => /\ heldAt + heldCount <= MaxOutput(MaxIn)
              /\ heldCount <= Ceiling(3 * ratio.up, ratio.down)

\* Every frame the filter makes is given to the host once and in order, or is
\* held: none is lost or given twice, over calls of any length; and what is held
\* stays within its bounds.
FramesConserved ==
    /\ ~jumped
    /\ Active => made = given + heldCount
    /\ HeldIsBounded

\* What the filter is left with is less than a frame, and what the counts of the
\* held frames and of the call are to each other: a call that still wants frames
\* has taken all that was held, and what is held is the next the host is given.
CountsAgree ==
    /\ credit \in Int /\ heldFrom \in Int /\ made \in Int /\ given \in Int
    /\ Active => credit < ratio.down
    /\ ~Active => asked = 0
    /\ heldCount > 0 => heldFrom + heldAt = given
    /\ done < asked => heldCount = 0

ResamplerIInv == ResamplerTypeOK /\ CountsAgree /\ FramesConserved

\* A call comes to its end, also when the filter at first makes no frames: the
\* loop of pull() on the audio thread does not go on for ever.
PullReturns == []<>(asked = 0)
=============================================================================
