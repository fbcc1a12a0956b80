------------------------------ MODULE CoreShared ------------------------------
(***************************************************************************)
(* What slots of the OPL3 core share from pass to pass: the noise, and the *)
(* queue in which two slots keep their feedback (ymf262_logic.h, core.cc). *)
(***************************************************************************)
EXTENDS Integers, Sequences

CONSTANTS MaxPasses,  \* passes the model runs for
          MaxDrums    \* passes of them in which rhythm mode may be switched

ASSUME SharedAssumption == MaxPasses \in Nat /\ MaxDrums \in Nat

VARIABLES
    passes,     \* passes worked out since the reset
    noise,      \* noise_: the bits of it that are set
    hold,       \* hold_history_ of the low slot of the two, 13 or 14
    unheld,     \* passes in which it was not held since it was, 2 at the most
    stored,     \* shared_history_: the last four values stored, the last one first
    outputs     \* the last two values of the low slot and of the high one

sharedVars == <<passes, noise, hold, unheld, stored, outputs>>

(***************************************************************************)
(* noise_step() and noise_pass(), the 18 steps of a pass at once, on the   *)
(* set of the bits that are 1.                                             *)
(***************************************************************************)
NoiseStep(s) ==
    LET fed == (22 \in s) # (8 \in s) \/ s = {}
    IN  {i + 1 : i \in s \ {22}} \cup (IF fed THEN {0} ELSE {})

\* 2^k steps.
NoiseSteps[k \in 0..10] ==
    [s \in SUBSET (0..22) |->
       IF k = 0 THEN NoiseStep(s) ELSE NoiseSteps[k - 1][NoiseSteps[k - 1][s]]]

HighBits(s) == {i \in 9..17 : (i + 5 \in s) # (i - 9 \in s)}
\* Wrong, to try the checks: the low bits are fed by the old high ones.
OldLowBits(s) == {i \in 0..8 : (i + 5 \in s) # (i + 9 \in s)}
LowBitsOf(s) == {i \in 0..8 : (i + 5 \in s) # (i + 9 \in HighBits(s))}

NoisePass(s) == {i + 18 : i \in {j \in s : j < 5}} \cup HighBits(s) \cup LowBitsOf(s)

(***************************************************************************)
(* operators() and store_history() of slots m and m + 18, which keep their *)
(* last two values in one queue of four.  A drum does not store the low    *)
(* one's.  A value is the slot it is of and the pass, to tell four apart.  *)
(***************************************************************************)
Low(n) == <<"low", n % 4>>
High(n) == <<"high", n % 4>>

Store(q, v) == <<v>> \o SubSeq(q, 1, 3)
StoreBoth(q, n) ==
    Store(IF hold THEN q ELSE Store(q, Low(n)), High(n))

LowReads(q) == <<q[2], q[4]>>
HighReads(q, held) == IF held THEN <<q[2], q[4]>> ELSE <<q[1], q[3]>>

(***************************************************************************)
(* What reset() leaves, the noise 1784 steps on, and the end of generate(). *)
(***************************************************************************)
\* 1784 steps, from an empty register.
NoiseAfterReset ==
    NoiseSteps[3][NoiseSteps[4][NoiseSteps[5][NoiseSteps[6][
        NoiseSteps[7][NoiseSteps[9][NoiseSteps[10][{}]]]]]]]

SharedInit ==
    /\ passes = 0
    /\ noise = NoiseAfterReset
    /\ hold = FALSE /\ unheld = 2
    /\ stored = <<High(3), Low(3), High(2), Low(2)>>
    /\ outputs = [low |-> <<Low(3), Low(2)>>, high |-> <<High(3), High(2)>>]

\* A pass, its slots keyed as drums or not from then on.
SharedNext ==
    /\ passes < MaxPasses /\ passes' = passes + 1
    /\ noise' = NoisePass(noise)
    /\ stored' = StoreBoth(stored, passes)
    /\ outputs' = [low |-> <<Low(passes), outputs.low[1]>>,
                   high |-> <<High(passes), outputs.high[1]>>]
    /\ hold' \in (IF passes < MaxDrums THEN BOOLEAN ELSE {hold})
    /\ unheld' = IF hold THEN 0 ELSE IF unheld < 2 THEN unheld + 1 ELSE 2

SharedSpec == SharedInit /\ [][SharedNext]_sharedVars

(***************************************************************************)
(* Properties.                                                             *)
(***************************************************************************)
\* The 18 steps that noise_pass() takes at once are those of noise_step().
NoisePassIsItsSteps ==
    noise # {} /\ NoisePass(noise) = NoiseSteps[1][NoiseSteps[4][noise]]

\* Two passes after rhythm mode left the low slot to store its values again,
\* both slots of the shared queue read their own last two values for feedback.
FeedbackIsItsOwn ==
    (unheld = 2 /\ ~hold) => /\ LowReads(stored) = outputs.low
                             /\ HighReads(stored, hold) = outputs.high

\* What the slots share is as if each had its own: the shift register, stepped for all
\* 18 slots of a pass at once and never empty, and the queue of the two slots of rhythm mode.
SharedIsAsIfOwn == NoisePassIsItsSteps /\ FeedbackIsItsOwn
=============================================================================
