----------------------------- MODULE CoreEnvelope -----------------------------
(***************************************************************************)
(* The envelope of a slot of the OPL3 core, pass by pass, under the timer  *)
(* of the chip (sources/opl3/core/ymf262_logic.h), while a player keys the *)
(* slot and writes its rates.  A level is an attenuation: 0 is the loudest *)
(* and 511 silence, in nine bits.                                          *)
(***************************************************************************)
EXTENDS Integers

CONSTANTS Voices,     \* what the registers give: records of ar, dr, sl, rr, egt, ksr
          TimerBits,  \* the bits of eg_timer, 36 in the chip
          LowBits     \* its low bits, 13, among which the lowest set one is found

ASSUME EnvelopeAssumption ==
    /\ Voices \subseteq [ar : 0..15, dr : 0..15, sl : 0..15, rr : 0..15, egt : 0..1, ksr : 0..15]
    /\ TimerBits \in Nat /\ LowBits \in 1..13 /\ LowBits <= TimerBits

VARIABLES
    voice,      \* what the registers of the slot give, as the slot reads them
    key,        \* key_on_
    stage,      \* state_
    level,      \* level_
    timer       \* eg_timer, eg_second, eg_add, eg_timer_low, eg_carry

envelopeVars == <<voice, key, stage, level, timer>>

Silence == 511
Min2(a, b) == IF a < b THEN a ELSE b
Max2(a, b) == IF a < b THEN b ELSE a

(***************************************************************************)
(* Counters::advance(): the envelope's part.  The timer counts every other *)
(* pass, and in the pass after it came back to zero.                       *)
(***************************************************************************)
\* One more than the place of the timer's lowest set bit, 0 for none.
LowestBit(n) ==
    LET set == {i \in 0..(LowBits - 1) : (n \div 2^i) % 2 = 1}
    IN  IF set = {} THEN 0 ELSE 1 + CHOOSE i \in set : \A j \in set : i <= j

Advanced(t) ==
    LET read == IF t.second = 1 THEN [t EXCEPT !.add = LowestBit(t.count), !.low = t.count % 4]
                ELSE t
        wraps == t.count = 2^TimerBits - 1
        counted == IF t.carry = 1 \/ t.second = 1
                   THEN [read EXCEPT !.count = IF wraps THEN 0 ELSE @ + 1,
                                     !.carry = IF wraps THEN 1 ELSE 0]
                   ELSE read
    IN  [counted EXCEPT !.second = 1 - @]

(***************************************************************************)
(* The rates, and the step a rate gives in a pass.                         *)
(***************************************************************************)
RegisterRate(v, st) ==
    CASE st = "attack" -> v.ar
      [] st = "decay" -> v.dr
      [] st = "sustain" -> IF v.egt = 1 THEN 0 ELSE v.rr
      [] st = "release" -> v.rr

\* scaled_rate().
ScaledRate(v, st) == Min2(RegisterRate(v, st) + (v.ksr \div 4), 15)

\* high_step_from: from which low bits of the key scaling on the high step falls.
HighStepFrom(low) == <<1, 3, 2, 4>>[low + 1]

LowStep(v, rate, t) ==
    LET sum == (rate + t.add) % 16
    IN  /\ t.second = 1
        /\ \/ sum = 12
           \/ sum = 13 /\ (v.ksr \div 2) % 2 = 1
           \/ sum = 14 /\ v.ksr % 2 = 1

\* Wrong, to try the checks: only the rates from 12 on take steps.
StepFrom12(v, st, t) == Min2(Max2(ScaledRate(v, st) - 11, 0), 3)

\* 0 for no step, and 1, 2 and 3 for a quarter, a half and the whole of it.
Step(v, st, t) ==
    LET rate == ScaledRate(v, st)
        high == v.ksr % 4 >= HighStepFrom(t.low) \/ (rate = 12 /\ t.second = 1)
    IN  IF rate >= 12 THEN Min2(rate - 12 + (IF high THEN 1 ELSE 0), 3)
        ELSE IF RegisterRate(v, st) # 0 /\ LowStep(v, rate, t) THEN 1 ELSE 0

(***************************************************************************)
(* envelope(): the state and the level for the next pass.                  *)
(***************************************************************************)
SustainLevel(v) == IF v.sl = 15 THEN 31 ELSE v.sl
KeyedOn == stage = "release" /\ key = 1
Reached == level \div 16 = SustainLevel(voice)
Silent(l) == l >= 504
FullRate == ScaledRate(voice, IF KeyedOn THEN "attack" ELSE stage) = 15

NextStage ==
    CASE KeyedOn -> "attack"
      [] key = 0 -> "release"
      [] key = 1 /\ stage = "attack" /\ level = 0 -> "decay"
      [] key = 1 /\ stage = "decay" /\ Reached -> "sustain"
      [] OTHER -> stage

Linear ==
    /\ ~KeyedOn /\ ~Silent(level)
    /\ stage \in {"sustain", "release"} \/ (stage = "decay" /\ ~Reached)
Exponent == stage = "attack" /\ key = 1 /\ ~FullRate /\ level # 0

\* What an attack adds in nine bits: a part of the level's complement, below ones.
AttackAdd(l, step) ==
    (255 - (l \div 2)) \div 2^(3 - step) + 256 + <<192, 128, 0>>[step]

\* Wrong, to try the checks: the sum is not cut to the bits of the level.
AsAdded(n) == n
NineBits(n) == n % 512

NextLevel ==
    LET step == Step(voice, IF KeyedOn THEN "attack" ELSE stage, timer)
        from == CASE KeyedOn /\ FullRate -> 0
                  [] ~KeyedOn /\ stage # "attack" /\ Silent(level) -> Silence
                  [] OTHER -> level
        add == CASE step = 0 -> 0
                 [] step # 0 /\ Exponent -> AttackAdd(level, step)
                 [] step # 0 /\ ~Exponent /\ Linear -> 4 \div 2^(3 - step)
                 [] OTHER -> 0
    IN  NineBits(from + add)

(***************************************************************************)
(* A pass, and between passes the key and the rates a player writes.       *)
(***************************************************************************)
EnvelopeInit ==
    /\ voice \in Voices /\ key = 0
    /\ stage = "release" /\ level = Silence
    /\ timer = [count |-> 1, second |-> 0, add |-> 0, low |-> 0, carry |-> 0]

Pass ==
    /\ stage' = NextStage /\ level' = NextLevel
    /\ timer' = Advanced(timer)
    /\ UNCHANGED <<voice, key>>

Key ==
    /\ key' = 1 - key
    /\ UNCHANGED <<voice, stage, level, timer>>

WriteVoice(v) ==
    /\ v # voice /\ voice' = v
    /\ UNCHANGED <<key, stage, level, timer>>

EnvelopeNext == Pass \/ Key \/ \E v \in Voices : WriteVoice(v)

EnvelopeFairness == WF_envelopeVars(Pass)
EnvelopeSpec == EnvelopeInit /\ [][EnvelopeNext]_envelopeVars /\ EnvelopeFairness

(***************************************************************************)
(* Properties.                                                             *)
(***************************************************************************)
\* The envelope keeps its level in nine bits, whatever the passes add to it.
EnvelopeTypeOK ==
    /\ voice \in Voices /\ key \in 0..1
    /\ stage \in {"attack", "decay", "sustain", "release"} /\ level \in 0..Silence
    /\ timer.count \in 0..(2^TimerBits - 1) /\ timer.add \in 0..LowBits

\* A slot only grows louder in an attack and only grows quieter outside of one:
\* the nine bits of the level never wrap around, neither as the attack adds the
\* complement of the level, nor as a linear step comes to the silent end, not
\* even when the rates change on the way (envelope(), the cases silent and mute).
LevelGoesOneWay ==
    [][/\ level' < level => key = 1 /\ stage \in {"attack", "release"}
       /\ level' > level => stage # "attack"]_envelopeVars

\* Under the passes the envelope moves on, and does not stay where it is for ever:
\* an attack of a rate below the highest reaches the loudest and ends, the decay
\* from there stops at the sustain or in silence, and a slot let go falls silent,
\* unless a player keys it or writes its rates before.
EnvelopeMovesOn ==
    \A v \in Voices :
        /\ []<>~(/\ stage = "attack" /\ key = 1 /\ voice = v
                /\ v.ar > 0 /\ ScaledRate(v, "attack") < 15)
        /\ []<>~(stage = "decay" /\ key = 1 /\ voice = v /\ v.dr > 0 /\ ~Silent(level))
        /\ []<>~(key = 0 /\ voice = v /\ v.rr > 0 /\ level # Silence)
=============================================================================
