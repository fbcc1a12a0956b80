---------------------------- MODULE Measurement ----------------------------
(***************************************************************************)
(* A measurement of the worker (ComputeDurations of                        *)
(* opl3/adl/measurer/measurer.cpp and opn2/adl/measurer/measurer.cpp): a   *)
(* note is played on a chip of its own for periods of time, the loudness   *)
(* of the last frames is taken after each, and from these come the times   *)
(* at which the note fades while it is held and after it is let go.  When  *)
(* it faded while it was held, it is played again up to its loudest.       *)
(*                                                                         *)
(* What the chip sounds like is free; MeasureRMS of a window is a level.   *)
(***************************************************************************)
EXTENDS Integers, Sequences

CONSTANTS
    OnPeriods, OffPeriods, \* max_period_on, max_period_off
    SilentPeriods,         \* max_silent * interval
    OnPart, OffPart,       \* one over min_coefficient_on and min_coefficient_off
    Levels, QuietLevel,    \* of windows, and the most of one without a sample beyond 1
    PeriodFrames,          \* samples_per_interval
    HistoryFrames,         \* historyCapacity
    FullNumber,            \* one more than the greatest F-number of the chip
    KeyInWord,             \* the key is a bit of the frequency's word (OPL3)
    Frequencies            \* of notes, in halves of a hertz

ASSUME MeasurementAssumption ==
    /\ OnPeriods \in Nat \ {0} /\ OffPeriods \in Nat \ {0} /\ SilentPeriods \in Nat
    /\ OnPart \in Nat \ {0} /\ OffPart \in Nat \ {0}
    /\ Levels \subseteq Nat /\ PeriodFrames \in Nat \ {0} /\ HistoryFrames \in Nat \ {0}
    /\ FullNumber \in Nat \ {0} /\ KeyInWord \in BOOLEAN /\ Frequencies \subseteq Nat

VARIABLES
    doing,       \* "start", "on", "again", "off", "done" or "stopped"
    period,      \* of this loop
    stop,        \* the flag of whoever asked for the measurement
    recent,      \* m_data, twice as long as the capacity
    recentAt, recentLength, \* m_index and m_length
    winsize,     \* the size the window was made for
    quiet,       \* no sample was beyond 1
    begin, peak, peakTime, quarterTime, quarterFound, keyoffTime, keyoffFound,
    passed,      \* windows_passed_on
    hertz, word, \* the note's frequency, and what the chip was told of it
    played,      \* ghost: the frames since the history was made
    heardOn, heardOff \* ghost: the levels of the two loops

foundVars == <<begin, peak, peakTime, quarterTime, quarterFound, keyoffTime, keyoffFound, passed>>
historyVars == <<recent, recentAt, recentLength, played>>
measurementVars == <<doing, period, stop, historyVars, winsize, quiet, foundVars,
                     hertz, word, heardOn, heardOff>>

-----------------------------------------------------------------------------
(* noteOn, and what the chip makes of it.                                  *)

TopHertz == 2 * (128 * FullNumber - 1)
Capped(h) == IF h > TopHertz THEN TopHertz ELSE h

\* Halved until it is below the limit.
Octave(h) ==
    CHOOSE k \in 0..40 : /\ h < (2 * FullNumber - 1) * 2^k
                         /\ \A j \in 0 .. k - 1 : h >= (2 * FullNumber - 1) * 2^j

KeyBit == IF KeyInWord THEN 8 * FullNumber ELSE 0

WordOf(h) ==
    LET k == Octave(Capped(h)) IN KeyBit + k * FullNumber + (Capped(h) + 2^k) \div 2^(k + 1)

ChipBlock == (word \div FullNumber) % 8
ChipNumber == word % FullNumber
ChipIsOn == KeyInWord => (word \div KeyBit) % 2 = 1

\* AudioHistory::reset.
NewHistory == [k \in 0 .. 2 * HistoryFrames - 1 |-> 0]

MeasurementInit ==
    /\ doing = "start" /\ period = 0 /\ stop = FALSE
    /\ recent = NewHistory /\ recentAt = 0 /\ recentLength = 0 /\ winsize = 0 /\ played = 0
    /\ quiet = TRUE
    /\ begin = 0 /\ peak = 0 /\ peakTime = 0
    /\ quarterTime = OnPeriods /\ quarterFound = FALSE
    /\ keyoffTime = 0 /\ keyoffFound = FALSE /\ passed = 0
    /\ hertz \in Frequencies /\ word = 0
    /\ heardOn = <<>> /\ heardOff = <<>>

\* The note begins, on a chip that was reset.
StartNote ==
    /\ doing = "start" /\ doing' = "on"
    /\ word' = WordOf(hertz)
    /\ UNCHANGED <<period, stop, historyVars, winsize, quiet, foundVars, hertz, heardOn, heardOff>>

-----------------------------------------------------------------------------
(* A period of the chip's frames, which the history adds one by one; frame *)
(* number n stands for its sample.                                         *)

\* AudioHistory::add.
Added(h, n) ==
    [data |-> [h.data EXCEPT ![h.at] = n, ![h.at + HistoryFrames] = n],
     at |-> IF h.at + 1 # HistoryFrames THEN h.at + 1 ELSE 0,
     length |-> IF h.length + 1 < HistoryFrames THEN h.length + 1 ELSE HistoryFrames]

PlayPeriod ==
    LET after[n \in 0 .. PeriodFrames] ==
            IF n = 0 THEN [data |-> recent, at |-> recentAt, length |-> recentLength]
            ELSE Added(after[n - 1], played + n)
        h == after[PeriodFrames]
    IN  /\ recent' = h.data /\ recentAt' = h.at /\ recentLength' = h.length
        /\ played' = played + PeriodFrames

\* AudioHistory::data: what the window is laid over.
Measured == [k \in 1 .. recentLength |-> recent[recentAt + HistoryFrames - recentLength + k - 1]]

\* A level that a window can have, and whether a sample has been beyond 1 by now.
Hear(level, loud) ==
    /\ level > QuietLevel => loud \/ ~quiet
    /\ quiet' = (quiet /\ ~loud)
    /\ winsize' = recentLength'

-----------------------------------------------------------------------------
(* The loops.                                                              *)

\* Wrong, to try the checks: a louder peak does not look for its fading anew.
FindPeakOnce(level) ==
    IF period = 0 THEN
        /\ begin' = level /\ peak' = level /\ peakTime' = 0
        /\ UNCHANGED <<quarterTime, quarterFound>>
    ELSE IF level > peak THEN
        /\ peak' = level /\ peakTime' = period
        /\ UNCHANGED <<begin, quarterTime, quarterFound>>
    ELSE IF ~quarterFound /\ level * OnPart <= peak THEN
        /\ quarterTime' = period /\ quarterFound' = TRUE
        /\ UNCHANGED <<begin, peak, peakTime>>
    ELSE UNCHANGED <<begin, peak, peakTime, quarterTime, quarterFound>>

FindPeak(level) ==
    IF period = 0 THEN
        /\ begin' = level /\ peak' = level /\ peakTime' = 0
        /\ UNCHANGED <<quarterTime, quarterFound>>
    ELSE IF level > peak THEN
        /\ peak' = level /\ peakTime' = period /\ quarterFound' = FALSE
        /\ UNCHANGED <<begin, quarterTime>>
    ELSE IF ~quarterFound /\ level * OnPart <= peak THEN
        /\ quarterTime' = period /\ quarterFound' = TRUE
        /\ UNCHANGED <<begin, peak, peakTime>>
    ELSE UNCHANGED <<begin, peak, peakTime, quarterTime, quarterFound>>

\* A period of the note that is held.  The loop ends when the note has faded, or is silent
\* for long; otherwise when its periods are over, and the note is let go as it is.
OnPeriod(level, loud) ==
    /\ doing = "on" /\ ~stop /\ PlayPeriod /\ Hear(level, loud)
    /\ heardOn' = Append(heardOn, level)
    /\ FindPeak(level)
    /\ IF period > SilentPeriods /\ (level * OnPart < peak' \/ quiet')
       THEN /\ doing' = "ended" /\ passed' = period /\ UNCHANGED period
       ELSE /\ passed' = period + 1
            /\ IF passed' = OnPeriods THEN doing' = "ended" /\ period' = 0
               ELSE doing' = "on" /\ period' = period + 1
    /\ UNCHANGED <<stop, keyoffTime, keyoffFound, hertz, word, heardOff>>

\* noteOff: the key's bit is cleared.
LetGo == IF KeyInWord /\ ChipIsOn THEN word - KeyBit ELSE word

\* Between the loops.
EndOfOn ==
    /\ doing = "ended"
    /\ quarterTime' = IF quarterFound THEN quarterTime ELSE passed
    /\ period' = 0
    /\ IF passed >= OnPeriods
       THEN /\ doing' = "off" /\ word' = LetGo
            /\ UNCHANGED historyVars
       ELSE /\ doing' = "again" /\ word' = WordOf(hertz)
            /\ recent' = NewHistory /\ recentAt' = 0 /\ recentLength' = 0 /\ played' = 0
    /\ UNCHANGED <<stop, winsize, quiet, begin, peak, peakTime, quarterFound, keyoffTime,
                   keyoffFound, passed, hertz, heardOn, heardOff>>

\* The note again, up to its loudest, and one period at least.
PeriodAgain ==
    /\ doing = "again" /\ ~stop /\ PlayPeriod
    /\ IF period + 1 < peakTime /\ period + 1 < OnPeriods
       THEN period' = period + 1 /\ UNCHANGED <<doing, word>>
       ELSE period' = 0 /\ doing' = "off" /\ word' = LetGo
    /\ UNCHANGED <<stop, winsize, quiet, foundVars, hertz, heardOn, heardOff>>

OffPeriod(level, loud) ==
    /\ doing = "off" /\ ~stop /\ PlayPeriod /\ Hear(level, loud)
    /\ heardOff' = Append(heardOff, level)
    /\ IF ~keyoffFound /\ level * OffPart <= peak
       THEN keyoffTime' = period /\ keyoffFound' = TRUE
       ELSE UNCHANGED <<keyoffTime, keyoffFound>>
    /\ IF \/ level * OffPart < peak
          \/ period > SilentPeriods /\ quiet'
          \/ period + 1 = OffPeriods
       THEN doing' = "done" /\ UNCHANGED period
       ELSE period' = period + 1 /\ UNCHANGED doing
    /\ UNCHANGED <<stop, begin, peak, peakTime, quarterTime, quarterFound, passed, hertz,
                   word, heardOn>>

\* Worker::stop_worker; the flag is looked at once in every period.
AskToStop ==
    /\ ~stop /\ stop' = TRUE
    /\ UNCHANGED <<doing, period, historyVars, winsize, quiet, foundVars, hertz, word,
                   heardOn, heardOff>>

Stopped ==
    /\ stop /\ doing \in {"on", "again", "off"}
    /\ doing' = "stopped"
    /\ UNCHANGED <<period, stop, historyVars, winsize, quiet, foundVars, hertz, word,
                   heardOn, heardOff>>

MeasurementNext ==
    \/ StartNote
    \/ \E level \in Levels, loud \in BOOLEAN : OnPeriod(level, loud)
    \/ EndOfOn \/ PeriodAgain
    \/ \E level \in Levels, loud \in BOOLEAN : OffPeriod(level, loud)
    \/ AskToStop \/ Stopped

MeasurementSpec == MeasurementInit /\ [][MeasurementNext]_measurementVars

-----------------------------------------------------------------------------
\* What is measured is as many of the last frames as the history has room for, oldest
\* first, and the window was made for that many.
LastFramesAreMeasured ==
    /\ recentLength = IF played < HistoryFrames THEN played ELSE HistoryFrames
    /\ \A k \in 1 .. recentLength : Measured[k] = played - recentLength + k
    /\ doing = "off" /\ heardOff # <<>> => winsize = recentLength

\* The times as they are meant: of the first period of the greatest level; of the first
\* one after it that is below a part of it; and of the first such one after the note was
\* let go, which it was with its loudest frames in the chip.
FirstAt(levels, from, Fits(_)) ==
    {k \in from .. Len(levels) - 1 :
        Fits(levels[k + 1]) /\ \A j \in from .. k - 1 : ~Fits(levels[j + 1])}

TimesAreTheSounds ==
    LET loudest == CHOOSE k \in FirstAt(heardOn, 0, LAMBDA v :
                                   \A j \in DOMAIN heardOn : heardOn[j] <= v) : TRUE
        faded == FirstAt(heardOn, loudest + 1, LAMBDA v : v * OnPart <= heardOn[loudest + 1])
        gone == FirstAt(heardOff, 0, LAMBDA v : v * OffPart <= heardOn[loudest + 1])
    IN  /\ peakTime = loudest /\ peak = heardOn[loudest + 1] /\ begin = heardOn[1]
        /\ quarterTime \in (IF faded # {} THEN faded ELSE {passed})
        /\ keyoffTime \in (IF gone # {} THEN gone ELSE {0})

\* What the chip was told is the note as near as an F-number comes to it.
AtItsPitch ==
    LET err == 2 * ChipNumber * 2^ChipBlock - Capped(hertz)
    IN  ChipIsOn /\ err <= 2^ChipBlock /\ -err <= 2^ChipBlock

\* A measurement gives the times of the sound that was heard and no other, when the note
\* became louder again after it had faded, when it never faded, and when it was played
\* anew; over the frames that were played last, of a note the chip can play
\* (ComputeDurations, AudioHistory and noteOn).
MeasuredAsItSounds ==
    /\ LastFramesAreMeasured
    /\ doing = "done" => TimesAreTheSounds
    /\ doing \in {"on", "again"} => AtItsPitch

\* "either way the note is measured at the highest frequency there is"
\* (opl3/adl/measurer/measurer.cpp:200): a note above all the chip can be told is played
\* at the greatest F-number of the last octave.
HighNotesAreHighest ==
    doing \in {"on", "again"} /\ hertz > 2 * 128 * (FullNumber - 1) =>
        ChipIsOn /\ ChipBlock = 7 /\ ChipNumber = FullNumber - 1
=============================================================================
