----------------------------- MODULE AudioProofs -----------------------------
(* That a block of audio comes out whole and its events on time, that the  *)
(* count of the notes is right, that the resampler loses no frame and      *)
(* gives none twice, and that a measurement gives the times of the sound   *)
(* it heard: for every size of a block, every set of keys, every ratio of  *)
(* the rates, every delay of the filter, and every length of a measurement *)
(* and of its history.                                                     *)
EXTENDS AudioBlock, ChipResampler, Measurement, FiniteSetTheorems, SequenceTheorems, WellFoundedInduction, TLAPS

-----------------------------------------------------------------------------
(* Induction, by sets: the provers cannot be given the predicate that the  *)
(* library's theorems take, but the least element of a set they can.       *)

\* A set of natural numbers that is not empty has a least element.
LEMMA LeastOfSet ==
    ASSUME NEW T \in SUBSET Nat, T # {}
    PROVE  \E x \in T : \A y \in T : x <= y
<1>1. PICK x \in T : \A y \in T : ~(<<y, x>> \in OpToRel(<, Nat))
  BY NatLessThanWellFounded, WFMin
<1>2. \A y \in T : ~(y < x)
  BY <1>1 DEF OpToRel
<1>3. x \in Nat /\ \A y \in T : y \in Nat
  OBVIOUS
<1> QED BY <1>2, <1>3

\* A set with 0, and with the successor of every number in it, has them all.
LEMMA InductionBySet ==
    ASSUME NEW T, 0 \in T, \A k \in Nat : k \in T => k + 1 \in T
    PROVE  \A k \in Nat : k \in T
<1> SUFFICES ASSUME Nat \ T # {} PROVE FALSE
  OBVIOUS
<1>1. PICK x \in Nat \ T : \A y \in Nat \ T : x <= y
  BY LeastOfSet
<1>2. x - 1 \in Nat \ T
  BY <1>1
<1> QED BY <1>1, <1>2

-----------------------------------------------------------------------------
(* A block of audio: the notes.                                            *)

\* The count is the number of notes held.
NotesAgree(n) ==
    n.active \in SUBSET Keys /\ IsFiniteSet(n.active) /\ n.count = Cardinality(n.active)

\* A message keeps the count the number of notes held.
LEMMA HandledKeeps ==
    ASSUME NEW n, NotesAgree(n), NEW m \in Messages
    PROVE  NotesAgree(Handled(n, m))
<1>1. /\ m.key \in Keys /\ IsFiniteSet(n.active \cup {m.key}) /\ IsFiniteSet(n.active \ {m.key})
      /\ Cardinality(n.active \cup {m.key})
            = IF m.key \in n.active THEN Cardinality(n.active) ELSE Cardinality(n.active) + 1
      /\ Cardinality(n.active \ {m.key})
            = IF m.key \in n.active THEN Cardinality(n.active) - 1 ELSE Cardinality(n.active)
  BY FS_AddElement, FS_RemoveElement DEF NotesAgree, Messages
<1>2. NotesAgree(NoteOn(n, m))
  <2>1. CASE m.key \in n.active
    BY <1>1, <2>1 DEF NoteOn, NotesAgree
  <2>2. CASE m.key \notin n.active
    BY <1>1, <2>2 DEF NoteOn, NotesAgree
  <2> QED BY <2>1, <2>2
<1>3. NotesAgree(NoteOff(n, m))
  <2>1. CASE m.key \in n.active
    BY <1>1, <2>1 DEF NoteOff, NotesAgree
  <2>2. CASE m.key \notin n.active
    BY <1>1, <2>2 DEF NoteOff, NotesAgree
  <2> QED BY <2>1, <2>2
<1>4. NotesAgree([active |-> {}, count |-> 0])
  BY FS_EmptySet DEF NotesAgree
<1> QED BY <1>2, <1>3, <1>4 DEF Handled

\* What comes of messages one after the other.
AfterEach(n, messages, f, L) ==
    f = [k \in 0 .. L |-> IF k = 0 THEN n ELSE Handled(f[k - 1], messages[k])]

\* There is a function that the recursion of AllHandled defines.
LEMMA AfterEachExists ==
    ASSUME NEW n, NEW messages, NEW L \in Nat
    PROVE  \E f : AfterEach(n, messages, f, L)
<1> DEFINE T == {l \in Nat : \E f : AfterEach(n, messages, f, l)}
<1>1. 0 \in T
  <2>1. AfterEach(n, messages, [k \in 0 .. 0 |-> n], 0)
    BY DEF AfterEach
  <2> QED BY <2>1
<1>2. ASSUME NEW l \in Nat, l \in T PROVE l + 1 \in T
  <2>1. PICK f : AfterEach(n, messages, f, l)
    BY <1>2
  <2> DEFINE g == [k \in 0 .. l + 1 |-> IF k = l + 1 THEN Handled(f[l], messages[l + 1])
                                       ELSE f[k]]
  <2>2. ASSUME NEW k \in 0 .. l + 1
        PROVE  g[k] = IF k = 0 THEN n ELSE Handled(g[k - 1], messages[k])
    <3>1. CASE k = l + 1
      <4>1. g[k] = Handled(f[l], messages[l + 1]) /\ k # 0 /\ k - 1 = l
        BY <3>1
      <4>2. g[l] = f[l]
        OBVIOUS
      <4> QED BY <3>1, <4>1, <4>2
    <3>2. CASE k \in 0 .. l
      <4>1. g[k] = f[k]
        BY <3>2
      <4>2. f[k] = IF k = 0 THEN n ELSE Handled(f[k - 1], messages[k])
        BY <2>1, <3>2 DEF AfterEach
      <4>3. k # 0 => g[k - 1] = f[k - 1]
        BY <3>2
      <4> QED BY <4>1, <4>2, <4>3
    <3> QED BY <3>1, <3>2
  <2>3. g = [k \in 0 .. l + 1 |-> g[k]]
    OBVIOUS
  <2> HIDE DEF g
  <2>4. AfterEach(n, messages, g, l + 1)
    BY <2>2, <2>3 DEF AfterEach
  <2> QED BY <2>4
<1> HIDE DEF T
<1>3. L \in T
  BY <1>1, <1>2, InductionBySet
<1> QED BY <1>3 DEF T

\* So that what all messages leave is its last value.
LEMMA AllHandledIs ==
    ASSUME NEW n, NEW messages, Len(messages) \in Nat
    PROVE  \E f : /\ AfterEach(n, messages, f, Len(messages))
                  /\ AllHandled(n, messages) = f[Len(messages)]
<1>1. PICK f : f = CHOOSE g : AfterEach(n, messages, g, Len(messages))
  OBVIOUS
<1>2. AfterEach(n, messages, f, Len(messages))
  BY <1>1, AfterEachExists
<1>3. AllHandled(n, messages) = f[Len(messages)]
  BY <1>1 DEF AllHandled, AfterEach
<1> QED BY <1>2, <1>3

\* Any number of messages keeps the count the number of notes held.
LEMMA AllHandledKeeps ==
    ASSUME NEW n, NotesAgree(n), NEW messages \in Seq(Messages)
    PROVE  NotesAgree(AllHandled(n, messages))
<1>1. Len(messages) \in Nat
  OBVIOUS
<1>2. PICK f : /\ AfterEach(n, messages, f, Len(messages))
               /\ AllHandled(n, messages) = f[Len(messages)]
  BY <1>1, AllHandledIs
<1> DEFINE T == {k \in Nat : k <= Len(messages) => NotesAgree(f[k])}
<1>3. 0 \in T
  <2>1. f[0] = n
    BY <1>1, <1>2 DEF AfterEach
  <2> QED BY <2>1
<1>4. ASSUME NEW k \in Nat, k \in T PROVE k + 1 \in T
  <2> SUFFICES ASSUME k + 1 <= Len(messages) PROVE NotesAgree(f[k + 1])
    OBVIOUS
  <2>1. NotesAgree(f[k])
    BY <1>1, <1>4
  <2>2. k + 1 \in 0 .. Len(messages) /\ k + 1 # 0 /\ (k + 1) - 1 = k
    BY <1>1
  <2>3. f[k + 1] = Handled(f[k], messages[k + 1])
    BY <1>2, <2>2 DEF AfterEach
  <2>4. messages[k + 1] \in Messages
    BY <1>1
  <2> QED BY <2>1, <2>3, <2>4, HandledKeeps
<1> HIDE DEF T
<1>5. Len(messages) \in T
  BY <1>1, <1>3, <1>4, InductionBySet
<1> QED BY <1>1, <1>2, <1>5 DEF T

-----------------------------------------------------------------------------
(* A block of audio: its pieces and its events.                            *)

\* The events of a block.
Events == [time : Times, kind : Kinds, key : Keys]

\* Every variable has its type.
AudioTypeOK ==
    /\ size \in Nat /\ frames \in Nat /\ piece \in Nat /\ first_frame \in Nat
    /\ iframe \in Nat /\ written \in Nat
    /\ where \in {"idle", "piece", "segment", "ended"}
    /\ events \in Seq(Events) /\ fromUi \in Seq(Messages)

\* Where in the block the audio thread is, in frames.
Now == IF where = "segment" THEN first_frame + iframe ELSE first_frame

\* A piece begins in the block, and all before it was written.
PiecesFollow ==
    /\ where \in {"idle", "ended"} => written = frames
    /\ where \in {"piece", "segment"} =>
          /\ written = Now
          /\ \/ first_frame < frames /\ piece > 0
             \/ first_frame = 0 /\ frames = 0 /\ piece = 0
    /\ where = "segment" => iframe <= PieceFrames

\* The events that wait are in order and of this block; none waits at its end.
EventsWait ==
    /\ where = "idle" => events = <<>>
    /\ \A i \in DOMAIN events : events[i].time < frames
    /\ \A i, j \in DOMAIN events : i < j => events[i].time <= events[j].time
    /\ where = "segment" /\ Now = frames => events = <<>>
    /\ where = "ended" /\ frames > 0 /\ piece > 0 /\ missed # "last" => events = <<>>

\* None that waits is late already, but where a piece was missed.
NoneIsLate ==
    /\ ~mistimed
    /\ missed = "no" /\ where \in {"piece", "segment"} =>
          \A i \in DOMAIN events : Now - events[i].time <= Interval \div 2

\* The inductive invariant. That a block is played when it ends needs to know where in
\* it the audio thread is at every step, and that what waits is in order: the first
\* event that does not play now is then before all that do not.
AudioIInv ==
    /\ AudioTypeOK /\ NotesAgree(Notes)
    /\ PiecesFollow /\ EventsWait /\ NoneIsLate

\* What a segment reads: events that play now, up to one that does not.
LEMMA ReadsArePlayed ==
    ASSUME events \in Seq(Events)
    PROVE  /\ Reads \in 0 .. Len(events) /\ Len(events) \in Nat
           /\ \A i \in 1 .. Reads : PlaysNow(events[i])
           /\ Reads < Len(events) => ~PlaysNow(events[Reads + 1])
<1> DEFINE waits == {i \in DOMAIN events : ~PlaysNow(events[i])}
<1>1. DOMAIN events = 1 .. Len(events) /\ Len(events) \in Nat
  OBVIOUS
<1>2. CASE waits = {}
  <2>1. Reads = Len(events)
    BY <1>2 DEF Reads
  <2> QED BY <1>1, <1>2, <2>1
<1>3. CASE waits # {}
  <2>1. waits \in SUBSET Nat
    BY <1>1
  <2>2. PICK x \in waits : \A y \in waits : x <= y
    BY <1>3, <2>1, LeastOfSet
  <2>3. Min(waits) \in waits /\ \A y \in waits : Min(waits) <= y
    BY <2>2 DEF Min
  <2>4. Reads = Min(waits) - 1
    BY <1>3 DEF Reads
  <2> HIDE DEF waits
  <2>5. PICK m \in waits : m = Min(waits) /\ \A y \in waits : m <= y
    BY <2>3
  <2>6. m \in 1 .. Len(events) /\ ~PlaysNow(events[m])
    BY <1>1, <2>5 DEF waits
  <2>7. ASSUME NEW i \in 1 .. m - 1 PROVE PlaysNow(events[i])
    <3>1. i \notin waits
      BY <1>1, <2>5, <2>6
    <3>2. i \in DOMAIN events
      BY <1>1, <2>6
    <3> QED BY <3>1, <3>2 DEF waits
  <2>8. Reads = m - 1
    BY <2>4, <2>5
  <2> QED BY <1>1, <2>6, <2>7, <2>8
<1> QED BY <1>2, <1>3

\* What is left of a sequence without its first n.
LEMMA RestOfSeq ==
    ASSUME NEW S, NEW q \in Seq(S), NEW n \in 0 .. Len(q)
    PROVE  \E r : /\ r = SubSeq(q, n + 1, Len(q))
                  /\ r \in Seq(S) /\ Len(r) = Len(q) - n /\ DOMAIN r = 1 .. Len(q) - n
                  /\ \A i \in 1 .. Len(q) - n : n + i \in 1 .. Len(q) /\ r[i] = q[n + i]
                  /\ n = Len(q) => r = <<>>
<1>1. PICK N \in Nat : N = Len(q)
  OBVIOUS
<1>2. PICK m \in Nat : m = n + 1
  BY <1>1
<1>3. PICK r : r = SubSeq(q, m, N)
  OBVIOUS
<1>4. \A i \in m .. N : q[i] \in S
  BY <1>1, <1>2
<1>5. /\ r \in Seq(S) /\ Len(r) = IF m <= N THEN N - m + 1 ELSE 0
      /\ \A i \in 1 .. N - m + 1 : r[i] = q[m + i - 1]
  <2>1. m \in Int /\ N \in Int
    OBVIOUS
  <2> QED BY ONLY <1>3, <1>4, <2>1, SubSeqProperties
<1>6. Len(r) = N - n
  BY <1>1, <1>2, <1>5
<1>7. DOMAIN r = 1 .. Len(r)
  BY <1>5
<1>8. ASSUME NEW i \in 1 .. N - n PROVE n + i \in 1 .. N /\ r[i] = q[n + i]
  <2>1. i \in 1 .. N - m + 1 /\ m + i - 1 = n + i
    BY <1>1, <1>2
  <2> QED BY <1>1, <1>2, <1>5, <2>1
<1>9. n = N => r = <<>>
  BY <1>5, <1>6
<1> QED BY <1>1, <1>2, <1>3, <1>5, <1>6, <1>7, <1>8, <1>9

\* Neighbours in order are all in order.
LEMMA OrderOfNeighbours ==
    ASSUME NEW es \in Seq(Events), InOrder(es)
    PROVE  \A i, j \in DOMAIN es : i < j => es[i].time <= es[j].time
<1>1. DOMAIN es = 1 .. Len(es) /\ Len(es) \in Nat
  OBVIOUS
<1>2. \A i \in DOMAIN es : es[i].time \in Nat
  <2>1. ASSUME NEW i \in DOMAIN es PROVE es[i] \in Events
    BY <1>1
  <2> QED BY <2>1, AudioAssumption DEF Events
<1> SUFFICES ASSUME NEW i \in DOMAIN es
             PROVE  \A j \in DOMAIN es : i < j => es[i].time <= es[j].time
  OBVIOUS
<1> DEFINE T == {k \in Nat : i + k \in DOMAIN es => es[i].time <= es[i + k].time}
<1>3. 0 \in T
  BY <1>1, <1>2
<1>4. ASSUME NEW k \in Nat, k \in T PROVE k + 1 \in T
  <2> SUFFICES ASSUME i + (k + 1) \in DOMAIN es PROVE es[i].time <= es[i + (k + 1)].time
    OBVIOUS
  <2>1. i + k \in 1 .. Len(es) - 1 /\ (i + k) + 1 = i + (k + 1)
    BY <1>1
  <2>2. es[i].time <= es[i + k].time
    BY <1>1, <1>4, <2>1
  <2>3. es[i + k].time <= es[i + (k + 1)].time
    BY <2>1 DEF InOrder
  <2>4. i + k \in DOMAIN es
    BY <1>1, <2>1
  <2> QED BY <1>2, <2>2, <2>3, <2>4
<1> HIDE DEF T
<1>5. ASSUME NEW j \in DOMAIN es, i < j PROVE es[i].time <= es[j].time
  <2>1. j - i \in Nat /\ i + (j - i) = j
    BY <1>1, <1>5
  <2>2. j - i \in T
    BY <1>3, <1>4, <2>1, InductionBySet
  <2> QED BY <2>1, <2>2 DEF T
<1> QED BY <1>5

\* Nothing is played yet.
LEMMA AudioStarts == AudioInit => AudioIInv
<1> SUFFICES ASSUME AudioInit PROVE AudioIInv
  OBVIOUS
<1> USE DEF AudioInit
<1>1. AudioTypeOK
  BY AudioAssumption DEF AudioTypeOK
<1>2. NotesAgree(Notes)
  BY FS_EmptySet DEF NotesAgree, Notes
<1>3. PiecesFollow
  BY DEF PiecesFollow
<1>4. EventsWait
  BY DEF EventsWait
<1>5. NoneIsLate
  BY DEF NoneIsLate
<1> QED BY <1>1, <1>2, <1>3, <1>4, <1>5 DEF AudioIInv

\* What the notes do not go by.
AllButNotes == <<frames, piece, first_frame, iframe, where, events, written, missed, mistimed>>

\* A step that is of the notes, of the queue or of the lock alone.
LEMMA NotesAlone ==
    ASSUME AudioIInv, UNCHANGED AllButNotes, size' \in Nat, fromUi' \in Seq(Messages),
           NotesAgree(Notes)'
    PROVE  AudioIInv'
<1> USE DEF AudioIInv, AllButNotes
<1>1. AudioTypeOK'
  BY DEF AudioTypeOK
<1>2. PiecesFollow'
  BY DEF PiecesFollow, Now, PieceFrames
<1>3. EventsWait'
  BY DEF EventsWait, Now
<1>4. NoneIsLate'
  BY DEF NoneIsLate, Now
<1> QED BY <1>1, <1>2, <1>3, <1>4

\* The notes as handle_midi leaves them.
LEMMA NotesLeft ==
    ASSUME AudioIInv, NEW messages \in Seq(Messages), NEW n, n = AllHandled(Notes, messages),
           active' = n.active, count' = n.count
    PROVE  NotesAgree(Notes)'
<1>1. NotesAgree(n)
  BY AllHandledKeeps DEF AudioIInv
<1> QED BY <1>1 DEF NotesAgree, Notes

\* The host prepares the plugin.
LEMMA PrepareToPlayKeeps ==
    ASSUME AudioIInv, NEW s \in Sizes, PrepareToPlay(s)
    PROVE  AudioIInv'
<1>1. UNCHANGED AllButNotes /\ size' \in Nat /\ fromUi' \in Seq(Messages)
  BY AudioAssumption DEF PrepareToPlay, AllButNotes
<1>2. NotesAgree(Notes)'
  BY FS_EmptySet DEF PrepareToPlay, NotesAgree, Notes
<1> QED BY <1>1, <1>2, NotesAlone

\* A block that is bypassed.
LEMMA BypassedKeeps ==
    ASSUME AudioIInv, Bypassed
    PROVE  AudioIInv'
<1>1. UNCHANGED AllButNotes /\ size' \in Nat /\ fromUi' \in Seq(Messages)
  BY DEF Bypassed, AllButNotes, AudioIInv, AudioTypeOK
<1>2. NotesAgree(Notes)'
  <2>1. CASE holder = "none"
    <3>1. /\ active' = AllHandled(Notes, fromUi).active /\ count' = AllHandled(Notes, fromUi).count
          /\ fromUi \in Seq(Messages)
      BY <2>1 DEF Bypassed, AudioIInv, AudioTypeOK
    <3> QED BY <3>1, NotesLeft
  <2>2. CASE holder # "none"
    BY <2>2 DEF Bypassed, Notes, NotesAgree, AudioIInv
  <2> QED BY <2>1, <2>2
<1> QED BY <1>1, <1>2, NotesAlone

\* The lock and the keyboard of the editor.
LEMMA OthersKeep ==
    ASSUME AudioIInv,
           \/ TakePlayer \/ LeavePlayer \/ UNCHANGED audioVars
           \/ \E m \in Messages : EditorPlays(m)
    PROVE  AudioIInv'
<1>1. UNCHANGED AllButNotes /\ size' \in Nat /\ UNCHANGED <<active, count>>
  BY DEF TakePlayer, LeavePlayer, EditorPlays, audioVars, AllButNotes, AudioIInv, AudioTypeOK
<1>2. fromUi' \in Seq(Messages)
  <2>1. ASSUME NEW m \in Messages, EditorPlays(m) PROVE fromUi' \in Seq(Messages)
    BY <2>1 DEF EditorPlays, AudioIInv, AudioTypeOK
  <2>2. fromUi' = fromUi => fromUi' \in Seq(Messages)
    BY DEF AudioIInv, AudioTypeOK
  <2> QED BY <2>1, <2>2 DEF TakePlayer, LeavePlayer, audioVars
<1>3. NotesAgree(Notes)'
  BY <1>1 DEF NotesAgree, Notes, AudioIInv
<1> QED BY <1>1, <1>2, <1>3, NotesAlone

\* A block begins.
LEMMA StartBlockKeeps ==
    ASSUME AudioIInv, NEW n \in Lengths, NEW es \in Blocks, NEW wide \in BOOLEAN,
           StartBlock(n, es, wide)
    PROVE  AudioIInv'
<1>1. es \in Seq(Events) /\ DOMAIN es = 1 .. Len(es) /\ Len(es) \in Nat
  <2>1. PICK k \in 0 .. MaxEvents : es \in [1 .. k -> Events]
    BY DEF Blocks, Events
  <2>2. k \in Nat
    BY AudioAssumption
  <2> QED BY <2>1, <2>2
<1>2. n \in Nat /\ size \in Nat
  BY AudioAssumption DEF AudioIInv, AudioTypeOK
<1>3. /\ frames' = n /\ events' = es /\ first_frame' = 0 /\ missed' = "no"
      /\ piece' = IF wide THEN n ELSE size
      /\ where' = IF (wide \/ n > 0) /\ (wide \/ size > 0) THEN "piece" ELSE "ended"
      /\ written' = IF ~wide /\ size = 0 THEN n ELSE 0
      /\ UNCHANGED <<size, iframe, fromUi, active, count, mistimed>>
      /\ \A i \in DOMAIN es : es[i].time < n
      /\ InOrder(es)
  BY DEF StartBlock
<1>4. AudioTypeOK'
  BY <1>1, <1>2, <1>3 DEF AudioIInv, AudioTypeOK
<1>5. NotesAgree(Notes)'
  BY <1>3 DEF NotesAgree, Notes, AudioIInv
<1>6. PiecesFollow'
  <2>1. CASE wide
    BY <1>2, <1>3, <2>1 DEF PiecesFollow, Now
  <2>2. CASE ~wide
    BY <1>2, <1>3, <2>2 DEF PiecesFollow, Now
  <2> QED BY <2>1, <2>2
<1>7. EventsWait'
  <2>1. \A i, j \in DOMAIN es : i < j => es[i].time <= es[j].time
    BY <1>1, <1>3, OrderOfNeighbours
  <2>2. where' = "ended" => frames' = 0 \/ piece' = 0
    <3>1. CASE wide
      BY <1>3, <3>1
    <3>2. CASE ~wide
      BY <1>2, <1>3, <3>2
    <3> QED BY <3>1, <3>2
  <2>3. where' # "idle" /\ where' # "segment"
    BY <1>3
  <2>4. ~(frames' > 0 /\ piece' > 0) \/ where' # "ended"
    BY <1>2, <1>3, <2>2
  <2> QED BY <1>3, <2>1, <2>3, <2>4 DEF EventsWait
<1>8. NoneIsLate'
  <2>1. ASSUME NEW i \in DOMAIN es PROVE 0 - es[i].time <= Interval \div 2
    <3>1. es[i] \in Events
      BY <1>1
    <3>2. es[i].time \in Nat
      BY <3>1, AudioAssumption DEF Events
    <3>3. Interval \div 2 \in Nat
      BY AudioAssumption
    <3> QED BY <3>2, <3>3
  <2>2. Now' = 0
    BY <1>3 DEF Now
  <2> QED BY <1>3, <2>1, <2>2 DEF NoneIsLate, AudioIInv
<1> QED BY <1>4, <1>5, <1>6, <1>7, <1>8 DEF AudioIInv

\* A block ends.
LEMMA BlockEndsKeeps ==
    ASSUME AudioIInv, BlockEnds
    PROVE  AudioIInv'
<1> USE DEF AudioIInv, BlockEnds
<1>1. AudioTypeOK'
  BY DEF AudioTypeOK
<1>2. NotesAgree(Notes)'
  BY DEF NotesAgree, Notes
<1>3. PiecesFollow'
  BY DEF PiecesFollow
<1>4. EventsWait'
  BY DEF EventsWait
<1>5. NoneIsLate'
  BY DEF NoneIsLate
<1> QED BY <1>1, <1>2, <1>3, <1>4, <1>5

\* The end of a piece, which was played or was silence.
LEMMA EndOfPieceKeeps ==
    ASSUME AudioIInv, NEW now, now = PieceFrames, EndOfPiece(now), where \in {"piece", "segment"},
           \/ where = "segment" /\ iframe = PieceFrames /\ missed' = missed
           \/ missed' = "last",
           UNCHANGED <<size, frames, piece, iframe, events, fromUi, active, count, mistimed>>
    PROVE  AudioIInv'
<1>1. /\ frames \in Nat /\ piece \in Nat /\ first_frame \in Nat /\ iframe \in Nat
      /\ \/ first_frame < frames /\ piece > 0
         \/ first_frame = 0 /\ frames = 0 /\ piece = 0
  BY DEF AudioIInv, AudioTypeOK, PiecesFollow
<1>2. /\ first_frame' = first_frame + piece
      /\ where' = IF first_frame + piece < frames THEN "piece" ELSE "ended"
      /\ written' = first_frame + now
  BY DEF EndOfPiece
<1>3. /\ now \in Nat
      /\ first_frame + piece < frames => now = piece
      /\ ~(first_frame + piece < frames) => now = frames - first_frame
  BY <1>1 DEF PieceFrames, Least
<1>4. AudioTypeOK'
  BY <1>1, <1>2, <1>3 DEF AudioIInv, AudioTypeOK
<1>5. NotesAgree(Notes)'
  BY DEF NotesAgree, Notes, AudioIInv
<1>6. PiecesFollow'
  <2>1. CASE first_frame + piece < frames
    BY <1>1, <1>2, <1>3, <2>1 DEF PiecesFollow, Now
  <2>2. CASE ~(first_frame + piece < frames)
    BY <1>1, <1>2, <1>3, <2>2 DEF PiecesFollow, Now
  <2> QED BY <2>1, <2>2
<1>7. EventsWait'
  <2>1. ASSUME where' = "ended", missed' # "last" PROVE events = <<>>
    <3>1. where = "segment" /\ iframe = now
      BY <2>1
    <3>2. Now = frames
      BY <1>1, <1>2, <1>3, <2>1, <3>1 DEF Now
    <3> QED BY <3>1, <3>2 DEF AudioIInv, EventsWait
  <2>2. where' # "idle" /\ where' # "segment"
    BY <1>2
  <2> QED BY <2>1, <2>2 DEF AudioIInv, EventsWait
<1>8. NoneIsLate'
  <2>1. ASSUME missed' = "no", where' = "piece" PROVE Now' = Now /\ where = "segment" /\ missed = "no"
    BY <1>1, <1>2, <1>3, <2>1 DEF Now
  <2>2. where' \in {"piece", "ended"}
    BY <1>2
  <2> QED BY <2>1, <2>2 DEF AudioIInv, NoneIsLate
<1> QED BY <1>4, <1>5, <1>6, <1>7, <1>8 DEF AudioIInv

\* A piece begins to be played.
LEMMA StartPieceKeeps ==
    ASSUME AudioIInv, StartPiece
    PROVE  AudioIInv'
<1>1. /\ where = "piece" /\ where' = "segment" /\ iframe' = 0 /\ fromUi' = <<>>
      /\ active' = AllHandled(Notes, fromUi).active /\ count' = AllHandled(Notes, fromUi).count
      /\ missed' = IF missed = "no" THEN "no" ELSE "before"
      /\ UNCHANGED <<size, frames, piece, first_frame, events, written, mistimed>>
  BY DEF StartPiece
<1>2. /\ frames \in Nat /\ piece \in Nat /\ first_frame \in Nat
      /\ \/ first_frame < frames /\ piece > 0
         \/ first_frame = 0 /\ frames = 0 /\ piece = 0
      /\ events \in Seq(Events) /\ fromUi \in Seq(Messages)
  BY <1>1 DEF AudioIInv, AudioTypeOK, PiecesFollow
<1>3. Now' = Now /\ Now = first_frame
  BY <1>1, <1>2 DEF Now
<1>4. AudioTypeOK'
  BY <1>1 DEF AudioIInv, AudioTypeOK
<1>5. NotesAgree(Notes)'
  BY <1>1, <1>2, NotesLeft
<1>6. PiecesFollow'
  BY <1>1, <1>2, <1>3 DEF AudioIInv, PiecesFollow, PieceFrames, Least
<1>7. EventsWait'
  <2>1. ASSUME Now' = frames' PROVE events' = <<>>
    <3>1. frames = 0
      BY <1>1, <1>2, <1>3, <2>1
    <3>2. ASSUME NEW i \in DOMAIN events PROVE FALSE
      <4>1. events[i] \in Events
        BY <1>2
      <4>2. events[i].time \in Nat
        BY <4>1, AudioAssumption DEF Events
      <4>3. events[i].time < 0
        BY <3>1 DEF AudioIInv, EventsWait
      <4> QED BY <4>2, <4>3
    <3>3. DOMAIN events = 1 .. Len(events) /\ Len(events) \in Nat
      BY <1>2
    <3>4. Len(events) = 0
      <4>1. 1 \notin 1 .. Len(events)
        BY <3>2, <3>3
      <4> QED BY <3>3, <4>1
    <3> QED BY <1>1, <1>2, <3>4
  <2> QED BY <1>1, <2>1 DEF AudioIInv, EventsWait
<1>8. NoneIsLate'
  BY <1>1, <1>3 DEF AudioIInv, NoneIsLate
<1> QED BY <1>4, <1>5, <1>6, <1>7, <1>8 DEF AudioIInv

\* A segment plays the events that are up to its end, and none of them far from its time.
LEMMA SegmentKeeps ==
    ASSUME AudioIInv, Segment
    PROVE  AudioIInv'
<1> DEFINE read == SubSeq(events, 1, Reads)
           midi == [i \in DOMAIN read |-> [kind |-> read[i].kind, key |-> read[i].key]]
<1>1. /\ where = "segment" /\ where' = where /\ iframe < PieceFrames
      /\ active' = AllHandled(Notes, midi).active /\ count' = AllHandled(Notes, midi).count
      /\ mistimed' = (mistimed \/ (missed = "no" /\ \E i \in DOMAIN read : FarFrom(read[i])))
      /\ events' = SubSeq(events, Reads + 1, Len(events))
      /\ iframe' = iframe + SegmentFrames
      /\ written' = first_frame + iframe + SegmentFrames
      /\ UNCHANGED <<size, frames, piece, first_frame, fromUi, missed>>
  BY DEF Segment
<1>2. /\ frames \in Nat /\ piece \in Nat /\ first_frame \in Nat /\ iframe \in Nat
      /\ events \in Seq(Events) /\ Len(events) \in Nat /\ DOMAIN events = 1 .. Len(events)
  BY DEF AudioIInv, AudioTypeOK
<1>20. PICK half \in Nat \ {0} : Interval = 2 * half /\ Interval \div 2 = half
  <2>1. Interval \in Nat \ {0} /\ Interval % 2 = 0
    BY AudioAssumption
  <2> QED BY <2>1
<1>3. /\ PieceFrames \in Int /\ PieceFrames <= piece /\ PieceFrames <= frames - first_frame
      /\ first_frame < frames /\ piece > 0
      /\ SegmentFrames \in Nat \ {0} /\ SegmentFrames <= Interval
      /\ iframe + SegmentFrames <= PieceFrames
  <2>1. PieceFrames \in Int /\ PieceFrames <= piece /\ PieceFrames <= frames - first_frame
    BY <1>2 DEF PieceFrames, Least
  <2>2. SegmentFrames \in Nat \ {0} /\ SegmentFrames <= Interval
        /\ iframe + SegmentFrames <= PieceFrames
    BY <1>1, <1>2, <1>20, <2>1 DEF SegmentFrames, Least
  <2> QED BY <1>1, <1>2, <2>1, <2>2
<1>4. Now = first_frame + iframe /\ Now' = Now + SegmentFrames /\ Now \in Nat /\ Now < frames
      /\ Position = Now
  BY <1>1, <1>2, <1>3 DEF Now, Position
<1>5. PICK R \in 0 .. Len(events) :
         /\ R = Reads
         /\ \A i \in 1 .. R : PlaysNow(events[i])
         /\ R < Len(events) => ~PlaysNow(events[R + 1])
  BY <1>2, ReadsArePlayed
<1>21. R \in Nat /\ R <= Len(events) /\ Len(events) \in Nat
  BY <1>2
<1>6. /\ events' \in Seq(Events) /\ Len(events') = Len(events) - R
      /\ DOMAIN events' = 1 .. Len(events) - R
      /\ \A i \in 1 .. Len(events) - R :
            R + i \in 1 .. Len(events) /\ events'[i] = events[R + i]
      /\ R = Len(events) => events' = <<>>
  <2>1. PICK r :
           /\ r = SubSeq(events, R + 1, Len(events))
           /\ r \in Seq(Events) /\ Len(r) = Len(events) - R /\ DOMAIN r = 1 .. Len(events) - R
           /\ \A i \in 1 .. Len(events) - R : R + i \in 1 .. Len(events) /\ r[i] = events[R + i]
           /\ R = Len(events) => r = <<>>
    BY <1>2, RestOfSeq
  <2>2. events' = r
    BY <1>1, <1>5, <2>1
  <2> QED BY <2>1, <2>2
<1>22. ASSUME NEW i \in DOMAIN events'
       PROVE  /\ i \in Nat \ {0} /\ R + i \in DOMAIN events /\ R + i >= R + 1
              /\ events'[i] = events[R + i] /\ R + 1 \in DOMAIN events /\ R < Len(events)
  <2>1. i \in Nat \ {0} /\ i <= Len(events) - R /\ i \in 1 .. Len(events) - R
    BY ONLY <1>6, <1>21
  <2>2. R + i \in 1 .. Len(events) /\ events'[i] = events[R + i]
    BY ONLY <1>6, <2>1
  <2>3. R + 1 \in 1 .. Len(events) /\ R < Len(events) /\ R + i >= R + 1
    BY ONLY <1>21, <2>1
  <2> QED BY <1>2, <2>1, <2>2, <2>3
<1>7. /\ read \in Seq(Events) /\ DOMAIN read = 1 .. R
      /\ \A i \in 1 .. R : read[i] = events[i] /\ events[i] \in Events
  <2>1. \A i \in 1 .. R : events[i] \in Events
    BY <1>2, <1>5
  <2> QED BY <1>5, <2>1, SubSeqProperties
<1>8. midi \in Seq(Messages)
  <2>1. \A i \in 1 .. R : [kind |-> read[i].kind, key |-> read[i].key] \in Messages
    BY <1>7 DEF Events, Messages
  <2>2. midi = [i \in 1 .. R |-> [kind |-> read[i].kind, key |-> read[i].key]] /\ R \in Nat
    BY <1>5, <1>7
  <2> HIDE DEF midi, read
  <2> QED BY <2>1, <2>2
<1>9. \A i \in DOMAIN events : events[i].time \in Nat
  <2>1. ASSUME NEW i \in DOMAIN events PROVE events[i] \in Events
    BY <1>2
  <2> QED BY <2>1, AudioAssumption DEF Events
<1> HIDE DEF midi
<1>10. AudioTypeOK'
  <2>1. iframe' \in Nat /\ written' \in Nat
    <3>1. SegmentFrames \in Nat /\ iframe \in Nat /\ first_frame \in Nat
      BY <1>2, <1>3
    <3>2. iframe' = iframe + SegmentFrames /\ written' = first_frame + iframe + SegmentFrames
      BY <1>1
    <3> QED BY ONLY <3>1, <3>2
  <2>2. events' \in Seq(Events)
    BY <1>6
  <2> QED BY <1>1, <2>1, <2>2 DEF AudioIInv, AudioTypeOK
<1>11. NotesAgree(Notes)'
  BY <1>1, <1>8, NotesLeft
<1>12. PiecesFollow'
  <2>1. written' = Now'
    BY <1>1, <1>4
  <2>2. PieceFrames' = PieceFrames
    BY <1>1 DEF PieceFrames
  <2> QED BY <1>1, <1>3, <2>1, <2>2 DEF PiecesFollow
<1>13. EventsWait'
  <2>1. ASSUME Now' = frames' PROVE events' = <<>>
    <3>1. FinalSegment
      BY <1>1, <1>4, <2>1 DEF FinalSegment, Now
    <3>2. PlaysNow(events[R + 1])
      BY <3>1 DEF PlaysNow
    <3>3. R = Len(events)
      <4>1. R < Len(events) => FALSE
        BY ONLY <1>5, <3>2
      <4> QED BY <1>21, <4>1
    <3> QED BY <1>6, <3>3
  <2>2. \A i \in DOMAIN events' : events'[i].time < frames'
    BY <1>1, <1>2, <1>6 DEF AudioIInv, EventsWait
  <2>3. ASSUME NEW i \in DOMAIN events', NEW j \in DOMAIN events', i < j
        PROVE  events'[i].time <= events'[j].time
    <3>1. /\ R + i \in DOMAIN events /\ R + j \in DOMAIN events /\ R + i < R + j
          /\ events'[i] = events[R + i] /\ events'[j] = events[R + j]
      BY <1>21, <1>22, <2>3
    <3> QED BY <3>1 DEF AudioIInv, EventsWait
  <2>4. where' # "idle" /\ where' # "ended"
    BY <1>1
  <2> QED BY <2>1, <2>2, <2>3, <2>4 DEF EventsWait
<1>14. ~mistimed'
  <2>1. ASSUME missed = "no", NEW i \in 1 .. R PROVE ~FarFrom(read[i])
    <3>1. i \in DOMAIN events /\ read[i] = events[i] /\ PlaysNow(events[i])
      BY <1>2, <1>5, <1>7
    <3>2. PICK t \in Nat : t = events[i].time
      BY <1>9, <3>1
    <3>3. Now - t <= Interval \div 2 /\ t < frames
      BY <1>1, <2>1, <3>1, <3>2 DEF AudioIInv, NoneIsLate, EventsWait
    <3> PICK now \in Nat : now = Now
      BY <1>4
    <3> PICK step \in Nat : step = SegmentFrames
      BY <1>3
    <3>4. t - Now < Interval
      <4>1. CASE FinalSegment
        <5>1. frames = now + step /\ t < frames /\ step <= Interval /\ frames \in Nat
          BY <1>2, <1>3, <1>4, <3>3, <4>1 DEF FinalSegment, Now, Position
        <5>2. t - now < Interval
          BY ONLY <5>1, <1>20, half \in Nat \ {0}, now \in Nat, step \in Nat, t \in Nat
        <5> QED BY <5>2
      <4>2. CASE t < now \/ t - now < half
        <5>1. t - now < Interval
          BY ONLY <1>20, <4>2, half \in Nat \ {0}, now \in Nat, t \in Nat
        <5> QED BY <5>1
      <4>3. FinalSegment \/ t < now \/ t - now < half
        BY <1>4, <1>20, <3>1, <3>2 DEF PlaysNow
      <4> QED BY <4>1, <4>2, <4>3
    <3>5. ~(t - Now >= Interval) /\ ~(Now - t > Interval \div 2)
      <4>1. t - now < Interval /\ now - t <= half /\ Interval \div 2 = half /\ Interval \in Nat
        BY <1>20, <3>3, <3>4
      <4>2. ~(t - now >= Interval) /\ ~(now - t > half)
        BY ONLY <4>1, half \in Nat \ {0}, now \in Nat, t \in Nat
      <4> QED BY <4>1, <4>2
    <3> QED BY <1>4, <3>1, <3>2, <3>5 DEF FarFrom
  <2>2. ~mistimed
    BY DEF AudioIInv, NoneIsLate
  <2> QED BY <1>1, <1>7, <2>1, <2>2
<1>15. NoneIsLate'
  <2> SUFFICES ASSUME missed' = "no", NEW i \in DOMAIN events'
               PROVE  Now' - events'[i].time <= Interval \div 2
    BY <1>14 DEF NoneIsLate
  <2>1. R < Len(events) /\ R + 1 \in DOMAIN events /\ R + i \in DOMAIN events
        /\ events'[i] = events[R + i]
    BY <1>22
  <2>2. PICK t \in Nat : t = events[R + 1].time
    BY <1>9, <2>1
  <2>3. PICK u \in Nat : u = events[R + i].time
    BY <1>9, <2>1
  <2>4. t <= u
    <3>1. CASE i = 1
      BY <2>2, <2>3, <3>1
    <3>2. CASE i # 1
      <4>1. R + 1 < R + i
        BY <1>21, <1>22, <3>2
      <4> QED BY <2>1, <2>2, <2>3, <4>1 DEF AudioIInv, EventsWait
    <3> QED BY <3>1, <3>2
  <2>5. ~(t < Position) /\ ~(t - Position < Interval \div 2)
    BY <1>5, <2>1, <2>2 DEF PlaysNow
  <2>6. PICK now \in Nat, step \in Nat : now = Position /\ step = SegmentFrames
    BY <1>3, <1>4
  <2>7. now <= t /\ t - now >= half /\ step <= 2 * half /\ t <= u
    BY <1>3, <1>20, <2>2, <2>4, <2>5, <2>6
  <2>8. now + step - u <= half
    BY ONLY <2>7, half \in Nat \ {0}, now \in Nat, step \in Nat, t \in Nat, u \in Nat
  <2>9. Now' = now + step /\ events'[i].time = u /\ Interval \div 2 = half
    BY <1>4, <1>20, <2>1, <2>3, <2>6
  <2> QED BY <2>8, <2>9
<1> QED BY <1>10, <1>11, <1>12, <1>13, <1>15 DEF AudioIInv

\* It holds in every state.
LEMMA AudioInvariant == AudioSpec => []AudioIInv
<1>1. ASSUME AudioIInv, [AudioNext]_audioVars PROVE AudioIInv'
  <2>1. ASSUME NEW s \in Sizes, PrepareToPlay(s) PROVE AudioIInv'
    BY <1>1, <2>1, PrepareToPlayKeeps
  <2>2. ASSUME NEW n \in Lengths, NEW es \in Blocks, NEW wide \in BOOLEAN,
               StartBlock(n, es, wide)
        PROVE  AudioIInv'
    BY <1>1, <2>2, StartBlockKeeps
  <2>3. CASE Bypassed
    BY <1>1, <2>3, BypassedKeeps
  <2>4. CASE SilentPiece
    <3>1. /\ where \in {"piece", "segment"} /\ EndOfPiece(PieceFrames) /\ missed' = "last"
          /\ UNCHANGED <<size, frames, piece, iframe, events, fromUi, active, count, mistimed>>
      BY <2>4 DEF SilentPiece
    <3> QED BY <1>1, <3>1, EndOfPieceKeeps
  <2>5. CASE StartPiece
    BY <1>1, <2>5, StartPieceKeeps
  <2>6. CASE Segment
    BY <1>1, <2>6, SegmentKeeps
  <2>7. CASE EndPiece
    <3>1. /\ where = "segment" /\ iframe = PieceFrames /\ EndOfPiece(iframe) /\ missed' = missed
          /\ UNCHANGED <<size, frames, piece, iframe, events, fromUi, active, count, mistimed>>
      BY <2>7 DEF EndPiece
    <3> QED BY <1>1, <3>1, EndOfPieceKeeps
  <2>8. CASE BlockEnds
    BY <1>1, <2>8, BlockEndsKeeps
  <2>9. CASE \/ TakePlayer \/ LeavePlayer \/ UNCHANGED audioVars
             \/ \E m \in Messages : EditorPlays(m)
    BY <1>1, <2>9, OthersKeep
  <2> QED BY <1>1, <2>1, <2>2, <2>3, <2>4, <2>5, <2>6, <2>7, <2>8, <2>9 DEF AudioNext
<1> QED BY <1>1, AudioStarts, PTL DEF AudioSpec

\* The count a channel keeps is the number of the notes it holds, for every set of keys,
\* whatever notes, unpaired or repeated, a block and the editor's keyboard give it.
THEOREM NotesCounted == AudioSpec => []CountIsNotesHeld
<1>1. AudioIInv => CountIsNotesHeld
  BY DEF AudioIInv, NotesAgree, Notes, CountIsNotesHeld
<1> QED BY <1>1, AudioInvariant, PTL

\* A block of any length against the one prepared comes out whole and no more, its events
\* all played and on time, but for those of a last piece that finds the player taken.
THEOREM BlocksRendered == AudioSpec => []BlockIsRendered
<1>1. ASSUME AudioIInv PROVE BlockIsRendered
  <2>1. written <= frames /\ (where = "ended" => written = frames)
    <3>1. CASE where \in {"idle", "ended"}
      BY <1>1, <3>1 DEF AudioIInv, AudioTypeOK, PiecesFollow
    <3>2. CASE where = "piece"
      BY <1>1, <3>2 DEF AudioIInv, AudioTypeOK, PiecesFollow, Now
    <3>3. CASE where = "segment"
      <4>1. PieceFrames <= frames - first_frame
        BY <1>1 DEF AudioIInv, AudioTypeOK, PieceFrames, Least
      <4>2. PieceFrames \in Int
        BY <1>1 DEF AudioIInv, AudioTypeOK, PieceFrames, Least
      <4> QED BY <1>1, <3>3, <4>1, <4>2 DEF AudioIInv, AudioTypeOK, PiecesFollow, Now
    <3> QED BY <1>1, <3>1, <3>2, <3>3 DEF AudioIInv, AudioTypeOK
  <2>2. (where = "ended" /\ frames > 0 /\ missed # "last" /\ piece > 0) => events = <<>>
    BY <1>1 DEF AudioIInv, EventsWait
  <2>3. ~mistimed
    BY <1>1 DEF AudioIInv, NoneIsLate
  <2> QED BY <2>1, <2>2, <2>3 DEF BlockIsRendered, BlockIsPlayed, EventsOnTime
<1> QED BY <1>1, AudioInvariant, PTL

-----------------------------------------------------------------------------
(* Whole numbers.                                                          *)

\* The quotient and what is left.
LEMMA Quotient ==
    ASSUME NEW n \in Int, NEW d \in Nat \ {0}
    PROVE  /\ n \div d \in Int
           /\ (n \div d) * d <= n /\ n < (n \div d) * d + d
           /\ (n \div d) * d = n - (n % d)
OBVIOUS

\* A quotient times what it was divided by is the product of the two.
LEMMA Products ==
    ASSUME NEW a \in Int, NEW b \in Int
    PROVE  a * b \in Int
OBVIOUS

\* What is less than the next multiple is no more than the factor.
LEMMA Factors ==
    ASSUME NEW a \in Int, NEW b \in Int, NEW d \in Nat \ {0},
           a * d < b * d + d
    PROVE  a <= b
<1> SUFFICES ASSUME a >= b + 1 PROVE FALSE
  OBVIOUS
<1>1. PICK k \in Nat : a = b + 1 + k
  <2>1. a - b - 1 \in Nat
    OBVIOUS
  <2> QED BY <2>1
<1>2. a * d = b * d + d + k * d
  BY <1>1
<1>3. k * d >= 0
  BY <1>1
<1> QED BY <1>2, <1>3

\* Rounded up, a quotient is the least that makes up the number.
LEMMA CeilingReaches ==
    ASSUME NEW n \in Nat, NEW d \in Nat \ {0}
    PROVE  /\ Ceiling(n, d) \in Nat
           /\ n <= Ceiling(n, d) * d /\ Ceiling(n, d) * d <= n + d - 1
           /\ \A a \in Int : a * d <= n + d - 1 => a <= Ceiling(n, d)
<1> DEFINE q == (n + d - 1) \div d
<1>1. /\ q \in Int /\ q * d <= n + d - 1 /\ n + d - 1 < q * d + d
  BY Quotient
<1>2. q \in Nat
  <2>1. 0 * d < q * d + d
    BY <1>1
  <2> QED BY <1>1, <2>1, Factors
<1>3. n <= q * d
  BY <1>1
<1>4. ASSUME NEW a \in Int, a * d <= n + d - 1 PROVE a <= q
  <2>1. a * d < q * d + d
    BY <1>1, <1>4
  <2> QED BY <1>1, <2>1, Factors
<1> QED BY <1>1, <1>2, <1>3, <1>4 DEF Ceiling

-----------------------------------------------------------------------------
(* What a call wants of the chip and what the filter makes of it.          *)

\* A filter that is in use has a ratio of two positive numbers.
LEMMA RatioInUse ==
    ASSUME ratio \in Ratios \cup {Unprepared}, Active
    PROVE  ratio \in Ratios /\ ratio.up \in Nat \ {0} /\ ratio.down \in Nat \ {0}
BY ResamplerAssumption DEF Active

\* A call wants n of the chip, no more than the longest call takes, and
\* they are less than two of the chip's n more than it needs.
LEMMA WantIsBounded ==
    ASSUME NEW up \in Nat \ {0}, NEW down \in Nat \ {0}, ratio.up = up, ratio.down = down,
           NEW n \in Nat, n = asked - done
    PROVE  /\ MaxIn \in Nat /\ Want \in Nat /\ Want <= MaxIn
           /\ Want * up <= n * down + 2 * up - 1
<1> DEFINE longest == Ceiling(MaxFrames * down, up)
           needed == Ceiling(n * down, up)
<1>1. MaxFrames * down \in Nat /\ n * down \in Nat
  BY ResamplerAssumption
<1>2. longest \in Nat
  BY <1>1, CeilingReaches
<1>3. needed \in Nat /\ needed * up <= n * down + up - 1
  BY <1>1, CeilingReaches
<1> HIDE DEF longest, needed
<1>4. MaxIn = longest + 2 /\ ChipFramesFor(asked - done) = needed + 1
  BY DEF MaxIn, ChipFramesFor, longest, needed
<1>5. (needed + 1) * up <= n * down + 2 * up - 1
  <2>1. (needed + 1) * up = needed * up + up
    BY <1>3
  <2> QED BY <1>1, <1>3, <2>1
<1>6. Want \in Nat /\ Want <= MaxIn /\ Want <= needed + 1
  BY <1>2, <1>3, <1>4 DEF Want, Lesser
<1>7. Want * up <= (needed + 1) * up
  <2>1. PICK k \in Nat : needed + 1 = Want + k
    <3>1. needed + 1 - Want \in Nat
      BY <1>3, <1>6
    <3> QED BY <1>3, <1>6, <3>1
  <2>2. (needed + 1) * up = Want * up + k * up /\ k * up >= 0
    BY <1>6, <2>1
  <2>3. Want * up \in Int /\ k * up \in Int
    BY <1>6, <2>1
  <2> QED BY <2>2, <2>3
<1>8. Want * up \in Int /\ (needed + 1) * up \in Int /\ n * down + 2 * up - 1 \in Int
  BY <1>3, <1>6
<1> QED BY <1>2, <1>4, <1>5, <1>6, <1>7, <1>8

\* Of n frames the filter makes whole frames, and is left with less than one.
LEMMA FilterMakes ==
    ASSUME NEW up \in Nat \ {0}, NEW down \in Nat \ {0}, ratio.up = up, ratio.down = down,
           credit \in Int, credit < down, NEW n \in Nat
    PROVE  /\ Produced(n) \in Nat
           /\ Produced(n) * down <= n * up + down - 1
           /\ credit + n * up - Produced(n) * down \in Int
           /\ credit + n * up - Produced(n) * down < down
<1> DEFINE c == credit + n * up
<1>1. n * up \in Nat /\ c \in Int
  OBVIOUS
<1>2. CASE c < 0
  <2>1. Produced(n) = 0
    BY <1>2 DEF Produced
  <2> QED BY <1>1, <1>2, <2>1
<1>3. CASE ~(c < 0)
  <2> DEFINE q == c \div down
  <2>1. Produced(n) = q
    BY <1>3 DEF Produced
  <2>2. q \in Int /\ q * down <= c /\ c < q * down + down
    BY <1>1, Quotient
  <2>3. 0 * down < q * down + down
    BY <1>1, <1>3, <2>2
  <2>4. q \in Nat
    BY <2>2, <2>3, Factors
  <2> HIDE DEF q
  <2>5. q * down \in Int
    BY <2>2
  <2> QED BY <1>1, <2>1, <2>2, <2>4, <2>5
<1> QED BY <1>2, <1>3

-----------------------------------------------------------------------------
(* What is held fits and is soon given.                                    *)

\* What the filter makes of what a call wants fits held_, and what is over once
\* the call has its n is less than three of the chip's n make.
LEMMA RestIsBounded ==
    ASSUME NEW up \in Nat \ {0}, NEW down \in Nat \ {0}, ratio.up = up, ratio.down = down,
           credit \in Int, credit < down,
           NEW n \in Nat, n = asked - done
    PROVE  /\ Produced(Want) <= MaxOutput(MaxIn)
           /\ Produced(Want) - n <= Ceiling(3 * up, down)
<1>1. /\ MaxIn \in Nat /\ Want \in Nat /\ Want <= MaxIn
      /\ Want * up <= n * down + 2 * up - 1
  BY WantIsBounded
<1>2. Produced(Want) \in Nat /\ Produced(Want) * down <= Want * up + down - 1
  BY <1>1, FilterMakes
<1> DEFINE made1 == Produced(Want)
           want == Want
           most == MaxIn
<1>3. made1 \in Nat /\ want \in Nat /\ most \in Nat /\ want <= most
  BY <1>1, <1>2
<1>4. made1 * down <= want * up + down - 1 /\ want * up <= n * down + 2 * up - 1
  BY <1>1, <1>2
<1>5. MaxOutput(most) = Ceiling(most * up, down) + 1
  BY DEF MaxOutput
<1> HIDE DEF made1, want, most
<1>6. made1 <= MaxOutput(most)
  <2>1. want * up <= most * up
    <3>1. PICK k \in Nat : most = want + k
      <4>1. most - want \in Nat
        BY <1>3
      <4> QED BY <1>3, <4>1
    <3>2. most * up = want * up + k * up /\ k * up >= 0 /\ k * up \in Int /\ want * up \in Int
      BY <1>3, <3>1
    <3> QED BY <3>2
  <2>2. most * up \in Nat /\ want * up \in Int /\ made1 * down \in Int
    BY <1>3
  <2>3. made1 * down <= most * up + down - 1
    BY <1>4, <2>1, <2>2
  <2>4. Ceiling(most * up, down) \in Nat
    BY <2>2, CeilingReaches
  <2>5. made1 <= Ceiling(most * up, down)
    <3>1. \A a \in Int : a * down <= most * up + down - 1 => a <= Ceiling(most * up, down)
      BY <2>2, CeilingReaches
    <3> QED BY <1>3, <2>3, <3>1
  <2> QED BY <1>3, <1>5, <2>4, <2>5
<1>7. made1 - n <= Ceiling(3 * up, down)
  <2>1. (made1 - n) * down = made1 * down - n * down
    BY <1>3
  <2>2. made1 * down \in Int /\ n * down \in Int /\ want * up \in Int
    BY <1>3
  <2>3. (made1 - n) * down <= 3 * up + down - 1
    BY <1>4, <2>1, <2>2
  <2>4. 3 * up \in Nat /\ made1 - n \in Int
    BY <1>3
  <2> QED BY <2>3, <2>4, CeilingReaches
<1> QED BY <1>6, <1>7 DEF made1, most

\* The bounds of what is held are numbers.
LEMMA BoundsAreNumbers ==
    ASSUME NEW up \in Nat \ {0}, NEW down \in Nat \ {0}
    PROVE  /\ Ceiling((Ceiling(MaxFrames * down, up) + 2) * up, down) \in Nat
           /\ Ceiling(3 * up, down) \in Nat
<1> DEFINE longest == Ceiling(MaxFrames * down, up)
<1>1. longest \in Nat
  <2>1. MaxFrames * down \in Nat
    BY ResamplerAssumption
  <2> QED BY <2>1, CeilingReaches
<1> HIDE DEF longest
<1>2. (longest + 2) * up \in Nat /\ 3 * up \in Nat
  BY <1>1
<1>3. Ceiling((longest + 2) * up, down) \in Nat
  BY <1>2, CeilingReaches
<1>4. Ceiling(3 * up, down) \in Nat
  BY <1>2, CeilingReaches
<1> QED BY <1>3, <1>4 DEF longest

-----------------------------------------------------------------------------
(* The steps.                                                              *)

\* A resampler that was not prepared holds nothing and gives nothing.
LEMMA ResamplerStarts == ResamplerInit => ResamplerIInv
<1> SUFFICES ASSUME ResamplerInit PROVE ResamplerIInv
  OBVIOUS
<1> USE DEF ResamplerInit
<1>1. ~Active
  BY DEF Active
<1>2. ResamplerTypeOK
  BY ResamplerAssumption DEF ResamplerTypeOK
<1>3. CountsAgree
  BY <1>1 DEF CountsAgree
<1>4. FramesConserved
  BY <1>1 DEF FramesConserved, HeldIsBounded
<1> QED BY <1>2, <1>3, <1>4 DEF ResamplerIInv

\* One that is prepared anew has forgotten what it held.
LEMMA PrepareKeeps ==
    ASSUME ResamplerIInv, NEW r \in Ratios, NEW delay \in Delays, Prepare(r, delay)
    PROVE  ResamplerIInv'
<1> USE DEF Prepare, Forgotten
<1>1. r.up \in Nat \ {0} /\ r.down \in Nat \ {0} /\ delay \in Nat
  BY ResamplerAssumption
<1>2. ResamplerTypeOK'
  BY ResamplerAssumption DEF ResamplerTypeOK, ResamplerIInv
<1>3. CountsAgree'
  <2>1. delay * r.up \in Nat
    BY <1>1
  <2>2. credit' = -(delay * r.up) /\ -(delay * r.up) \in Int /\ -(delay * r.up) < r.down
    BY <1>1, <2>1
  <2>3. credit' \in Int /\ credit' < ratio'.down
    BY <2>2
  <2> QED BY <2>3 DEF CountsAgree, ResamplerIInv
<1>4. HeldIsBounded'
  <2>1. MaxOutput(MaxIn)' = Ceiling((Ceiling(MaxFrames * r.down, r.up) + 2) * r.up, r.down) + 1
    BY DEF MaxOutput, MaxIn
  <2>2. Ceiling(3 * ratio.up, ratio.down)' = Ceiling(3 * r.up, r.down)
    BY DEF Ceiling
  <2>3. MaxOutput(MaxIn)' \in Nat
    <3>1. Ceiling((Ceiling(MaxFrames * r.down, r.up) + 2) * r.up, r.down) \in Nat
      BY <1>1, BoundsAreNumbers
    <3> QED BY <2>1, <3>1
  <2>4. Ceiling(3 * ratio.up, ratio.down)' \in Nat
    BY <1>1, <2>2, BoundsAreNumbers
  <2>5. heldAt' = 0 /\ heldCount' = 0
    OBVIOUS
  <2> HIDE DEF Prepare, Forgotten
  <2> QED BY <2>3, <2>4, <2>5 DEF HeldIsBounded
<1> QED BY <1>2, <1>3, <1>4 DEF ResamplerIInv, FramesConserved

\* Without a filter nothing is held.
LEMMA UnprepareKeeps == ResamplerIInv /\ Unprepare => ResamplerIInv'
<1> SUFFICES ASSUME ResamplerIInv, Unprepare PROVE ResamplerIInv'
  OBVIOUS
<1> USE DEF Unprepare, Forgotten
<1>1. ~Active'
  BY DEF Active
<1>2. ResamplerTypeOK'
  BY ResamplerAssumption DEF ResamplerTypeOK, ResamplerIInv
<1>3. CountsAgree'
  BY <1>1 DEF CountsAgree
<1>4. FramesConserved'
  BY <1>1 DEF FramesConserved, HeldIsBounded
<1> QED BY <1>2, <1>3, <1>4 DEF ResamplerIInv

\* The bounds of what is held are those of the ratio.
LEMMA BoundsStay ==
    ratio' = ratio => /\ Active' = Active
                      /\ MaxOutput(MaxIn)' = MaxOutput(MaxIn)
                      /\ Ceiling(3 * ratio.up, ratio.down)' = Ceiling(3 * ratio.up, ratio.down)
BY DEF Active, MaxOutput, MaxIn

\* A call is given the next of what is held, and what stays held is next.
LEMMA PullKeeps ==
    ASSUME ResamplerIInv, NEW n \in 1 .. MaxFrames, Pull(n)
    PROVE  ResamplerIInv'
<1> DEFINE use == Lesser(heldCount, n)
<1> USE DEF ResamplerIInv
<1>1. /\ Active /\ asked = 0 /\ asked' = n
      /\ heldAt' = heldAt + use /\ heldCount' = heldCount - use
      /\ done' = use /\ given' = given + use
      /\ jumped' = (jumped \/ (use > 0 /\ heldFrom + heldAt # given))
      /\ UNCHANGED <<ratio, credit, heldFrom, made>>
  BY DEF Pull, TakeHeld, TakeFromHeld
<1>2. n \in Nat \ {0} /\ n <= MaxFrames /\ heldCount \in Nat /\ heldAt \in Nat
  BY ResamplerAssumption DEF ResamplerTypeOK
<1>3. use \in Nat /\ use <= n /\ use <= heldCount /\ (use = n \/ use = heldCount)
  BY <1>2 DEF Lesser
<1> HIDE DEF use
<1>4. ResamplerTypeOK'
  BY <1>1, <1>2, <1>3, ResamplerAssumption DEF ResamplerTypeOK
<1>5. CountsAgree'
  <2>1. credit' \in Int /\ heldFrom' \in Int /\ made' \in Int /\ given' \in Int
    BY <1>1, <1>3 DEF CountsAgree
  <2>2. Active' /\ credit' < ratio'.down
    BY <1>1, BoundsStay DEF CountsAgree
  <2>3. heldCount' > 0 => heldFrom' + heldAt' = given'
    BY <1>1, <1>2, <1>3 DEF CountsAgree
  <2>4. done' < asked' => heldCount' = 0
    BY <1>1, <1>2, <1>3
  <2> QED BY <2>1, <2>2, <2>3, <2>4 DEF CountsAgree
<1>6. ~jumped'
  <2>1. use > 0 => heldFrom + heldAt = given
    BY <1>2, <1>3 DEF CountsAgree
  <2>2. ~jumped
    BY DEF FramesConserved
  <2> QED BY <1>1, <2>1, <2>2
<1>7. made' = given' + heldCount'
  BY <1>1, <1>2, <1>3 DEF FramesConserved, CountsAgree
<1>8. HeldIsBounded'
  <2>1. /\ heldAt + heldCount <= MaxOutput(MaxIn)
        /\ heldCount <= Ceiling(3 * ratio.up, ratio.down)
    BY <1>1 DEF FramesConserved, HeldIsBounded
  <2>2. heldAt' + heldCount' = heldAt + heldCount /\ heldCount' \in Int
    BY <1>1, <1>2, <1>3
  <2>3. Ceiling(3 * ratio.up, ratio.down) \in Int
    <3>1. ratio.up \in Nat \ {0} /\ ratio.down \in Nat \ {0}
      BY <1>1, RatioInUse DEF ResamplerTypeOK
    <3>2. Ceiling(3 * ratio.up, ratio.down) \in Nat
      BY <3>1, BoundsAreNumbers
    <3> QED BY <3>2
  <2>4. heldCount' <= Ceiling(3 * ratio.up, ratio.down)
    BY <1>1, <1>2, <1>3, <2>1, <2>2, <2>3
  <2> QED BY <1>1, <2>1, <2>2, <2>4, BoundsStay DEF HeldIsBounded
<1> QED BY <1>4, <1>5, <1>6, <1>7, <1>8 DEF FramesConserved

\* What the filter makes for a call is given in order, and the rest is held.
LEMMA RefillKeeps == ResamplerIInv /\ Refill => ResamplerIInv'
<1> SUFFICES ASSUME ResamplerIInv, Refill PROVE ResamplerIInv'
  OBVIOUS
<1> DEFINE up == ratio.up
           down == ratio.down
           left == asked - done
           produced == Produced(Want)
           use == Lesser(produced, left)
<1> USE DEF ResamplerIInv
<1>1. /\ asked > 0 /\ done < asked
      /\ credit' = credit + Want * up - produced * down
      /\ heldCount' = produced - use /\ heldAt' = 0 /\ heldFrom' = made + use
      /\ made' = made + produced
      /\ done' = done + use /\ given' = given + use
      /\ jumped' = (jumped \/ (use > 0 /\ made # given))
      /\ UNCHANGED <<ratio, asked>>
  BY DEF Refill, HoldRest
<1>2. /\ Active /\ heldCount = 0 /\ made = given
      /\ asked \in Nat /\ asked <= MaxFrames /\ done \in Nat
      /\ credit \in Int /\ credit < down /\ made \in Int /\ given \in Int
  BY <1>1, ResamplerAssumption
     DEF ResamplerTypeOK, CountsAgree, FramesConserved
<1>3. up \in Nat \ {0} /\ down \in Nat \ {0}
  BY <1>2, RatioInUse DEF ResamplerTypeOK
<1>4. left \in Nat \ {0}
  BY <1>1, <1>2
<1>5. Want \in Nat
  BY <1>3, <1>4, WantIsBounded
<1>6. /\ produced \in Nat
      /\ credit + Want * up - produced * down \in Int
      /\ credit + Want * up - produced * down < down
  BY <1>2, <1>3, <1>5, FilterMakes
<1>7. produced <= MaxOutput(MaxIn) /\ produced - left <= Ceiling(3 * up, down)
  BY <1>2, <1>3, <1>4, RestIsBounded
<1>8. MaxOutput(MaxIn) \in Int /\ Ceiling(3 * up, down) \in Nat
  <2>1. Ceiling((Ceiling(MaxFrames * down, up) + 2) * up, down) \in Nat
    BY <1>3, BoundsAreNumbers
  <2>2. MaxOutput(MaxIn) = Ceiling((Ceiling(MaxFrames * down, up) + 2) * up, down) + 1
    BY DEF MaxOutput, MaxIn
  <2>3. Ceiling(3 * up, down) \in Nat
    BY <1>3, BoundsAreNumbers
  <2> QED BY <2>1, <2>2, <2>3
<1>9. /\ use \in Nat /\ use <= produced /\ use <= left
      /\ (use = produced \/ use = left)
  BY <1>4, <1>6 DEF Lesser
<1>10. credit' \in Int /\ credit' < down
  BY <1>1, <1>6
<1>11. /\ heldCount' = produced - use /\ heldAt' = 0 /\ heldFrom' = made + use
       /\ made' = made + produced /\ done' = done + use /\ given' = given + use
       /\ jumped' = (jumped \/ (use > 0 /\ made # given))
       /\ ratio' = ratio /\ asked' = asked /\ left = asked - done
  BY <1>1
<1> HIDE DEF up, down, left, produced, use
<1>12. ResamplerTypeOK'
  <2>1. ratio' \in Ratios \cup {Unprepared} /\ asked' \in 0 .. MaxFrames
    BY <1>11 DEF ResamplerTypeOK
  <2>2. heldCount' \in Nat /\ heldAt' \in Nat /\ done' \in 0 .. asked'
    BY <1>2, <1>4, <1>6, <1>9, <1>11
  <2> QED BY <2>1, <2>2 DEF ResamplerTypeOK
<1>13. CountsAgree'
  <2>1. heldFrom' \in Int /\ made' \in Int /\ given' \in Int
    BY <1>2, <1>6, <1>9, <1>11
  <2>2. Active' /\ credit' < ratio'.down
    BY <1>2, <1>10, <1>11, BoundsStay DEF down
  <2>3. heldFrom' + heldAt' = given'
    BY <1>2, <1>9, <1>11
  <2>4. done' < asked' => heldCount' = 0
    BY <1>2, <1>4, <1>6, <1>9, <1>11
  <2> QED BY <1>10, <2>1, <2>2, <2>3, <2>4 DEF CountsAgree
<1>14. ~jumped'
  BY <1>2, <1>11 DEF FramesConserved
<1>15. made' = given' + heldCount'
  BY <1>2, <1>6, <1>9, <1>11
<1>16. HeldIsBounded'
  <2>1. heldAt' + heldCount' <= MaxOutput(MaxIn)
    BY <1>6, <1>7, <1>8, <1>9, <1>11
  <2>2. heldCount' <= Ceiling(3 * up, down)
    BY <1>4, <1>6, <1>7, <1>8, <1>9, <1>11
  <2> QED BY <1>11, <2>1, <2>2, BoundsStay DEF HeldIsBounded, up, down
<1> QED BY <1>12, <1>13, <1>14, <1>15, <1>16 DEF FramesConserved

\* At the end of a call all that was made is given or held.
LEMMA ReturnKeeps == ResamplerIInv /\ Return => ResamplerIInv'
<1> SUFFICES ASSUME ResamplerIInv, Return PROVE ResamplerIInv'
  OBVIOUS
<1> USE DEF ResamplerIInv
<1>1. /\ asked > 0 /\ done = asked /\ asked' = 0 /\ done' = 0
      /\ made' = made - given /\ heldFrom' = heldFrom - given /\ given' = 0
      /\ UNCHANGED <<ratio, credit, heldCount, heldAt, jumped>>
  BY DEF Return
<1>2. /\ Active /\ made = given + heldCount
      /\ heldCount \in Nat /\ heldAt \in Nat /\ asked \in Nat
      /\ made \in Int /\ given \in Int /\ heldFrom \in Int
  BY <1>1, ResamplerAssumption DEF ResamplerTypeOK, CountsAgree, FramesConserved
<1>3. ResamplerTypeOK'
  BY <1>1, <1>2, ResamplerAssumption DEF ResamplerTypeOK
<1>4. CountsAgree'
  <2>1. Active' /\ credit' \in Int /\ credit' < ratio'.down
    BY <1>1, <1>2, BoundsStay DEF CountsAgree
  <2>2. heldFrom' \in Int /\ made' \in Int /\ given' \in Int
    BY <1>1, <1>2
  <2>3. heldCount' > 0 => heldFrom' + heldAt' = given'
    BY <1>1, <1>2 DEF CountsAgree
  <2>4. ~(done' < asked')
    BY <1>1
  <2> QED BY <2>1, <2>2, <2>3, <2>4 DEF CountsAgree
<1>5. HeldIsBounded'
  BY <1>1, BoundsStay DEF HeldIsBounded, FramesConserved
<1>6. ~jumped' /\ made' = given' + heldCount'
  BY <1>1, <1>2 DEF FramesConserved
<1> QED BY <1>3, <1>4, <1>5, <1>6 DEF FramesConserved

\* Nothing happens.
LEMMA ResamplerStutters ==
    ResamplerIInv /\ UNCHANGED resamplerVars => ResamplerIInv'
<1> SUFFICES ASSUME ResamplerIInv, UNCHANGED resamplerVars PROVE ResamplerIInv'
  OBVIOUS
<1> USE DEF resamplerVars, ResamplerIInv
<1>1. ResamplerTypeOK' /\ CountsAgree'
  BY DEF ResamplerTypeOK, CountsAgree, Active
<1>2. FramesConserved'
  BY BoundsStay DEF FramesConserved, HeldIsBounded
<1> QED BY <1>1, <1>2

-----------------------------------------------------------------------------
(* The theorems.                                                           *)

\* Every state of the resampler has the invariant.
LEMMA ResamplerInvariant == ResamplerSpec => []ResamplerIInv
<1>1. ResamplerIInv /\ [ResamplerNext]_resamplerVars => ResamplerIInv'
  <2> SUFFICES ASSUME ResamplerIInv, [ResamplerNext]_resamplerVars
               PROVE  ResamplerIInv'
    OBVIOUS
  <2>1. CASE \E r \in Ratios, delay \in Delays : Prepare(r, delay)
    BY <2>1, PrepareKeeps
  <2>2. CASE Unprepare
    BY <2>2, UnprepareKeeps
  <2>3. CASE \E n \in 1 .. MaxFrames : Pull(n)
    BY <2>3, PullKeeps
  <2>4. CASE Refill
    BY <2>4, RefillKeeps
  <2>5. CASE Return
    BY <2>5, ReturnKeeps
  <2>6. CASE UNCHANGED resamplerVars
    BY <2>6, ResamplerStutters
  <2> QED BY <2>1, <2>2, <2>3, <2>4, <2>5, <2>6 DEF ResamplerNext
<1> QED BY <1>1, ResamplerStarts, PTL DEF ResamplerSpec

\* pull() fills no more of the block than it was asked to, and the counts of what
\* take_held() has to give never go below none.
THEOREM ResamplerTypeCorrect == ResamplerSpec => []ResamplerTypeOK
<1>1. ResamplerIInv => ResamplerTypeOK
  BY DEF ResamplerIInv
<1> QED BY <1>1, ResamplerInvariant, PTL

\* Every frame that the filter makes is given once and in order or is held, and
\* what is held fits held_ and does not pile up, whatever the ratio, the lengths
\* of the calls and the delay of the filter.
THEOREM ResamplerCorrect == ResamplerSpec => []FramesConserved
<1>1. ResamplerIInv => FramesConserved
  BY DEF ResamplerIInv
<1> QED BY <1>1, ResamplerInvariant, PTL

-----------------------------------------------------------------------------
(* The history of the frames of a measurement.                             *)

\* The history holds the last of n frames, oldest first, and each of them twice.
IsHistory(h, n) ==
    /\ h = [data |-> h.data, at |-> h.at, length |-> h.length]
    /\ h.data = [k \in 0 .. 2 * HistoryFrames - 1 |-> h.data[k]]
    /\ h.at \in 0 .. HistoryFrames - 1
    /\ h.length = IF n < HistoryFrames THEN n ELSE HistoryFrames
    /\ \A i \in 0 .. HistoryFrames - 1 : h.data[i] = h.data[i + HistoryFrames]
    /\ \A j \in 0 .. h.length - 1 : h.data[h.at + HistoryFrames - 1 - j] = n - j

\* An empty one.
LEMMA HistoryStarts ==
    ASSUME MeasurementAssumption
    PROVE  IsHistory([data |-> NewHistory, at |-> 0, length |-> 0], 0)
<1>1. HistoryFrames \in Nat \ {0}
  BY DEF MeasurementAssumption
<1> QED BY <1>1 DEF IsHistory, NewHistory

\* One more frame.
LEMMA AddedKeeps ==
    ASSUME MeasurementAssumption, NEW h, NEW n \in Nat, IsHistory(h, n)
    PROVE  IsHistory(Added(h, n + 1), n + 1)
<1> PICK H \in Nat \ {0} : H = HistoryFrames
  BY DEF MeasurementAssumption
<1> PICK d, at, len : d = h.data /\ at = h.at /\ len = h.length
  OBVIOUS
<1>1. /\ at \in 0 .. H - 1 /\ len = (IF n < H THEN n ELSE H) /\ len \in Nat
      /\ d = [k \in 0 .. 2 * H - 1 |-> d[k]]
      /\ \A i \in 0 .. H - 1 : d[i] = d[i + H]
      /\ \A j \in 0 .. len - 1 : d[at + H - 1 - j] = n - j
  BY DEF IsHistory
<1> PICK g : g = Added(h, n + 1)
  OBVIOUS
<1> PICK e, to, more : e = g.data /\ to = g.at /\ more = g.length
  OBVIOUS
<1>2. /\ g = [data |-> e, at |-> to, length |-> more]
      /\ e = [d EXCEPT ![at] = n + 1, ![at + H] = n + 1]
      /\ to = (IF at + 1 # H THEN at + 1 ELSE 0)
      /\ more = (IF len + 1 < H THEN len + 1 ELSE H)
  BY DEF Added
<1>3. more = (IF n + 1 < H THEN n + 1 ELSE H) /\ more \in Nat /\ more <= len + 1 /\ more <= H
  BY <1>1, <1>2
<1>4. to \in 0 .. H - 1
  BY <1>1, <1>2
<1>5. /\ \A k \in 0 .. 2 * H - 1 : e[k] = IF k = at \/ k = at + H THEN n + 1 ELSE d[k]
      /\ e = [k \in 0 .. 2 * H - 1 |-> e[k]]
  BY <1>1, <1>2
<1>8. at \in Nat /\ at < H
  BY <1>1
<1>6. ASSUME NEW i \in 0 .. H - 1 PROVE e[i] = e[i + H]
  <2>1. /\ i \in 0 .. 2 * H - 1 /\ i + H \in 0 .. 2 * H - 1
        /\ i # at + H /\ i + H # at /\ (i + H = at + H <=> i = at)
    BY ONLY <1>8, i \in 0 .. H - 1, H \in Nat \ {0}
  <2>2. d[i] = d[i + H]
    BY <1>1
  <2> QED BY <1>5, <2>1, <2>2
<1>7. ASSUME NEW j \in 0 .. more - 1 PROVE e[to + H - 1 - j] = (n + 1) - j
  <2>1. CASE j = 0
    <3>1. to + H - 1 - j = at + H \/ to + H - 1 - j = at
      BY <1>1, <1>2, <2>1
    <3>2. at + H \in 0 .. 2 * H - 1 /\ at \in 0 .. 2 * H - 1
      BY <1>1
    <3>3. e[at] = n + 1 /\ e[at + H] = n + 1
      BY <1>5, <3>2
    <3> QED BY <2>1, <3>1, <3>3
  <2>2. CASE j # 0
    <3>1. j - 1 \in 0 .. len - 1 /\ j \in 1 .. H - 1
      BY <1>1, <1>3, <2>2
    <3>2. d[at + H - 1 - (j - 1)] = n - (j - 1)
      BY <1>1, <3>1
    <3>3. at + H - 1 - (j - 1) = at + H - j /\ n - (j - 1) = (n + 1) - j
      BY <1>1, <3>1
    <3>4. d[at + H - j] = (n + 1) - j
      BY <3>2, <3>3
    <3>5. CASE at + 1 # H
      <4>1. to + H - 1 - j = at + H - j /\ at + H - j \in 0 .. 2 * H - 1
            /\ at + H - j # at /\ at + H - j # at + H
        <5>1. to = at + 1
          BY <1>2, <3>5
        <5> QED BY ONLY <1>8, <3>1, <5>1, H \in Nat \ {0}
      <4> QED BY <1>5, <3>4, <4>1
    <3>6. CASE at + 1 = H
      <4>1. to + H - 1 - j = at - j /\ at - j \in 0 .. H - 1 /\ at - j \in 0 .. 2 * H - 1
            /\ at - j # at /\ at - j # at + H /\ (at - j) + H = at + H - j
        <5>1. to = 0
          BY <1>2, <3>6
        <5> QED BY ONLY <1>8, <3>1, <3>6, <5>1, H \in Nat \ {0}
      <4>2. d[at - j] = d[at + H - j]
        BY <1>1, <4>1
      <4> QED BY <1>5, <3>4, <4>1, <4>2
    <3> QED BY <3>5, <3>6
  <2> QED BY <2>1, <2>2
<1> QED BY <1>2, <1>3, <1>4, <1>5, <1>6, <1>7 DEF IsHistory

\* The history as it is,
HistoryNow == [data |-> recent, at |-> recentAt, length |-> recentLength]

\* and what the first frames of a period make of it, by their number.
AfterFrames(f, m) ==
    f = [n \in 0 .. m |-> IF n = 0 THEN HistoryNow ELSE Added(f[n - 1], played + n)]

\* There is such a function,
LEMMA AfterFramesExists ==
    ASSUME NEW m \in Nat
    PROVE  \E f : AfterFrames(f, m)
<1> DEFINE T == {l \in Nat : \E f : AfterFrames(f, l)}
<1>1. 0 \in T
  <2> DEFINE f0 == [n \in 0 .. 0 |-> HistoryNow]
  <2>1. AfterFrames(f0, 0)
    BY DEF AfterFrames
  <2> QED BY <2>1
<1>2. ASSUME NEW l \in Nat, l \in T PROVE l + 1 \in T
  <2>1. PICK f : AfterFrames(f, l)
    BY <1>2
  <2> DEFINE g == [n \in 0 .. l + 1 |-> IF n <= l THEN f[n] ELSE Added(f[l], played + n)]
  <2>2. ASSUME NEW n \in 0 .. l + 1
        PROVE  g[n] = IF n = 0 THEN HistoryNow ELSE Added(g[n - 1], played + n)
    <3>1. CASE n = l + 1
      <4>1. g[n] = Added(f[l], played + n) /\ n - 1 = l /\ g[l] = f[l] /\ n # 0
        BY <3>1
      <4> HIDE DEF g
      <4> QED BY <4>1
    <3>2. CASE n # l + 1
      <4>1. n \in 0 .. l /\ g[n] = f[n]
        BY <3>2
      <4>2. f[n] = IF n = 0 THEN HistoryNow ELSE Added(f[n - 1], played + n)
        BY <2>1, <4>1 DEF AfterFrames
      <4>3. n # 0 => g[n - 1] = f[n - 1]
        BY <3>2
      <4> HIDE DEF g
      <4> QED BY <4>1, <4>2, <4>3
    <3> QED BY <3>1, <3>2
  <2>3. g = [n \in 0 .. l + 1 |-> g[n]]
    OBVIOUS
  <2> HIDE DEF g
  <2>4. AfterFrames(g, l + 1)
    BY <2>2, <2>3 DEF AfterFrames
  <2> QED BY <2>4
<1> HIDE DEF T
<1>3. m \in T
  BY <1>1, <1>2, InductionBySet
<1> QED BY <1>3 DEF T

\* so that the last of its values is what a period leaves.
LEMMA PlayPeriodIs ==
    ASSUME MeasurementAssumption, PlayPeriod
    PROVE  \E f : /\ AfterFrames(f, PeriodFrames)
                  /\ recent' = f[PeriodFrames].data /\ recentAt' = f[PeriodFrames].at
                  /\ recentLength' = f[PeriodFrames].length
                  /\ played' = played + PeriodFrames
<1>1. PICK f : f = CHOOSE g : AfterFrames(g, PeriodFrames)
  OBVIOUS
<1>2. AfterFrames(f, PeriodFrames)
  BY <1>1, AfterFramesExists DEF MeasurementAssumption
<1>3. /\ recent' = f[PeriodFrames].data /\ recentAt' = f[PeriodFrames].at
      /\ recentLength' = f[PeriodFrames].length
      /\ played' = played + PeriodFrames
  BY <1>1 DEF PlayPeriod, AfterFrames, HistoryNow
<1> QED BY <1>2, <1>3

\* A period leaves the history with the last frames in it.
LEMMA PeriodKeepsHistory ==
    ASSUME MeasurementAssumption, played \in Nat, IsHistory(HistoryNow, played), PlayPeriod
    PROVE  played' \in Nat /\ IsHistory(HistoryNow', played')
<1> PICK P \in Nat \ {0} : P = PeriodFrames
  BY DEF MeasurementAssumption
<1>1. PICK f : /\ AfterFrames(f, P)
               /\ recent' = f[P].data /\ recentAt' = f[P].at
               /\ recentLength' = f[P].length /\ played' = played + P
  BY PlayPeriodIs
<1> DEFINE T == {n \in Nat : n <= P => IsHistory(f[n], played + n)}
<1>2. 0 \in T
  <2>1. f[0] = HistoryNow /\ played + 0 = played
    BY <1>1 DEF AfterFrames
  <2> QED BY <2>1
<1>3. ASSUME NEW n \in Nat, n \in T PROVE n + 1 \in T
  <2> SUFFICES ASSUME n + 1 <= P PROVE IsHistory(f[n + 1], played + (n + 1))
    OBVIOUS
  <2>1. IsHistory(f[n], played + n)
    BY <1>3
  <2>2. n + 1 \in 0 .. P /\ n + 1 # 0 /\ (n + 1) - 1 = n /\ played + n \in Nat
        /\ (played + n) + 1 = played + (n + 1)
    OBVIOUS
  <2>3. f[n + 1] = Added(f[n], (played + n) + 1)
    BY <1>1, <2>2 DEF AfterFrames
  <2>4. IsHistory(Added(f[n], (played + n) + 1), (played + n) + 1)
    BY <2>1, <2>2, AddedKeeps
  <2> QED BY <2>2, <2>3, <2>4
<1> HIDE DEF T
<1>4. P \in T
  BY <1>2, <1>3, InductionBySet
<1>5. IsHistory(f[P], played + P)
  BY <1>4 DEF T
<1>6. HistoryNow' = f[P]
  <2>1. f[P] = [data |-> f[P].data, at |-> f[P].at, length |-> f[P].length]
    BY <1>5 DEF IsHistory
  <2> QED BY <1>1, <2>1 DEF HistoryNow
<1>7. played' = played + P /\ played' \in Nat
  BY <1>1
<1> QED BY <1>5, <1>6, <1>7


-----------------------------------------------------------------------------
(* What a measurement has found of the levels heard so far.                *)

\* A level that is a small part of the greatest one, while the note is held,
Faded(v) == v * OnPart <= peak

\* and after.
Silent(v) == v * OffPart <= peak

\* The measurement goes through its loops, with the periods counted in each.
LoopsInOrder ==
    /\ doing \in {"start", "on", "ended", "again", "off", "done", "stopped"}
    /\ heardOn \in Seq(Levels) /\ heardOff \in Seq(Levels) /\ hertz \in Frequencies
    /\ doing \in {"start", "on"} => period = Len(heardOn)
    /\ doing = "start" => heardOn = <<>>
    /\ doing \in {"ended", "again", "off", "done"} => heardOn # <<>>
    /\ doing \in {"start", "on", "ended", "again"} =>
           heardOff = <<>> /\ ~keyoffFound /\ keyoffTime = 0
    /\ doing = "off" => period = Len(heardOff)

\* The peak is the first of the greatest levels.
PeakSoFar ==
    /\ heardOn = <<>> => ~quarterFound
    /\ heardOn # <<>> =>
           /\ peakTime \in 0 .. Len(heardOn) - 1
           /\ begin = heardOn[1] /\ peak = heardOn[peakTime + 1]
           /\ \A j \in DOMAIN heardOn : heardOn[j] <= peak
           /\ \A j \in 1 .. peakTime : heardOn[j] < peak

\* The first level after it that has faded was found, or there is none.
FadeSoFar ==
    heardOn # <<>> =>
        /\ quarterFound =>
               /\ quarterTime \in peakTime + 1 .. Len(heardOn) - 1
               /\ Faded(heardOn[quarterTime + 1])
               /\ \A j \in peakTime + 1 .. quarterTime - 1 : ~Faded(heardOn[j + 1])
        /\ ~quarterFound =>
               /\ \A j \in peakTime + 1 .. Len(heardOn) - 1 : ~Faded(heardOn[j + 1])
               /\ doing \in {"again", "off", "done"} => quarterTime = passed

\* The same of the note that was let go.
SilenceSoFar ==
    doing \in {"off", "done"} =>
        /\ keyoffFound =>
               /\ keyoffTime \in 0 .. Len(heardOff) - 1
               /\ Silent(heardOff[keyoffTime + 1])
               /\ \A j \in 0 .. keyoffTime - 1 : ~Silent(heardOff[j + 1])
        /\ ~keyoffFound =>
               /\ \A j \in 0 .. Len(heardOff) - 1 : ~Silent(heardOff[j + 1])
               /\ keyoffTime = 0

\* The history is of the frames played, and the window of the history.
FramesSoFar ==
    /\ played \in Nat /\ IsHistory(HistoryNow, played)
    /\ doing = "off" /\ heardOff # <<>> => winsize = recentLength

\* The chip was told the note.
NoteSoFar == doing \in {"on", "again"} => word = WordOf(hertz)

\* All of it: the inductive invariant.
MeasurementIInv ==
    /\ LoopsInOrder /\ PeakSoFar /\ FadeSoFar /\ SilenceSoFar /\ FramesSoFar /\ NoteSoFar

-----------------------------------------------------------------------------
\* The octave of a note the chip can play is one of eight, its number fits, and the two
\* are the note as near as they come to it.
LEMMA NoteAsNumber ==
    ASSUME MeasurementAssumption, NEW h \in Nat, h < 128 * (2 * FullNumber - 1)
    PROVE  \E k \in 0 .. 7, P \in Nat, m \in 0 .. FullNumber - 1 :
               /\ WordOf(h) = KeyBit + k * FullNumber + m
               /\ P = 2^k /\ Capped(h) = h
               /\ 2 * m * P - h <= P /\ h - 2 * m * P <= P
<1> PICK F \in Nat \ {0} : F = FullNumber
  BY DEF MeasurementAssumption
<1>1. Capped(h) = h
  BY DEF Capped, TopHertz
<1>2. PICK k \in 0 .. 40 : k = Octave(h) /\ h < (2 * F - 1) * 2^k /\ k <= 7
  <2> DEFINE T == {x \in 0 .. 40 : h < (2 * F - 1) * 2^x}
  <2>1. 2^7 = 128
    BY SMT
  <2>2. 7 \in T
    BY <2>1
  <2>3. PICK x \in T : \A y \in T : x <= y
    <3>1. T \in SUBSET Nat
      OBVIOUS
    <3> HIDE DEF T
    <3> QED BY <2>2, <3>1, LeastOfSet
  <2>4. x \in 0 .. 7
    <3>1. x \in 0 .. 40
      OBVIOUS
    <3>2. x <= 7
      <4> HIDE DEF T
      <4> QED BY <2>2, <2>3
    <3> QED BY <3>1, <3>2
  <2>5. \A j \in 0 .. 6 : 2^j \in Nat
    <3>1. /\ 2^0 \in Nat /\ 2^1 \in Nat /\ 2^2 \in Nat /\ 2^3 \in Nat
          /\ 2^4 \in Nat /\ 2^5 \in Nat /\ 2^6 \in Nat
      BY SMT
    <3>2. \A j \in 0 .. 6 : j = 0 \/ j = 1 \/ j = 2 \/ j = 3 \/ j = 4 \/ j = 5 \/ j = 6
      OBVIOUS
    <3> QED BY <3>1, <3>2
  <2>6. \A j \in 0 .. x - 1 : h >= (2 * F - 1) * 2^j
    <3> SUFFICES ASSUME NEW j \in 0 .. x - 1 PROVE h >= (2 * F - 1) * 2^j
      OBVIOUS
    <3>1. j \in 0 .. 6 /\ j \in 0 .. 40 /\ ~(x <= j)
      BY <2>4
    <3>2. j \notin T
      <4> HIDE DEF T
      <4> QED BY <2>3, <3>1
    <3>3. ~(h < (2 * F - 1) * 2^j)
      BY <3>1, <3>2
    <3>4. PICK Q \in Nat : Q = 2^j
      BY <2>5, <3>1
    <3>5. PICK B \in Int : B = (2 * F - 1) * Q
      OBVIOUS
    <3>6. ~(h < B)
      BY <3>3, <3>4, <3>5
    <3>7. h >= B
      BY ONLY <3>6, h \in Nat, B \in Int
    <3> QED BY <3>4, <3>5, <3>7
  <2>7. PICK k : k = Octave(h)
    OBVIOUS
  <2>8. /\ k \in 0 .. 40 /\ h < (2 * F - 1) * 2^k
        /\ \A j \in 0 .. k - 1 : h >= (2 * F - 1) * 2^j
    <3>1. x \in 0 .. 40 /\ h < (2 * F - 1) * 2^x
      BY <2>3
    <3> QED BY <2>6, <2>7, <3>1 DEF Octave
  <2>9. k <= 7
    <3> SUFFICES ASSUME k > 7 PROVE FALSE
      BY <2>8
    <3>1. 7 \in 0 .. k - 1
      BY <2>8
    <3>2. h >= (2 * F - 1) * 2^7
      BY <2>8, <3>1
    <3> QED BY <2>1, <3>2
  <2> QED BY <2>7, <2>8, <2>9
<1> DEFINE P == 2^k
           m == (h + P) \div (2 * P)
<1>3. /\ P \in Nat \ {0} /\ 2^(k + 1) = 2 * P /\ h < (2 * F - 1) * P
      /\ m \in 0 .. F - 1 /\ 2 * m * P - h <= P /\ h - 2 * m * P <= P
  <2>1. k = 0 \/ k = 1 \/ k = 2 \/ k = 3 \/ k = 4 \/ k = 5 \/ k = 6 \/ k = 7
    BY <1>2
  <2>2. /\ P \in {1, 2, 4, 8, 16, 32, 64, 128} /\ 2^(k + 1) = 2 * P
    <3>1. CASE k = 0
      BY <3>1, SMT
    <3>2. CASE k = 1
      BY <3>2, SMT
    <3>3. CASE k = 2
      BY <3>3, SMT
    <3>4. CASE k = 3
      BY <3>4, SMT
    <3>5. CASE k = 4
      BY <3>5, SMT
    <3>6. CASE k = 5
      BY <3>6, SMT
    <3>7. CASE k = 6
      BY <3>7, SMT
    <3>8. CASE k = 7
      BY <3>8, SMT
    <3> QED BY <2>1, <3>1, <3>2, <3>3, <3>4, <3>5, <3>6, <3>7, <3>8
  <2>3. h < (2 * F - 1) * P
    BY <1>2
  <2> PICK Q \in {1, 2, 4, 8, 16, 32, 64, 128} : Q = P
    BY <2>2
  <2>4. PICK n : n = (h + Q) \div (2 * Q)
    OBVIOUS
  <2>5. n \in 0 .. F - 1 /\ 2 * n * Q - h <= Q /\ h - 2 * n * Q <= Q
    <3>1. h < (2 * F - 1) * Q
      BY <2>3
    <3>2. CASE Q = 1
      BY ONLY <2>4, <3>1, <3>2, h \in Nat, F \in Nat \ {0}
    <3>3. CASE Q = 2
      BY ONLY <2>4, <3>1, <3>3, h \in Nat, F \in Nat \ {0}
    <3>4. CASE Q = 4
      BY ONLY <2>4, <3>1, <3>4, h \in Nat, F \in Nat \ {0}
    <3>5. CASE Q = 8
      BY ONLY <2>4, <3>1, <3>5, h \in Nat, F \in Nat \ {0}
    <3>6. CASE Q = 16
      BY ONLY <2>4, <3>1, <3>6, h \in Nat, F \in Nat \ {0}
    <3>7. CASE Q = 32
      BY ONLY <2>4, <3>1, <3>7, h \in Nat, F \in Nat \ {0}
    <3>8. CASE Q = 64
      BY ONLY <2>4, <3>1, <3>8, h \in Nat, F \in Nat \ {0}
    <3>9. CASE Q = 128
      BY ONLY <2>4, <3>1, <3>9, h \in Nat, F \in Nat \ {0}
    <3> QED BY <3>2, <3>3, <3>4, <3>5, <3>6, <3>7, <3>8, <3>9
  <2> QED BY <2>2, <2>3, <2>4, <2>5
<1>4. WordOf(h) = KeyBit + k * FullNumber + m
  BY <1>1, <1>2, <1>3 DEF WordOf
<1>5. k \in 0 .. 7
  BY <1>2
<1> PICK Q \in Nat, n \in 0 .. F - 1 : Q = P /\ n = m
  BY <1>3
<1>6. /\ WordOf(h) = KeyBit + k * FullNumber + n /\ Q = 2^k /\ Capped(h) = h
      /\ 2 * n * Q - h <= Q /\ h - 2 * n * Q <= Q
  BY <1>1, <1>3, <1>4
<1> QED BY <1>5, <1>6

\* Which is what the chip reads in the word.
LEMMA WordIsThePitch ==
    ASSUME MeasurementAssumption, hertz \in Nat, hertz < 128 * (2 * FullNumber - 1),
           word = WordOf(hertz)
    PROVE  AtItsPitch
<1> PICK F \in Nat \ {0} : F = FullNumber
  BY DEF MeasurementAssumption
<1>1. PICK k \in 0 .. 7, P \in Nat, m \in 0 .. F - 1 :
          /\ word = KeyBit + k * F + m
          /\ P = 2^k /\ Capped(hertz) = hertz
          /\ 2 * m * P - hertz <= P /\ hertz - 2 * m * P <= P
  BY NoteAsNumber
<1> PICK c \in {0, 1} : KeyBit = 8 * c * F /\ (KeyInWord => c = 1)
  BY DEF KeyBit
<1>2. word = (8 * c + k) * F + m /\ word \in Nat /\ 8 * c + k \in Nat
  BY <1>1
<1>3. word \div F = 8 * c + k /\ word % F = m
  <2> PICK w \in Nat, q \in Nat : w = word /\ q = 8 * c + k
    BY <1>2
  <2>1. w = q * F + m
    BY <1>2
  <2>2. w \div F = q /\ w % F = m
    BY ONLY <2>1, w \in Nat, q \in Nat, F \in Nat \ {0}, m \in 0 .. F - 1
  <2> QED BY <2>2
<1>4. ChipBlock = k /\ ChipNumber = m
  <2>1. (8 * c + k) % 8 = k
    BY <1>1
  <2> QED BY <1>3, <2>1 DEF ChipBlock, ChipNumber
<1>5. ChipIsOn
  <2> SUFFICES ASSUME KeyInWord PROVE (word \div KeyBit) % 2 = 1
    BY DEF ChipIsOn
  <2>1. c = 1 /\ KeyBit = 8 * F
    OBVIOUS
  <2>2. word = 1 * (8 * F) + (k * F + m)
    BY <1>2, <2>1
  <2>3. k * F + m \in 0 .. 8 * F - 1
    <3>1. k = 0 \/ k = 1 \/ k = 2 \/ k = 3 \/ k = 4 \/ k = 5 \/ k = 6 \/ k = 7
      OBVIOUS
    <3> QED BY <3>1
  <2>4. word \div (8 * F) = 1
    <3> PICK w \in Nat : w = word
      BY <1>2
    <3> PICK G \in Nat \ {0} : G = 8 * F
      OBVIOUS
    <3> PICK r \in 0 .. G - 1 : r = k * F + m
      BY <2>3
    <3>1. w = G + r
      BY <2>2
    <3>2. w \div G = 1
      BY ONLY <3>1, w \in Nat, G \in Nat \ {0}, r \in 0 .. G - 1
    <3> QED BY <3>2
  <2> QED BY <2>1, <2>4
<1>6. ChipBlock = k /\ P = 2^ChipBlock
  BY <1>1, <1>4
<1> PICK mP \in Int : mP = 2 * m * P
  OBVIOUS
<1> PICK e : e = mP - hertz
  OBVIOUS
<1>7. e = 2 * ChipNumber * 2^ChipBlock - Capped(hertz)
  BY <1>1, <1>4, <1>6
<1>8. e <= P /\ -e <= P
  <2>1. mP - hertz <= P /\ hertz - mP <= P
    BY <1>1
  <2>2. e = mP - hertz
    OBVIOUS
  <2> QED BY ONLY <2>1, <2>2, hertz \in Nat, mP \in Int, P \in Nat
<1> QED BY <1>5, <1>6, <1>7, <1>8 DEF AtItsPitch

-----------------------------------------------------------------------------
\* It starts like this,
LEMMA MeasurementIInvStarts ==
    ASSUME MeasurementAssumption, MeasurementInit
    PROVE  MeasurementIInv
<1>1. /\ heardOn = <<>> /\ heardOff = <<>> /\ doing = "start" /\ period = 0 /\ played = 0
      /\ ~quarterFound /\ ~keyoffFound /\ keyoffTime = 0 /\ hertz \in Frequencies
      /\ HistoryNow = [data |-> NewHistory, at |-> 0, length |-> 0]
  BY DEF MeasurementInit, HistoryNow
<1>2. heardOn \in Seq(Levels) /\ heardOff \in Seq(Levels) /\ Len(heardOn) = 0
  BY <1>1
<1>3. LoopsInOrder /\ NoteSoFar
  BY <1>1, <1>2 DEF LoopsInOrder, NoteSoFar
<1>4. PeakSoFar /\ FadeSoFar /\ SilenceSoFar
  BY <1>1 DEF PeakSoFar, FadeSoFar, SilenceSoFar
<1>5. FramesSoFar
  BY <1>1, HistoryStarts DEF FramesSoFar
<1> QED BY <1>3, <1>4, <1>5 DEF MeasurementIInv

\* and a period of the note that is held finds what there is to be found in one level more.
LEMMA OnPeriodFinds ==
    ASSUME MeasurementAssumption, LoopsInOrder, PeakSoFar, FadeSoFar,
           NEW level \in Levels, NEW loud \in BOOLEAN, OnPeriod(level, loud)
    PROVE  PeakSoFar' /\ FadeSoFar'
<1> PICK n \in Nat : n = Len(heardOn)
  BY DEF LoopsInOrder
<1>1. /\ heardOn \in Seq(Levels) /\ Levels \subseteq Nat
      /\ period = n /\ FindPeak(level) /\ heardOn' = Append(heardOn, level)
      /\ doing' \in {"on", "ended"}
  BY DEF LoopsInOrder, OnPeriod, MeasurementAssumption
<1>2. /\ Len(heardOn') = n + 1 /\ heardOn'[n + 1] = level /\ heardOn' # <<>>
      /\ \A j \in 1 .. n : heardOn'[j] = heardOn[j]
      /\ \A j \in 1 .. n : heardOn[j] \in Nat
      /\ level \in Nat /\ DOMAIN heardOn' = 1 .. n + 1 /\ DOMAIN heardOn = 1 .. n
      /\ (n = 0 <=> heardOn = <<>>)
  <2> PICK s \in Seq(Levels) : s = heardOn
    BY <1>1
  <2> PICK t : t = heardOn'
    OBVIOUS
  <2>1. t = Append(s, level) /\ Len(s) = n
    BY <1>1
  <2>2. t \in Seq(Levels) /\ Len(t) = n + 1 /\ t[n + 1] = level /\ DOMAIN t = 1 .. n + 1
    BY <2>1
  <2>3. \A j \in 1 .. n : t[j] = s[j]
    BY <2>1
  <2>4. \A j \in 1 .. n : s[j] \in Nat
    BY <1>1, <2>1, ElementOfSeq
  <2>5. (n = 0 <=> s = <<>>) /\ DOMAIN s = 1 .. n /\ t # <<>> /\ level \in Nat
    BY <1>1, <2>1, <2>2, EmptySeq
  <2> QED BY <2>2, <2>3, <2>4, <2>5
<1>3. CASE n = 0
  <2>1. heardOn = <<>>
    BY <1>2, <1>3
  <2>2. /\ ~quarterFound /\ begin' = level /\ peak' = level /\ peakTime' = 0
        /\ ~quarterFound'
    BY <1>1, <1>3, <2>1 DEF FindPeak, PeakSoFar
  <2>3. PeakSoFar'
    BY <1>2, <1>3, <2>2 DEF PeakSoFar
  <2>4. FadeSoFar'
    BY <1>1, <1>2, <1>3, <2>2 DEF FadeSoFar
  <2> QED BY <2>3, <2>4
<1>4. CASE n # 0
  <2>1. heardOn # <<>>
    BY <1>2, <1>4
  <2>2. /\ peakTime \in 0 .. n - 1 /\ begin = heardOn[1] /\ peak = heardOn[peakTime + 1]
        /\ \A j \in 1 .. n : heardOn[j] <= peak
        /\ \A j \in 1 .. peakTime : heardOn[j] < peak
    BY <1>2, <2>1 DEF PeakSoFar
  <2>3. peak \in Nat /\ peakTime + 1 \in 1 .. n /\ 1 \in 1 .. n
    BY <1>2, <1>4, <2>2
  <2>4. CASE level > peak
    <3>1. peak' = level /\ peakTime' = n /\ ~quarterFound' /\ begin' = begin
      BY <1>1, <1>4, <2>4 DEF FindPeak
    <3>2. PeakSoFar'
      <4>1. \A j \in 1 .. n : heardOn'[j] < level
        BY <1>2, <2>2, <2>3, <2>4
      <4>2. \A j \in 1 .. n + 1 : heardOn'[j] <= level
        BY <1>2, <4>1
      <4>3. begin' = heardOn'[1]
        BY <1>2, <2>2, <2>3, <3>1
      <4> QED BY <1>2, <3>1, <4>1, <4>2, <4>3 DEF PeakSoFar
    <3>3. FadeSoFar'
      BY <1>1, <1>2, <3>1 DEF FadeSoFar
    <3> QED BY <3>2, <3>3
  <2>5. CASE ~(level > peak)
    <3>1. /\ begin' = begin /\ peak' = peak /\ peakTime' = peakTime
          /\ IF ~quarterFound /\ level * OnPart <= peak
             THEN quarterTime' = n /\ quarterFound' = TRUE
             ELSE quarterTime' = quarterTime /\ quarterFound' = quarterFound
      BY <1>1, <1>4, <2>5 DEF FindPeak
    <3>2. PeakSoFar'
      <4>1. \A j \in 1 .. n + 1 : heardOn'[j] <= peak
        BY <1>2, <2>2, <2>3, <2>5
      <4>2. /\ begin = heardOn'[1] /\ peak = heardOn'[peakTime + 1]
            /\ \A j \in 1 .. peakTime : heardOn'[j] < peak
        BY <1>2, <2>2, <2>3
      <4>3. peakTime' \in 0 .. Len(heardOn') - 1 /\ (quarterFound' => heardOn' # <<>>)
        BY <1>2, <2>2, <3>1
      <4> QED BY <1>2, <3>1, <4>1, <4>2, <4>3 DEF PeakSoFar
    <3>3. PICK Is : Is = [v \in Nat |-> v * OnPart <= peak]
      OBVIOUS
    <3>4. /\ \A j \in 1 .. n : Faded(heardOn[j]) <=> Is[heardOn[j]]
          /\ \A j \in 1 .. n + 1 : (Faded(heardOn[j]))' <=> Is[heardOn'[j]]
          /\ level * OnPart <= peak <=> Is[level]
      <4>1. \A v \in Nat : (Is[v] <=> v * OnPart <= peak)
        BY <3>3
      <4>2. \A v \in Nat : (Faded(v) <=> Is[v])
        BY <4>1 DEF Faded
      <4>3. \A j \in 1 .. n + 1 : heardOn'[j] \in Nat
        BY <1>2
      <4>4. \A j \in 1 .. n + 1 : (Faded(heardOn[j]))' <=> heardOn'[j] * OnPart <= peak
        BY <3>1 DEF Faded
      <4>5. \A j \in 1 .. n + 1 : (Faded(heardOn[j]))' <=> Is[heardOn'[j]]
        BY <4>1, <4>3, <4>4
      <4> QED BY <1>2, <4>1, <4>2, <4>5
    <3>5. /\ quarterFound =>
                 /\ quarterTime \in peakTime + 1 .. n - 1
                 /\ Is[heardOn'[quarterTime + 1]]
                 /\ \A j \in peakTime + 1 .. quarterTime - 1 : ~Is[heardOn'[j + 1]]
          /\ ~quarterFound => \A j \in peakTime + 1 .. n - 1 : ~Is[heardOn'[j + 1]]
      <4>1. \A j \in peakTime + 1 .. n - 1 : (Faded(heardOn[j + 1]) <=> Is[heardOn'[j + 1]])
        <5>1. \A j \in peakTime + 1 .. n - 1 : j + 1 \in 1 .. n
          BY <2>2
        <5> QED BY <1>2, <3>4, <5>1
      <4>2. CASE quarterFound
        <5>1. /\ quarterTime \in peakTime + 1 .. n - 1
              /\ Faded(heardOn[quarterTime + 1])
              /\ \A j \in peakTime + 1 .. quarterTime - 1 : ~Faded(heardOn[j + 1])
          BY <2>1, <4>2 DEF FadeSoFar
        <5>2. peakTime + 1 .. quarterTime - 1 \subseteq peakTime + 1 .. n - 1
          BY <2>2, <5>1
        <5> QED BY <4>1, <4>2, <5>1, <5>2
      <4>3. CASE ~quarterFound
        <5>1. \A j \in peakTime + 1 .. n - 1 : ~Faded(heardOn[j + 1])
          BY <2>1, <4>3 DEF FadeSoFar
        <5> QED BY <4>1, <4>3, <5>1
      <4> QED BY <4>2, <4>3
    <3>6. /\ quarterFound' =>
                 /\ quarterTime' \in peakTime + 1 .. n
                 /\ Is[heardOn'[quarterTime' + 1]]
                 /\ \A j \in peakTime + 1 .. quarterTime' - 1 : ~Is[heardOn'[j + 1]]
          /\ ~quarterFound' => \A j \in peakTime + 1 .. n : ~Is[heardOn'[j + 1]]
      <4>1. CASE quarterFound
        <5>1. quarterTime' = quarterTime /\ quarterFound'
          BY <3>1, <4>1
        <5>2. quarterTime \in peakTime + 1 .. n
          BY <2>2, <3>5, <4>1
        <5> QED BY <3>5, <4>1, <5>1, <5>2
      <4>2. CASE ~quarterFound /\ Is[level]
        <5>1. quarterTime' = n /\ quarterFound'
          BY <3>1, <3>4, <4>2
        <5>2. n \in peakTime + 1 .. n /\ Is[heardOn'[n + 1]]
          BY <1>2, <2>2, <4>2
        <5> QED BY <3>5, <4>2, <5>1, <5>2
      <4>3. CASE ~quarterFound /\ ~Is[level]
        <5>1. ~quarterFound'
          BY <3>1, <3>4, <4>3
        <5>2. \A j \in peakTime + 1 .. n : j \in peakTime + 1 .. n - 1 \/ j = n
          BY <2>2
        <5> QED BY <1>2, <3>5, <4>3, <5>1, <5>2
      <4> QED BY <4>1, <4>2, <4>3
    <3>7. FadeSoFar'
      <4>1. \A j \in peakTime + 1 .. n : ((Faded(heardOn[j + 1]))' <=> Is[heardOn'[j + 1]])
        <5>1. \A j \in peakTime + 1 .. n : j + 1 \in 1 .. n + 1
          BY <2>2
        <5> QED BY <3>4, <5>1
      <4>2. CASE quarterFound'
        <5>1. peakTime + 1 .. quarterTime' - 1 \subseteq peakTime + 1 .. n
          BY <2>2, <3>6, <4>2
        <5>2. /\ (Faded(heardOn[quarterTime + 1]))'
              /\ \A j \in peakTime + 1 .. quarterTime' - 1 : ~(Faded(heardOn[j + 1]))'
          BY <3>6, <4>1, <4>2, <5>1 DEF Faded
        <5> QED BY <1>2, <3>1, <3>6, <4>2, <5>2 DEF FadeSoFar
      <4>3. CASE ~quarterFound'
        <5>1. \A j \in peakTime + 1 .. n : ~(Faded(heardOn[j + 1]))'
          BY <3>6, <4>1, <4>3
        <5>2. Len(heardOn') - 1 = n /\ doing' \notin {"again", "off", "done"}
          BY <1>1, <1>2
        <5> QED BY <1>2, <3>1, <4>3, <5>1, <5>2 DEF FadeSoFar
      <4> QED BY <4>2, <4>3
    <3> QED BY <3>2, <3>7
  <2> QED BY <2>4, <2>5
<1> QED BY <1>3, <1>4

\* A period of it keeps the invariant.
LEMMA OnPeriodKeeps ==
    ASSUME MeasurementAssumption, MeasurementIInv,
           NEW level \in Levels, NEW loud \in BOOLEAN, OnPeriod(level, loud)
    PROVE  MeasurementIInv'
<1>1. LoopsInOrder /\ PeakSoFar /\ FadeSoFar /\ FramesSoFar /\ NoteSoFar
  BY DEF MeasurementIInv
<1>2. /\ doing = "on" /\ PlayPeriod /\ heardOn' = Append(heardOn, level)
      /\ \/ doing' = "on" /\ period' = period + 1
         \/ doing' = "ended"
      /\ heardOff' = heardOff /\ keyoffFound' = keyoffFound /\ keyoffTime' = keyoffTime
      /\ hertz' = hertz /\ word' = word
  BY DEF OnPeriod
<1>3. LoopsInOrder'
  <2>1. /\ heardOn \in Seq(Levels) /\ heardOff \in Seq(Levels) /\ hertz \in Frequencies
        /\ heardOff = <<>> /\ ~keyoffFound /\ keyoffTime = 0 /\ period = Len(heardOn)
    BY <1>1, <1>2 DEF LoopsInOrder
  <2>2. /\ heardOn' \in Seq(Levels) /\ Len(heardOn') = Len(heardOn) + 1 /\ heardOn' # <<>>
    BY <1>2, <2>1
  <2> QED BY <1>2, <2>1, <2>2 DEF LoopsInOrder
<1>4. PeakSoFar' /\ FadeSoFar'
  BY <1>1, OnPeriodFinds
<1>5. SilenceSoFar'
  BY <1>2 DEF SilenceSoFar
<1>6. FramesSoFar'
  <2>1. played' \in Nat /\ IsHistory(HistoryNow', played')
    BY <1>1, <1>2, PeriodKeepsHistory DEF FramesSoFar
  <2>2. doing' # "off"
    BY <1>2
  <2> QED BY <2>1, <2>2 DEF FramesSoFar
<1>7. NoteSoFar'
  <2>1. word = WordOf(hertz)
    BY <1>1, <1>2 DEF NoteSoFar
  <2> QED BY <1>2, <2>1 DEF NoteSoFar, WordOf, Octave, Capped
<1> QED BY <1>3, <1>4, <1>5, <1>6, <1>7 DEF MeasurementIInv

\* What was found while the note was held stays found, as long as nothing of it changes.
LEMMA FoundStays ==
    ASSUME PeakSoFar, FadeSoFar, heardOn' = heardOn, begin' = begin, peak' = peak,
           peakTime' = peakTime, quarterFound' = quarterFound,
           heardOn # <<>> /\ quarterFound => quarterTime' = quarterTime,
           ~quarterFound /\ doing' \in {"again", "off", "done"} => quarterTime' = passed'
    PROVE  PeakSoFar' /\ FadeSoFar'
<1>1. PeakSoFar'
  BY DEF PeakSoFar
<1>2. FadeSoFar'
  <2>1. CASE heardOn # <<>> /\ quarterFound
    BY <2>1 DEF FadeSoFar, Faded
  <2>2. CASE heardOn # <<>> /\ ~quarterFound
    BY <2>2 DEF FadeSoFar, Faded
  <2>3. CASE heardOn = <<>>
    BY <2>3 DEF FadeSoFar
  <2> QED BY <2>1, <2>2, <2>3
<1> QED BY <1>1, <1>2

\* A period of the note that was let go.
LEMMA OffPeriodKeeps ==
    ASSUME MeasurementAssumption, MeasurementIInv,
           NEW level \in Levels, NEW loud \in BOOLEAN, OffPeriod(level, loud)
    PROVE  MeasurementIInv'
<1>1. LoopsInOrder /\ PeakSoFar /\ FadeSoFar /\ SilenceSoFar /\ FramesSoFar
  BY DEF MeasurementIInv
<1>2. /\ doing = "off" /\ PlayPeriod /\ heardOff' = Append(heardOff, level)
      /\ \/ doing' = "off" /\ period' = period + 1
         \/ doing' = "done"
      /\ IF ~keyoffFound /\ level * OffPart <= peak
         THEN keyoffTime' = period /\ keyoffFound' = TRUE
         ELSE keyoffTime' = keyoffTime /\ keyoffFound' = keyoffFound
      /\ winsize' = recentLength'
      /\ heardOn' = heardOn /\ begin' = begin /\ peak' = peak /\ peakTime' = peakTime
      /\ quarterFound' = quarterFound /\ quarterTime' = quarterTime /\ passed' = passed
      /\ hertz' = hertz /\ word' = word
  BY DEF OffPeriod, Hear
<1> PICK n \in Nat : n = Len(heardOff)
  BY <1>1 DEF LoopsInOrder
<1>3. /\ heardOn \in Seq(Levels) /\ heardOff \in Seq(Levels) /\ hertz \in Frequencies
      /\ period = n /\ heardOn # <<>>
  BY <1>1, <1>2 DEF LoopsInOrder
<1>4. /\ Len(heardOff') = n + 1 /\ heardOff'[n + 1] = level /\ heardOff' \in Seq(Levels)
      /\ \A j \in 1 .. n : heardOff'[j] = heardOff[j]
  BY <1>2, <1>3
<1>5. LoopsInOrder'
  BY <1>2, <1>3, <1>4 DEF LoopsInOrder
<1>6. PeakSoFar' /\ FadeSoFar'
  <2>1. ~quarterFound => quarterTime' = passed'
    BY <1>1, <1>2, <1>3 DEF FadeSoFar
  <2> QED BY <1>1, <1>2, <2>1, FoundStays
<1>7. SilenceSoFar'
  <2>1. PICK Is : Is = [v \in Levels |-> v * OffPart <= peak]
    OBVIOUS
  <2>2. /\ \A j \in 0 .. n - 1 : (Silent(heardOff[j + 1]) <=> Is[heardOff'[j + 1]])
        /\ \A j \in 0 .. n : ((Silent(heardOff[j + 1]))' <=> Is[heardOff'[j + 1]])
        /\ level * OffPart <= peak <=> Is[level]
    <3>1. \A v \in Levels : (Is[v] <=> v * OffPart <= peak)
      BY <2>1
    <3>2. \A v \in Levels : (Silent(v) <=> Is[v])
      BY <3>1 DEF Silent
    <3>3. \A j \in 0 .. n : heardOff'[j + 1] \in Levels
      <4>1. \A j \in 0 .. n : j + 1 \in 1 .. n + 1
        OBVIOUS
      <4> QED BY <1>4, <4>1, ElementOfSeq
    <3>4. \A j \in 0 .. n : ((Silent(heardOff[j + 1]))' <=> heardOff'[j + 1] * OffPart <= peak)
      BY <1>2 DEF Silent
    <3>5. \A j \in 0 .. n : ((Silent(heardOff[j + 1]))' <=> Is[heardOff'[j + 1]])
      BY <3>1, <3>3, <3>4
    <3>6. \A j \in 0 .. n - 1 : j \in 0 .. n /\ heardOff'[j + 1] = heardOff[j + 1]
      <4>1. \A j \in 0 .. n - 1 : j \in 0 .. n /\ j + 1 \in 1 .. n
        OBVIOUS
      <4> QED BY <1>4, <4>1
    <3>7. \A j \in 0 .. n - 1 : (Silent(heardOff[j + 1]) <=> Is[heardOff'[j + 1]])
      BY <3>2, <3>3, <3>6
    <3> QED BY <3>1, <3>5, <3>7
  <2>3. /\ keyoffFound =>
               /\ keyoffTime \in 0 .. n - 1 /\ Is[heardOff'[keyoffTime + 1]]
               /\ \A j \in 0 .. keyoffTime - 1 : ~Is[heardOff'[j + 1]]
        /\ ~keyoffFound =>
               /\ \A j \in 0 .. n - 1 : ~Is[heardOff'[j + 1]]
               /\ keyoffTime = 0
    <3>1. CASE keyoffFound
      <4>1. /\ keyoffTime \in 0 .. n - 1 /\ Silent(heardOff[keyoffTime + 1])
            /\ \A j \in 0 .. keyoffTime - 1 : ~Silent(heardOff[j + 1])
        BY <1>1, <1>2, <3>1 DEF SilenceSoFar
      <4>2. 0 .. keyoffTime - 1 \subseteq 0 .. n - 1
        BY <4>1
      <4> QED BY <2>2, <3>1, <4>1, <4>2
    <3>2. CASE ~keyoffFound
      <4>1. keyoffTime = 0 /\ \A j \in 0 .. n - 1 : ~Silent(heardOff[j + 1])
        BY <1>1, <1>2, <3>2 DEF SilenceSoFar
      <4> QED BY <2>2, <3>2, <4>1
    <3> QED BY <3>1, <3>2
  <2>4. /\ keyoffFound' =>
               /\ keyoffTime' \in 0 .. n /\ Is[heardOff'[keyoffTime' + 1]]
               /\ \A j \in 0 .. keyoffTime' - 1 : ~Is[heardOff'[j + 1]]
        /\ ~keyoffFound' =>
               /\ \A j \in 0 .. n : ~Is[heardOff'[j + 1]]
               /\ keyoffTime' = 0
    <3>1. CASE keyoffFound
      <4>1. keyoffTime' = keyoffTime /\ keyoffFound'
        BY <1>2, <3>1
      <4>2. keyoffTime \in 0 .. n
        BY <2>3, <3>1
      <4> QED BY <2>3, <3>1, <4>1, <4>2
    <3>2. CASE ~keyoffFound /\ Is[level]
      <4>1. keyoffTime' = n /\ keyoffFound'
        BY <1>2, <1>3, <2>2, <3>2
      <4>2. n \in 0 .. n /\ Is[heardOff'[n + 1]]
        BY <1>4, <3>2
      <4> QED BY <2>3, <3>2, <4>1, <4>2
    <3>3. CASE ~keyoffFound /\ ~Is[level]
      <4>1. keyoffTime' = 0 /\ ~keyoffFound'
        BY <1>2, <2>2, <2>3, <3>3
      <4>2. \A j \in 0 .. n : j \in 0 .. n - 1 \/ j = n
        OBVIOUS
      <4> QED BY <1>4, <2>3, <3>3, <4>1, <4>2
    <3> QED BY <3>1, <3>2, <3>3
  <2>5. Len(heardOff') - 1 = n
    BY <1>4
  <2>6. CASE keyoffFound'
    <3>1. 0 .. keyoffTime' - 1 \subseteq 0 .. n
      BY <2>4, <2>6
    <3>2. /\ (Silent(heardOff[keyoffTime + 1]))'
          /\ \A j \in 0 .. keyoffTime' - 1 : ~(Silent(heardOff[j + 1]))'
      BY <2>2, <2>4, <2>6, <3>1 DEF Silent
    <3> QED BY <2>4, <2>5, <2>6, <3>2 DEF SilenceSoFar
  <2>7. CASE ~keyoffFound'
    <3>1. \A j \in 0 .. n : ~(Silent(heardOff[j + 1]))'
      BY <2>2, <2>4, <2>7
    <3> QED BY <2>4, <2>5, <2>7, <3>1 DEF SilenceSoFar
  <2> QED BY <2>6, <2>7
<1>8. FramesSoFar'
  <2>1. played' \in Nat /\ IsHistory(HistoryNow', played')
    BY <1>1, <1>2, PeriodKeepsHistory DEF FramesSoFar
  <2> QED BY <1>2, <2>1 DEF FramesSoFar
<1>9. NoteSoFar'
  BY <1>2 DEF NoteSoFar
<1> QED BY <1>5, <1>6, <1>7, <1>8, <1>9 DEF MeasurementIInv

\* What a step does not touch keeps its part of the invariant.
LEMMA SilenceStays ==
    ASSUME SilenceSoFar, doing' \in {"off", "done"} => doing \in {"off", "done"},
           UNCHANGED <<heardOff, peak, keyoffFound, keyoffTime>>
    PROVE  SilenceSoFar'
BY DEF SilenceSoFar, Silent

\* The history, and the window of it,
LEMMA FramesStay ==
    ASSUME FramesSoFar, UNCHANGED historyVars, UNCHANGED <<winsize, heardOff>>,
           doing' = "off" /\ heardOff # <<>> => doing = "off"
    PROVE  FramesSoFar'
<1>1. HistoryNow' = HistoryNow /\ played' = played /\ recentLength' = recentLength
  BY DEF HistoryNow, historyVars
<1> QED BY <1>1 DEF FramesSoFar

\* and what the chip was told.
LEMMA NoteStays ==
    ASSUME NoteSoFar, UNCHANGED <<hertz, word>>,
           doing' \in {"on", "again"} => doing \in {"on", "again"}
    PROVE  NoteSoFar'
BY DEF NoteSoFar

\* The other steps.
LEMMA OthersKeepMeasurement ==
    ASSUME MeasurementAssumption, MeasurementIInv,
           \/ StartNote \/ EndOfOn \/ PeriodAgain \/ AskToStop \/ Stopped
           \/ UNCHANGED measurementVars
    PROVE  MeasurementIInv'
<1>1. LoopsInOrder /\ PeakSoFar /\ FadeSoFar /\ SilenceSoFar /\ FramesSoFar /\ NoteSoFar
  BY DEF MeasurementIInv
<1>2. CASE StartNote
  <2>1. /\ doing = "start" /\ doing' = "on" /\ word' = WordOf(hertz) /\ UNCHANGED historyVars
        /\ UNCHANGED foundVars /\ UNCHANGED <<period, winsize, hertz, heardOn, heardOff>>
    BY <1>2 DEF StartNote
  <2>2. LoopsInOrder'
    BY <1>1, <2>1 DEF LoopsInOrder, foundVars
  <2>3. PeakSoFar' /\ FadeSoFar'
    BY <1>1, <2>1, FoundStays DEF foundVars
  <2>4. SilenceSoFar'
    BY <1>1, <2>1, SilenceStays DEF foundVars
  <2>5. FramesSoFar'
    BY <1>1, <2>1, FramesStay
  <2>6. NoteSoFar'
    <3>1. hertz' = hertz
      BY <2>1
    <3>2. WordOf(hertz') = WordOf(hertz)
      BY <3>1
    <3> QED BY <2>1, <3>2 DEF NoteSoFar
  <2> QED BY <2>2, <2>3, <2>4, <2>5, <2>6 DEF MeasurementIInv
<1>3. CASE EndOfOn
  <2>1. /\ doing = "ended" /\ quarterTime' = (IF quarterFound THEN quarterTime ELSE passed)
        /\ period' = 0 /\ doing' \in {"off", "again"}
        /\ UNCHANGED <<begin, peak, peakTime, quarterFound, keyoffTime, keyoffFound, passed,
                       winsize, hertz, heardOn, heardOff>>
    BY <1>3 DEF EndOfOn
  <2>2. heardOff = <<>> /\ ~keyoffFound /\ keyoffTime = 0 /\ Len(heardOff) = 0
    BY <1>1, <2>1 DEF LoopsInOrder
  <2>3. LoopsInOrder'
    BY <1>1, <2>1, <2>2 DEF LoopsInOrder
  <2>4. PeakSoFar' /\ FadeSoFar'
    <3>1. /\ heardOn # <<>> /\ quarterFound => quarterTime' = quarterTime
          /\ ~quarterFound => quarterTime' = passed'
      BY <2>1
    <3> QED BY <1>1, <2>1, <3>1, FoundStays
  <2>5. SilenceSoFar'
    <3>1. \A j \in 0 .. Len(heardOff') - 1 : FALSE
      BY <2>1, <2>2
    <3> QED BY <2>1, <2>2, <3>1 DEF SilenceSoFar
  <2>6. FramesSoFar'
    <3>1. CASE UNCHANGED historyVars
      BY <1>1, <2>1, <2>2, <3>1, FramesStay
    <3>2. CASE recent' = NewHistory /\ recentAt' = 0 /\ recentLength' = 0 /\ played' = 0
      <4>1. HistoryNow' = [data |-> NewHistory, at |-> 0, length |-> 0] /\ played' = 0
        BY <3>2 DEF HistoryNow
      <4>2. heardOff' = <<>>
        BY <2>1, <2>2
      <4>3. IsHistory(HistoryNow', played')
        BY <4>1, HistoryStarts
      <4> QED BY <4>1, <4>2, <4>3 DEF FramesSoFar
    <3> QED BY <1>3, <3>1, <3>2 DEF EndOfOn
  <2>7. NoteSoFar'
    <3>1. WordOf(hertz') = WordOf(hertz)
      BY <2>1
    <3>2. doing' \in {"on", "again"} => word' = WordOf(hertz)
      BY <1>3 DEF EndOfOn
    <3> QED BY <3>1, <3>2 DEF NoteSoFar
  <2> QED BY <2>3, <2>4, <2>5, <2>6, <2>7 DEF MeasurementIInv
<1>4. CASE PeriodAgain
  <2>1. /\ doing = "again" /\ PlayPeriod
        /\ \/ doing' = "again" /\ word' = word
           \/ doing' = "off" /\ period' = 0
        /\ UNCHANGED foundVars /\ UNCHANGED <<winsize, hertz, heardOn, heardOff>>
    BY <1>4 DEF PeriodAgain
  <2>2. heardOff = <<>> /\ ~keyoffFound /\ keyoffTime = 0 /\ Len(heardOff) = 0
    BY <1>1, <2>1 DEF LoopsInOrder
  <2>3. LoopsInOrder'
    BY <1>1, <2>1, <2>2 DEF LoopsInOrder, foundVars
  <2>4. PeakSoFar' /\ FadeSoFar'
    <3>1. ~quarterFound => quarterTime' = passed'
      <4>1. heardOn # <<>>
        BY <1>1, <2>1 DEF LoopsInOrder
      <4> QED BY <1>1, <2>1, <4>1 DEF FadeSoFar, foundVars
    <3> QED BY <1>1, <2>1, <3>1, FoundStays DEF foundVars
  <2>5. SilenceSoFar'
    <3>1. keyoffFound' = keyoffFound /\ keyoffTime' = keyoffTime
      BY <2>1 DEF foundVars
    <3>2. \A j \in 0 .. Len(heardOff') - 1 : FALSE
      BY <2>1, <2>2
    <3> QED BY <2>2, <3>1, <3>2 DEF SilenceSoFar
  <2>6. FramesSoFar'
    <3>1. played' \in Nat /\ IsHistory(HistoryNow', played')
      BY <1>1, <2>1, PeriodKeepsHistory DEF FramesSoFar
    <3> QED BY <2>1, <2>2, <3>1 DEF FramesSoFar
  <2>7. NoteSoFar'
    <3>1. WordOf(hertz') = WordOf(hertz)
      BY <2>1
    <3> QED BY <1>1, <2>1, <3>1 DEF NoteSoFar
  <2> QED BY <2>3, <2>4, <2>5, <2>6, <2>7 DEF MeasurementIInv
<1>5. CASE AskToStop \/ Stopped \/ UNCHANGED measurementVars
  <2>1. /\ doing' = doing \/ doing' = "stopped"
        /\ UNCHANGED historyVars /\ UNCHANGED foundVars
        /\ UNCHANGED <<period, winsize, hertz, word, heardOn, heardOff>>
    BY <1>5 DEF AskToStop, Stopped, measurementVars
  <2>2. LoopsInOrder'
    BY <1>1, <2>1 DEF LoopsInOrder, foundVars
  <2>3. PeakSoFar' /\ FadeSoFar'
    <3>1. ~quarterFound /\ doing' \in {"again", "off", "done"} => quarterTime' = passed'
      <4>1. doing \in {"again", "off", "done"} => heardOn # <<>>
        BY <1>1 DEF LoopsInOrder
      <4> QED BY <1>1, <2>1, <4>1 DEF FadeSoFar, foundVars
    <3> QED BY <1>1, <2>1, <3>1, FoundStays DEF foundVars
  <2>4. SilenceSoFar'
    BY <1>1, <2>1, SilenceStays DEF foundVars
  <2>5. FramesSoFar'
    BY <1>1, <2>1, FramesStay
  <2>6. NoteSoFar'
    BY <1>1, <2>1, NoteStays
  <2> QED BY <2>2, <2>3, <2>4, <2>5, <2>6 DEF MeasurementIInv
<1> QED BY <1>2, <1>3, <1>4, <1>5

\* So it always holds.
LEMMA MeasurementKeepsIInv == MeasurementSpec => []MeasurementIInv
<1>1. MeasurementInit => MeasurementIInv
  BY MeasurementAssumption, MeasurementIInvStarts
<1>2. MeasurementIInv /\ [MeasurementNext]_measurementVars => MeasurementIInv'
  BY MeasurementAssumption, OnPeriodKeeps, OffPeriodKeeps, OthersKeepMeasurement
     DEF MeasurementNext
<1> QED BY <1>1, <1>2, PTL DEF MeasurementSpec

\* The frames that are measured are the last ones, oldest first.
LEMMA LastFrames ==
    ASSUME MeasurementAssumption, FramesSoFar
    PROVE  LastFramesAreMeasured
<1> PICK H \in Nat \ {0} : H = HistoryFrames
  BY DEF MeasurementAssumption
<1>1. /\ played \in Nat /\ recentAt \in 0 .. H - 1
      /\ recentLength = (IF played < H THEN played ELSE H)
      /\ \A j \in 0 .. recentLength - 1 : recent[recentAt + H - 1 - j] = played - j
  BY DEF FramesSoFar, IsHistory, HistoryNow
<1>2. ASSUME NEW k \in 1 .. recentLength PROVE Measured[k] = played - recentLength + k
  <2>1. recentLength \in Nat /\ recentLength - k \in 0 .. recentLength - 1
    BY <1>1
  <2>2. recent[recentAt + H - 1 - (recentLength - k)] = played - (recentLength - k)
    BY <1>1, <2>1
  <2>3. /\ recentAt + H - 1 - (recentLength - k) = recentAt + H - recentLength + k - 1
        /\ played - (recentLength - k) = played - recentLength + k
    BY <1>1, <2>1
  <2>4. Measured[k] = recent[recentAt + H - recentLength + k - 1]
    BY DEF Measured
  <2> QED BY <2>2, <2>3, <2>4
<1> QED BY <1>1, <1>2 DEF FramesSoFar, LastFramesAreMeasured

\* The times that were found are those of the sounds that were heard.
LEMMA FoundAreTheSounds ==
    ASSUME MeasurementAssumption, doing = "done",
           LoopsInOrder, PeakSoFar, FadeSoFar, SilenceSoFar
    PROVE  TimesAreTheSounds
<1> PICK n \in Nat : n = Len(heardOn)
  BY DEF LoopsInOrder
<1> DEFINE Loudest(v) == \A j \in DOMAIN heardOn : heardOn[j] <= v
           loudests == FirstAt(heardOn, 0, LAMBDA v : \A j \in DOMAIN heardOn : heardOn[j] <= v)
           faded == FirstAt(heardOn, peakTime + 1, LAMBDA v : v * OnPart <= heardOn[peakTime + 1])
           gone == FirstAt(heardOff, 0, LAMBDA v : v * OffPart <= heardOn[peakTime + 1])
<1>1. /\ heardOn # <<>> /\ heardOn \in Seq(Levels) /\ heardOff \in Seq(Levels)
      /\ peakTime \in 0 .. n - 1 /\ begin = heardOn[1] /\ peak = heardOn[peakTime + 1]
      /\ \A j \in DOMAIN heardOn : heardOn[j] <= peak
      /\ \A j \in 1 .. peakTime : heardOn[j] < peak
      /\ \A j \in 1 .. n : heardOn[j] \in Nat
      /\ DOMAIN heardOn = 1 .. n
  <2>1. heardOn # <<>> /\ heardOn \in Seq(Levels) /\ heardOff \in Seq(Levels)
    BY DEF LoopsInOrder
  <2>2. \A j \in 1 .. n : heardOn[j] \in Nat
    BY <2>1, ElementOfSeq DEF MeasurementAssumption
  <2> QED BY <2>1, <2>2 DEF PeakSoFar
<1>2. loudests = {peakTime}
  <2>1. loudests = {k \in 0 .. n - 1 :
                        Loudest(heardOn[k + 1]) /\ \A j \in 0 .. k - 1 : ~Loudest(heardOn[j + 1])}
    BY DEF FirstAt
  <2>2. Loudest(heardOn[peakTime + 1])
    BY <1>1
  <2>3. ASSUME NEW k \in 0 .. peakTime - 1 PROVE ~Loudest(heardOn[k + 1])
    <3>1. k + 1 \in 1 .. peakTime /\ peakTime + 1 \in DOMAIN heardOn /\ k + 1 \in 1 .. n
      BY <1>1
    <3>2. heardOn[k + 1] < heardOn[peakTime + 1] /\ heardOn[k + 1] \in Nat
          /\ heardOn[peakTime + 1] \in Nat
      BY <1>1, <3>1
    <3>3. ~(heardOn[peakTime + 1] <= heardOn[k + 1])
      BY <3>2
    <3> QED BY <3>1, <3>3
  <2>4. peakTime \in loudests
    <3> HIDE DEF Loudest
    <3> QED BY <1>1, <2>1, <2>2, <2>3
  <2>5. ASSUME NEW k \in loudests PROVE k = peakTime
    <3>1. /\ k \in 0 .. n - 1 /\ Loudest(heardOn[k + 1])
          /\ \A j \in 0 .. k - 1 : ~Loudest(heardOn[j + 1])
      <4> HIDE DEF Loudest
      <4> QED BY <2>1
    <3>2. k \notin 0 .. peakTime - 1
      <4> HIDE DEF Loudest
      <4> QED BY <2>3, <3>1
    <3>3. peakTime \notin 0 .. k - 1
      <4> HIDE DEF Loudest
      <4> QED BY <2>2, <3>1
    <3> QED BY <1>1, <3>1, <3>2, <3>3
  <2> HIDE DEF loudests
  <2> QED BY <2>4, <2>5
<1>3. quarterTime \in (IF faded # {} THEN faded ELSE {passed})
  <2>1. faded = {k \in peakTime + 1 .. n - 1 :
                     Faded(heardOn[k + 1]) /\ \A j \in peakTime + 1 .. k - 1 : ~Faded(heardOn[j + 1])}
    BY <1>1 DEF FirstAt, Faded
  <2> HIDE DEF faded
  <2>2. CASE quarterFound
    <3>1. quarterTime \in faded
      BY <1>1, <2>1, <2>2 DEF FadeSoFar
    <3> QED BY <3>1
  <2>3. CASE ~quarterFound
    <3>1. faded = {} /\ quarterTime = passed
      BY <1>1, <2>1, <2>3 DEF FadeSoFar
    <3> QED BY <3>1
  <2> QED BY <2>2, <2>3
<1>4. keyoffTime \in (IF gone # {} THEN gone ELSE {0})
  <2>1. gone = {k \in 0 .. Len(heardOff) - 1 :
                    Silent(heardOff[k + 1]) /\ \A j \in 0 .. k - 1 : ~Silent(heardOff[j + 1])}
    BY <1>1 DEF FirstAt, Silent
  <2> HIDE DEF gone
  <2>2. CASE keyoffFound
    <3>1. keyoffTime \in gone
      BY <2>1, <2>2 DEF SilenceSoFar
    <3> QED BY <3>1
  <2>3. CASE ~keyoffFound
    <3>1. gone = {} /\ keyoffTime = 0
      BY <2>1, <2>3 DEF SilenceSoFar
    <3> QED BY <3>1
  <2> QED BY <2>2, <2>3
<1>5. (CHOOSE k \in loudests : TRUE) = peakTime
  <2> HIDE DEF loudests
  <2> QED BY <1>2
<1> DEFINE AreTheSounds(l) ==
           /\ peakTime = l /\ peak = heardOn[l + 1] /\ begin = heardOn[1]
           /\ quarterTime \in (IF FirstAt(heardOn, l + 1, LAMBDA v : v * OnPart <= heardOn[l + 1]) # {}
                               THEN FirstAt(heardOn, l + 1, LAMBDA v : v * OnPart <= heardOn[l + 1])
                               ELSE {passed})
           /\ keyoffTime \in (IF FirstAt(heardOff, 0, LAMBDA v : v * OffPart <= heardOn[l + 1]) # {}
                              THEN FirstAt(heardOff, 0, LAMBDA v : v * OffPart <= heardOn[l + 1])
                              ELSE {0})
<1>6. AreTheSounds(peakTime)
  BY <1>1, <1>3, <1>4
<1>7. AreTheSounds(CHOOSE k \in loudests : TRUE)
  <2> HIDE DEF AreTheSounds, loudests
  <2> QED BY <1>5, <1>6
<1> QED BY <1>7 DEF TimesAreTheSounds

\* A measurement gives the times of the sound that was heard, over the frames that were
\* played last, for every length of its periods, of its history and of its loops
\* (ComputeDurations and AudioHistory).
THEOREM TimesMeasured ==
    MeasurementSpec => [](LastFramesAreMeasured /\ (doing = "done" => TimesAreTheSounds))
<1>1. MeasurementIInv => LastFramesAreMeasured /\ (doing = "done" => TimesAreTheSounds)
  BY MeasurementAssumption, LastFrames, FoundAreTheSounds DEF MeasurementIInv
<1> QED BY <1>1, MeasurementKeepsIInv, PTL

\* And when all the notes are below the end of what the chip's eight octaves reach, the
\* chip is told each of them as near as an F-number comes to it (noteOn).  Of the notes
\* above that this is not true, and is not what noteOn does.
THEOREM MeasuredCorrect ==
    ASSUME \A h \in Frequencies : h < 128 * (2 * FullNumber - 1)
    PROVE  MeasurementSpec => []MeasuredAsItSounds
<1>1. MeasurementIInv => MeasuredAsItSounds
  <2> SUFFICES ASSUME MeasurementIInv PROVE MeasuredAsItSounds
    OBVIOUS
  <2>1. LastFramesAreMeasured /\ (doing = "done" => TimesAreTheSounds)
    BY MeasurementAssumption, LastFrames, FoundAreTheSounds DEF MeasurementIInv
  <2>2. ASSUME doing \in {"on", "again"} PROVE AtItsPitch
    <3>1. hertz \in Frequencies /\ word = WordOf(hertz)
      BY <2>2 DEF MeasurementIInv, LoopsInOrder, NoteSoFar
    <3>2. hertz \in Nat /\ hertz < 128 * (2 * FullNumber - 1)
      BY <3>1, MeasurementAssumption DEF MeasurementAssumption
    <3> QED BY <3>1, <3>2, MeasurementAssumption, WordIsThePitch
  <2> QED BY <2>1, <2>2 DEF MeasuredAsItSounds
<1> QED BY <1>1, MeasurementKeepsIInv, PTL
=============================================================================
