---------------------------- MODULE ThreadsProofs ----------------------------
(***************************************************************************)
(* What is proved of the two threads that share a queue: whoever reads     *)
(* finds the oldest message, in one piece, and what was reserved stays     *)
(* free until it is published, for every capacity, every size of header    *)
(* and every set of messages; and a worker which is woken finds a message, *)
(* and no request is lost or overtaken, for every number of programs and   *)
(* every length of the queues.                                             *)
(***************************************************************************)
EXTENDS SimpleFifo, Worker, SequenceTheorems, TLAPS

-----------------------------------------------------------------------------
(* Arithmetic of the ring.                                                 *)

\* A number below the word is itself.
LEMMA SumIs ==
    ASSUME NEW w \in Nat, NEW x \in Nat, x < w
    PROVE  x % w = x
  OBVIOUS

\* A message that is in range has the length of its header and its body.
LEMMA LengthIs ==
    ASSUME NEW m \in Messages, InRange(HeaderSize, SizeOf[m])
    PROVE  /\ SizeOf[m] \in Nat
           /\ LengthOf[m] = HeaderSize + SizeOf[m]
           /\ LengthOf[m] \in Nat /\ HeaderSize <= LengthOf[m] /\ LengthOf[m] <= Capacity
  <1>1. /\ SizeOf[m] \in Nat /\ HeaderSize \in Nat /\ Capacity \in Nat /\ Word \in Nat
        /\ Capacity < Word
    BY FifoAssumption
  <1>2. HeaderSize + SizeOf[m] \in Nat /\ HeaderSize + SizeOf[m] <= Capacity
    BY <1>1 DEF InRange
  <1>3. HeaderSize + SizeOf[m] < Word
    BY <1>1, <1>2
  <1>4. (HeaderSize + SizeOf[m]) % Word = HeaderSize + SizeOf[m]
    BY ONLY <1>1, <1>2, <1>3, SumIs
  <1>5. LengthOf[m] = HeaderSize + SizeOf[m]
    BY <1>4 DEF LengthOf, Sum
  <1> QED BY <1>1, <1>2, <1>5

\* The indices, and what is ready and free between them.
LEMMA ReadyIs ==
    ASSUME validStart \in Half, validEnd \in Half
    PROVE  /\ Capacity \in Nat /\ NumReady \in Nat /\ NumReady < Capacity
           /\ FreeSpace \in Nat /\ FreeSpace = Capacity - NumReady
  BY FifoAssumption DEF Half, NumReady, FreeSpace

\* What lies less than the free space behind the end lies after all that is ready.
LEMMA BehindTheEnd ==
    ASSUME validStart \in Half, validEnd \in Half,
           NEW i \in Positions, Behind(i, validEnd) < FreeSpace
    PROVE  Behind(i, validStart) >= NumReady
  BY FifoAssumption DEF Half, NumReady, FreeSpace, Behind, Positions

\* The distance from an index is between nothing and the capacity.
LEMMA BehindIs ==
    ASSUME NEW i \in Positions, NEW index \in Half
    PROVE  Behind(i, index) \in 0 .. Capacity - 1
  BY FifoAssumption DEF Half, Behind, Positions

\* The index that moves forward by what is ready leaves the rest ready.
LEMMA MovedStart ==
    ASSUME validStart \in Half, validEnd \in Half,
           NEW n \in Nat, n <= NumReady, validStart' = Moved(validStart, n), validEnd' = validEnd
    PROVE  /\ validStart' \in Half
           /\ NumReady' = NumReady - n
           /\ \A i \in Positions :
                 Behind(i, validStart') = IF Behind(i, validStart) >= n
                                          THEN Behind(i, validStart) - n
                                          ELSE Behind(i, validStart) - n + Capacity
  BY FifoAssumption DEF Half, NumReady, Moved, Behind, Positions

\* The end that moves forward by less than what is free makes that ready.
LEMMA MovedEnd ==
    ASSUME validStart \in Half, validEnd \in Half,
           NEW n \in Nat, n <= FreeSpace - 1, validEnd' = Moved(validEnd, n),
           validStart' = validStart
    PROVE  /\ validEnd' \in Half
           /\ NumReady' = NumReady + n
           /\ \A i \in Positions : 
                 NumReady <= Behind(i, validStart) /\ Behind(i, validStart) < NumReady + n =>
                     Behind(i, validEnd) = Behind(i, validStart) - NumReady
  BY FifoAssumption DEF Half, NumReady, FreeSpace, Moved, Behind, Positions

-----------------------------------------------------------------------------
(* The invariant.                                                          *)

\* At first there is nothing in the ring.
LEMMA InitInv == ASSUME FifoInit PROVE FifoIInv
  <1>1. FifoTypeOK
    BY FifoAssumption DEF FifoInit, FifoTypeOK, Half, WriterStates, ReaderStates
  <1>2. PendingFillsTheRing /\ BothHalvesHold
    BY FifoAssumption DEF FifoInit, PendingFillsTheRing, BothHalvesHold, NumReady
  <1> QED BY <1>1, <1>2 DEF FifoInit, FifoIInv, ReaderIsAtTheHead, WriterIsOnItsWay

\* Nothing changes in a ring that nobody touches.
LEMMA RingStays ==
    ASSUME PendingFillsTheRing, BothHalvesHold,
           UNCHANGED <<buffer, validStart, validEnd, pending>>
    PROVE  PendingFillsTheRing' /\ BothHalvesHold'
  <1>1. buffer' = buffer /\ validStart' = validStart /\ pending' = pending
    OBVIOUS
  <1>2. NumReady' = NumReady /\ LengthOf' = LengthOf
    BY DEF NumReady, LengthOf
  <1>3. PendingFillsTheRing'
    BY ONLY <1>1, <1>2, PendingFillsTheRing DEF PendingFillsTheRing
  <1>4. BothHalvesHold'
    BY ONLY <1>1, <1>2, BothHalvesHold DEF BothHalvesHold, Behind
  <1> QED BY <1>3, <1>4

\* A write that keeps to the free space disturbs nothing that is pending.
LEMMA FreeSpaceIsNotPending ==
    ASSUME FifoIInv, UNCHANGED <<validStart, validEnd, pending>>,
           NEW n \in Nat, n <= FreeSpace,
           \A i \in Positions : Behind(i, validEnd) >= n => buffer'[i] = buffer[i]
    PROVE  PendingFillsTheRing' /\ BothHalvesHold'
  <1> USE DEF FifoIInv
  <1>0. validStart' = validStart /\ validEnd' = validEnd /\ pending' = pending
    OBVIOUS
  <1>1. PendingFillsTheRing'
    <2>1. NumReady' = NumReady /\ LengthOf' = LengthOf
      BY <1>0 DEF NumReady, LengthOf
    <2> QED BY ONLY <1>0, <2>1, PendingFillsTheRing DEF PendingFillsTheRing
  <1>2. ASSUME NEW k \in DOMAIN pending, NEW i \in Positions,
               0 <= Behind(i, validStart) - pending[k].off,
               Behind(i, validStart) - pending[k].off < LengthOf[pending[k].msg]
        PROVE  buffer'[i] = <<pending[k].msg, Behind(i, validStart) - pending[k].off>>
    <2>1. validStart \in Half /\ validEnd \in Half
          /\ pending[k].off \in Nat /\ pending[k].msg \in Messages
      <3>1. pending \in Seq([msg : Messages, off : 0 .. Capacity]) /\ Capacity \in Nat
        BY FifoAssumption DEF FifoTypeOK
      <3>2. pending[k] \in [msg : Messages, off : 0 .. Capacity]
        BY <3>1, ElementOfSeq, LenProperties
      <3> QED BY <3>1, <3>2 DEF FifoTypeOK
    <2>2. /\ InRange(HeaderSize, SizeOf[pending[k].msg])
          /\ pending[k].off + LengthOf[pending[k].msg] <= NumReady
      BY DEF PendingFillsTheRing
    <2>3. LengthOf[pending[k].msg] \in Nat
      BY <2>1, <2>2, LengthIs
    <2>4. NumReady \in Nat /\ FreeSpace \in Nat
      BY <2>1, ReadyIs
    <2>5. Behind(i, validStart) \in Int /\ Behind(i, validEnd) \in Int
      BY <2>1, BehindIs
    <2>6. Behind(i, validStart) < NumReady
      BY <1>2, <2>1, <2>2, <2>3, <2>4, <2>5
    <2>7. ~ (Behind(i, validEnd) < FreeSpace)
      BY <2>1, <2>4, <2>5, <2>6, BehindTheEnd
    <2>8. Behind(i, validEnd) >= n
      BY <2>4, <2>5, <2>7
    <2> QED BY <1>2, <2>8 DEF BothHalvesHold
  <1>3. BothHalvesHold'
    BY <1>0, <1>2 DEF BothHalvesHold, Behind, LengthOf
  <1> QED BY <1>1, <1>3

\* The reader is where it was while the other thread writes.
LEMMA ReaderStays ==
    ASSUME ReaderIsAtTheHead, UNCHANGED <<rpc, rmsg, pending>>
    PROVE  ReaderIsAtTheHead'
  BY DEF ReaderIsAtTheHead

\* A header goes into free space.
LEMMA WriteHeaderInv ==
    ASSUME FifoIInv, NEW m \in Messages, WriteHeader(m)
    PROVE  FifoIInv'
  <1> USE DEF FifoIInv
  <1>1. /\ validStart \in Half /\ validEnd \in Half /\ HeaderSize \in Nat \ {0}
        /\ HeaderSize < Word
    BY FifoAssumption DEF FifoTypeOK
  <1>2. Capacity \in Nat /\ FreeSpace \in Nat /\ FreeSpace <= Capacity
    BY <1>1, ReadyIs
  <1>3. Sum(0, HeaderSize) = HeaderSize
    <2>1. HeaderSize % Word = HeaderSize
      BY <1>1, SumIs, FifoAssumption
    <2> QED BY <1>1, <2>1 DEF Sum
  <1>4. CanWrite(HeaderSize) /\ HeaderSize <= FreeSpace - 1
    BY <1>1, <1>3 DEF WriteHeader, Room, CanWrite
  <1>5. \A i \in Positions : Behind(i, validEnd) >= HeaderSize => buffer'[i] = buffer[i]
    BY <1>1, <1>2, <1>4 DEF WriteHeader, Filled, Behind, Half, Positions, FifoTypeOK
  <1>6. PendingFillsTheRing' /\ BothHalvesHold'
    BY <1>1, <1>2, <1>4, <1>5, FreeSpaceIsNotPending DEF WriteHeader
  <1>7. FifoTypeOK'
    <2>1. buffer' \in [Positions -> (Messages \cup {NoMessage}) \X Nat]
      BY <1>1, <1>2 DEF WriteHeader, Filled, FifoTypeOK, Positions, Half
    <2> QED BY <2>1 DEF WriteHeader, FifoTypeOK, WriterStates, Half, Positions
  <1>8. WriterIsOnItsWay'
    <2>1. CanWrite(HeaderSize)'
      BY <1>4 DEF WriteHeader, CanWrite, FreeSpace, NumReady
    <2>2. Written(HeaderSize)'
      BY <1>1, <1>2 DEF WriteHeader, Filled, Written, Positions, Half
    <2> QED BY <2>1, <2>2 DEF WriteHeader, WriterIsOnItsWay
  <1> QED BY <1>6, <1>7, <1>8, ReaderStays DEF WriteHeader

\* A body that is reserved fits behind its header.
LEMMA ReserveBodyInv ==
    ASSUME FifoIInv, ReserveBody
    PROVE  FifoIInv'
  <1> USE DEF FifoIInv
  <1>1. wmsg \in Messages /\ validStart \in Half /\ validEnd \in Half
    BY DEF ReserveBody, FifoTypeOK
  <1>2. PendingFillsTheRing' /\ BothHalvesHold'
    BY RingStays DEF ReserveBody
  <1>3. FifoTypeOK'
    BY DEF ReserveBody, FifoTypeOK, WriterStates, Half, Positions
  <1>4. WriterIsOnItsWay'
    <2>1. CASE Room(HeaderSize, SizeOf[wmsg])
      <3>1. LengthOf[wmsg] = Sum(HeaderSize, SizeOf[wmsg])
        BY <1>1 DEF LengthOf
      <3>2. InRange(HeaderSize, SizeOf[wmsg]) /\ CanWrite(LengthOf[wmsg])
        BY <2>1, <3>1 DEF Room
      <3> QED BY <2>1, <3>2 DEF ReserveBody, WriterIsOnItsWay, InRange, CanWrite, FreeSpace,
                              NumReady, LengthOf, Written
    <2>2. CASE ~Room(HeaderSize, SizeOf[wmsg])
      BY <2>2 DEF ReserveBody, WriterIsOnItsWay
    <2> QED BY <2>1, <2>2
  <1> QED BY <1>2, <1>3, <1>4, ReaderStays DEF ReserveBody

\* Giving up a reservation disturbs nothing.
LEMMA GiveUpInv ==
    ASSUME FifoIInv, GiveUp
    PROVE  FifoIInv'
  <1> USE DEF FifoIInv
  <1>1. PendingFillsTheRing' /\ BothHalvesHold'
    BY RingStays DEF GiveUp
  <1>2. FifoTypeOK' /\ WriterIsOnItsWay'
    BY DEF GiveUp, FifoTypeOK, WriterStates, Half, Positions, WriterIsOnItsWay
  <1> QED BY <1>1, <1>2, ReaderStays DEF GiveUp

\* The body goes behind the header, into what is free.
LEMMA SetBodyInv ==
    ASSUME FifoIInv, SetBody
    PROVE  FifoIInv'
  <1> USE DEF FifoIInv
  <1>1. /\ validStart \in Half /\ validEnd \in Half /\ HeaderSize \in Nat \ {0}
        /\ wmsg \in Messages /\ InRange(HeaderSize, SizeOf[wmsg])
        /\ CanWrite(LengthOf[wmsg]) /\ CanWrite(HeaderSize) /\ Written(HeaderSize)
    BY FifoAssumption DEF FifoTypeOK, SetBody, WriterIsOnItsWay
  <1>2. /\ SizeOf[wmsg] \in Nat /\ LengthOf[wmsg] = HeaderSize + SizeOf[wmsg]
        /\ LengthOf[wmsg] \in Nat \ {0}
    BY <1>1, LengthIs
  <1>3. Capacity \in Nat /\ FreeSpace \in Nat /\ FreeSpace <= Capacity
    BY <1>1, ReadyIs
  <1>4. LengthOf[wmsg] <= FreeSpace - 1
    BY <1>1, <1>2 DEF CanWrite
  <1>5. \A i \in Positions : Behind(i, validEnd) >= LengthOf[wmsg] => buffer'[i] = buffer[i]
    <2>1. ASSUME NEW i \in Positions, Behind(i, validEnd) >= LengthOf[wmsg]
          PROVE  ~(validEnd + HeaderSize <= i /\ i < validEnd + HeaderSize + SizeOf[wmsg])
      BY ONLY <1>1, <1>2, <1>3, <1>4, <2>1 DEF Behind, Half, Positions
    <2> QED BY <2>1 DEF SetBody, Filled
  <1>6. PendingFillsTheRing' /\ BothHalvesHold'
    BY <1>2, <1>3, <1>4, <1>5, FreeSpaceIsNotPending DEF SetBody
  <1>7. FifoTypeOK'
    <2>1. buffer' \in [Positions -> (Messages \cup {NoMessage}) \X Nat]
      BY <1>1, <1>2, <1>3 DEF SetBody, Filled, FifoTypeOK, Positions, Half
    <2> QED BY <2>1 DEF SetBody, FifoTypeOK, WriterStates, Half, Positions
  <1>8. WriterIsOnItsWay'
    <2>1. /\ NumReady' = NumReady /\ LengthOf' = LengthOf /\ FreeSpace' = FreeSpace
          /\ wmsg' = wmsg /\ wstep' = "filled" /\ validEnd' = validEnd
      BY DEF SetBody, NumReady, LengthOf, FreeSpace
    <2>2. \A i \in Positions : validEnd <= i /\ i < validEnd + LengthOf[wmsg] =>
                                   buffer'[i] = <<wmsg, i - validEnd>>
      <3>1. ASSUME NEW i \in Positions, validEnd <= i, i < validEnd + HeaderSize
            PROVE  buffer'[i] = <<wmsg, i - validEnd>>
        BY <1>1, <3>1 DEF SetBody, Filled, Written, Positions, Half
      <3>2. ASSUME NEW i \in Positions, validEnd + HeaderSize <= i,
                   i < validEnd + LengthOf[wmsg]
            PROVE  buffer'[i] = <<wmsg, i - validEnd>>
        <4>1. i < validEnd + HeaderSize + SizeOf[wmsg] /\ i \in Int /\ validEnd \in Int
          BY <1>1, <1>2, <3>2 DEF Half, Positions
        <4>2. buffer'[i] = <<wmsg, HeaderSize + (i - (validEnd + HeaderSize))>>
          BY <3>2, <4>1 DEF SetBody, Filled
        <4> QED BY <1>1, <4>1, <4>2
      <3> QED BY <1>1, <3>1, <3>2 DEF Half, Positions
    <2>3. Written(HeaderSize)' /\ Written(LengthOf[wmsg])'
      BY <1>1, <1>2, <2>1, <2>2 DEF Written, Positions, Half
    <2> QED BY <1>1, <2>1, <2>3 DEF WriterIsOnItsWay, CanWrite, InRange
  <1> QED BY <1>6, <1>7, <1>8, ReaderStays DEF SetBody

\* What finish_write copies, it copies within the space it was given.
LEMMA MirrorFacts ==
    ASSUME FifoIInv, wstep \in {"filled", "mirrored up", "mirrored"}
    PROVE  /\ validStart \in Half /\ validEnd \in Half /\ wmsg \in Messages
           /\ Capacity \in Nat \ {0} /\ FreeSpace \in Nat /\ FreeSpace <= Capacity
           /\ LengthOf[wmsg] \in Nat \ {0} /\ LengthOf[wmsg] <= FreeSpace - 1
           /\ InFirstHalf \in Nat /\ InFirstHalf <= LengthOf[wmsg]
           /\ validEnd + InFirstHalf <= Capacity
           /\ InFirstHalf < LengthOf[wmsg] => InFirstHalf = Capacity - validEnd
  <1> USE DEF FifoIInv
  <1>1. /\ validStart \in Half /\ validEnd \in Half /\ HeaderSize \in Nat \ {0}
        /\ wmsg \in Messages /\ InRange(HeaderSize, SizeOf[wmsg])
        /\ CanWrite(LengthOf[wmsg]) /\ Capacity \in Nat \ {0}
    BY FifoAssumption DEF FifoTypeOK, WriterIsOnItsWay
  <1>2. LengthOf[wmsg] \in Nat \ {0}
    BY ONLY <1>1, LengthIs
  <1>3. FreeSpace \in Nat /\ FreeSpace <= Capacity
    BY ONLY <1>1, ReadyIs
  <1>4. LengthOf[wmsg] <= FreeSpace - 1
    BY <1>1, <1>2 DEF CanWrite
  <1>5. /\ InFirstHalf \in Nat /\ InFirstHalf <= LengthOf[wmsg]
        /\ validEnd + InFirstHalf <= Capacity
        /\ InFirstHalf < LengthOf[wmsg] => InFirstHalf = Capacity - validEnd
    <2> DEFINE L == LengthOf[wmsg]
    <2>1. InFirstHalf = IF L <= Capacity - validEnd THEN L ELSE Capacity - validEnd
      BY DEF InFirstHalf
    <2>2. L \in Nat \ {0} /\ validEnd \in 0 .. Capacity - 1 /\ Capacity \in Nat
      BY <1>1, <1>2 DEF Half
    <2> HIDE DEF L
    <2>3. /\ InFirstHalf \in Nat /\ InFirstHalf <= L
          /\ validEnd + InFirstHalf <= Capacity
          /\ InFirstHalf < L => InFirstHalf = Capacity - validEnd
      BY ONLY <2>1, <2>2
    <2> QED BY <2>3 DEF L
  <1> QED BY <1>1, <1>2, <1>3, <1>4, <1>5

\* After the first copy the second half has what the first half has.
LEMMA MirrorUpInv ==
    ASSUME FifoIInv, MirrorUp
    PROVE  FifoIInv'
  <1> USE DEF FifoIInv
  <1>1. wstep = "filled" /\ wstep' = "mirrored up" /\ Written(LengthOf[wmsg])
    BY DEF MirrorUp, WriterIsOnItsWay
  <1>2. /\ validStart \in Half /\ validEnd \in Half /\ wmsg \in Messages
        /\ Capacity \in Nat \ {0} /\ FreeSpace \in Nat /\ FreeSpace <= Capacity
        /\ LengthOf[wmsg] \in Nat \ {0} /\ LengthOf[wmsg] <= FreeSpace - 1
        /\ InFirstHalf \in Nat /\ InFirstHalf <= LengthOf[wmsg]
        /\ validEnd + InFirstHalf <= Capacity
    BY <1>1, MirrorFacts
  <1>3. \A i \in Positions : Behind(i, validEnd) >= LengthOf[wmsg] => buffer'[i] = buffer[i]
    <2>1. ASSUME NEW i \in Positions, Behind(i, validEnd) >= LengthOf[wmsg]
          PROVE  ~(validEnd + Capacity <= i /\ i < validEnd + Capacity + InFirstHalf)
      BY ONLY <1>2, <2>1 DEF Behind, Half, Positions
    <2> QED BY <2>1 DEF MirrorUp, Copied
  <1>4. PendingFillsTheRing' /\ BothHalvesHold'
    <2>1. LengthOf[wmsg] \in Nat /\ LengthOf[wmsg] <= FreeSpace
      BY ONLY <1>2
    <2>2. UNCHANGED <<validStart, validEnd, pending>>
      BY DEF MirrorUp
    <2> QED BY ONLY <1>3, <2>1, <2>2, FifoIInv, FreeSpaceIsNotPending
  <1>5. FifoTypeOK'
    <2>1. \A i \in Positions : validEnd + Capacity <= i /\ i < validEnd + Capacity + InFirstHalf
             => validEnd + (i - (validEnd + Capacity)) \in Positions
      BY <1>2 DEF Positions, Half
    <2>2. buffer' \in [Positions -> (Messages \cup {NoMessage}) \X Nat]
      BY <2>1 DEF MirrorUp, Copied, FifoTypeOK
    <2> QED BY <2>2 DEF MirrorUp, FifoTypeOK, WriterStates, Half, Positions
  <1>6. WriterIsOnItsWay'
    <2>1. /\ NumReady' = NumReady /\ LengthOf' = LengthOf /\ FreeSpace' = FreeSpace
          /\ wmsg' = wmsg /\ validEnd' = validEnd /\ InFirstHalf' = InFirstHalf
      <3>1. validStart' = validStart /\ wmsg' = wmsg /\ validEnd' = validEnd
        BY DEF MirrorUp
      <3> QED BY ONLY <3>1 DEF NumReady, LengthOf, FreeSpace, InFirstHalf
    <2>2. ASSUME NEW i \in Positions, validEnd <= i, i < validEnd + LengthOf[wmsg]
          PROVE  buffer'[i] = <<wmsg, i - validEnd>>
      <3>1. ~(validEnd + Capacity <= i)
        BY <1>2, <2>2 DEF Positions, Half
      <3> QED BY <1>1, <2>2, <3>1 DEF MirrorUp, Copied, Written
    <2>3. ASSUME NEW i \in Positions, validEnd + Capacity <= i,
                 i < validEnd + Capacity + InFirstHalf
          PROVE  buffer'[i] = <<wmsg, i - validEnd - Capacity>>
      <3> DEFINE j == validEnd + (i - (validEnd + Capacity))
      <3>1. /\ j \in Positions /\ validEnd <= j /\ j < validEnd + LengthOf[wmsg]
            /\ j - validEnd = i - validEnd - Capacity
        BY <1>2, <2>3 DEF Positions, Half
      <3>2. buffer'[i] = buffer[j]
        BY <2>3 DEF MirrorUp, Copied
      <3> HIDE DEF j
      <3>3. buffer[j] = <<wmsg, j - validEnd>>
        BY ONLY <1>1, <3>1 DEF Written
      <3> QED BY ONLY <3>1, <3>2, <3>3
    <2>4. Written(LengthOf[wmsg])' /\ WrittenUp'
      BY <2>1, <2>2, <2>3 DEF Written, WrittenUp
    <2>5. /\ CanWrite(HeaderSize) /\ InRange(HeaderSize, SizeOf[wmsg])
          /\ CanWrite(LengthOf[wmsg]) /\ HeaderSize \in Nat /\ HeaderSize <= LengthOf[wmsg]
      BY <1>1, <1>2, LengthIs, FifoAssumption DEF WriterIsOnItsWay
    <2>6. Written(HeaderSize)'
      BY <1>2, <2>1, <2>4, <2>5 DEF Written, Positions, Half
    <2> QED BY <1>1, <2>1, <2>4, <2>5, <2>6 DEF WriterIsOnItsWay, CanWrite, InRange
  <1> QED BY <1>4, <1>5, <1>6, ReaderStays DEF MirrorUp

\* After the second copy both halves have the whole message.
LEMMA MirrorDownInv ==
    ASSUME FifoIInv, MirrorDown
    PROVE  FifoIInv'
  <1> USE DEF FifoIInv
  <1> DEFINE L == LengthOf[wmsg]
             rest == L - InFirstHalf
  <1>1. /\ wstep = "mirrored up" /\ wstep' = "mirrored" /\ Written(L) /\ WrittenUp
        /\ \A i \in Positions :
              buffer'[i] = IF 0 <= i /\ i < 0 + rest THEN buffer[Capacity + (i - 0)] ELSE buffer[i]
    BY DEF MirrorDown, WriterIsOnItsWay, Copied
  <1>2. /\ validStart \in Half /\ validEnd \in Half /\ wmsg \in Messages
        /\ Capacity \in Nat \ {0} /\ FreeSpace \in Nat /\ FreeSpace <= Capacity
        /\ L \in Nat \ {0} /\ L <= FreeSpace - 1
        /\ InFirstHalf \in Nat /\ InFirstHalf <= L
        /\ validEnd + InFirstHalf <= Capacity
        /\ InFirstHalf < L => InFirstHalf = Capacity - validEnd
    BY <1>1, MirrorFacts
  <1>3. rest \in Nat /\ rest <= validEnd /\ rest >= L - (Capacity - validEnd)
        /\ (rest > 0 => rest = L - (Capacity - validEnd))
    <2> HIDE DEF L
    <2> QED BY ONLY <1>2 DEF Half
  <1>4. \A i \in Positions : Behind(i, validEnd) >= L => buffer'[i] = buffer[i]
    <2> HIDE DEF L, rest
    <2>1. ASSUME NEW i \in Positions, Behind(i, validEnd) >= L
          PROVE  ~(0 <= i /\ i < 0 + rest)
      BY ONLY <1>2, <1>3, <2>1 DEF Behind, Half, Positions
    <2> QED BY ONLY <1>1, <2>1
  <1>5. PendingFillsTheRing' /\ BothHalvesHold'
    <2>1. L \in Nat /\ L <= FreeSpace
      BY ONLY <1>2
    <2>2. UNCHANGED <<validStart, validEnd, pending>>
      BY DEF MirrorDown
    <2> HIDE DEF L
    <2> QED BY ONLY <1>4, <2>1, <2>2, FifoIInv, FreeSpaceIsNotPending
  <1>6. FifoTypeOK'
    <2> HIDE DEF L, rest
    <2>1. \A i \in Positions : 0 <= i /\ i < 0 + rest => Capacity + (i - 0) \in Positions
      BY ONLY <1>2, <1>3 DEF Positions, Half
    <2>2. buffer' \in [Positions -> (Messages \cup {NoMessage}) \X Nat]
      BY <1>1, <2>1 DEF MirrorDown, Copied, FifoTypeOK
    <2> QED BY <2>2 DEF MirrorDown, FifoTypeOK, WriterStates, Half, Positions
  <1>7. WriterIsOnItsWay'
    <2>1. /\ NumReady' = NumReady /\ LengthOf' = LengthOf /\ FreeSpace' = FreeSpace
          /\ wmsg' = wmsg /\ validEnd' = validEnd /\ InFirstHalf' = InFirstHalf
      <3>1. validStart' = validStart /\ wmsg' = wmsg /\ validEnd' = validEnd
        BY DEF MirrorDown
      <3> QED BY ONLY <3>1 DEF NumReady, LengthOf, FreeSpace, InFirstHalf
    <2>2. /\ CanWrite(HeaderSize) /\ InRange(HeaderSize, SizeOf[wmsg])
          /\ CanWrite(L) /\ HeaderSize \in Nat /\ HeaderSize <= L
      BY <1>1, <1>2, LengthIs, FifoAssumption DEF WriterIsOnItsWay
    <2> HIDE DEF L, rest
    <2>3. ASSUME NEW i \in Positions, validEnd <= i, i < validEnd + L
          PROVE  buffer'[i] = <<wmsg, i - validEnd>>
      <3>1. ~(0 <= i /\ i < 0 + rest)
        BY ONLY <1>2, <1>3, <2>3 DEF Positions, Half
      <3> QED BY ONLY <1>1, <2>3, <3>1 DEF Written
    <2>4. ASSUME NEW i \in Positions, validEnd + Capacity <= i,
                 i < validEnd + Capacity + InFirstHalf
          PROVE  buffer'[i] = <<wmsg, i - validEnd - Capacity>>
      <3>1. ~(0 <= i /\ i < 0 + rest)
        BY ONLY <1>2, <1>3, <2>4 DEF Positions, Half
      <3> QED BY ONLY <1>1, <2>4, <3>1 DEF WrittenUp
    <2>5. ASSUME NEW i \in Positions, Behind(i, validEnd) < L
          PROVE  buffer'[i] = <<wmsg, Behind(i, validEnd)>>
      <3>1. CASE i >= validEnd + Capacity
        <4>1. Behind(i, validEnd) = i - validEnd - Capacity
              /\ i < validEnd + Capacity + InFirstHalf
          BY ONLY <1>2, <2>5, <3>1 DEF Behind, Positions, Half
        <4> QED BY <2>4, <3>1, <4>1
      <3>2. CASE ~(i >= validEnd + Capacity) /\ i >= validEnd
        <4>1. Behind(i, validEnd) = i - validEnd /\ i < validEnd + L
          BY ONLY <1>2, <2>5, <3>2 DEF Behind, Positions, Half
        <4> QED BY <2>3, <3>2, <4>1
      <3>3. CASE ~(i >= validEnd)
        <4> DEFINE j == Capacity + (i - 0)
        <4>1. /\ 0 <= i /\ i < 0 + rest /\ j \in Positions
              /\ validEnd <= j /\ j < validEnd + L /\ j - validEnd = Behind(i, validEnd)
          BY ONLY <1>2, <1>3, <2>5, <3>3 DEF Behind, Positions, Half
        <4>2. buffer'[i] = buffer[j]
          BY ONLY <1>1, <4>1
        <4> HIDE DEF j
        <4>3. buffer[j] = <<wmsg, j - validEnd>>
          BY ONLY <1>1, <4>1 DEF Written
        <4> QED BY ONLY <4>1, <4>2, <4>3
      <3> QED BY <1>2, <3>1, <3>2, <3>3 DEF Positions, Half
    <2>6. \A i \in Positions : Behind(i, validEnd)' < L => buffer'[i] = <<wmsg, Behind(i, validEnd)'>>
      BY <2>1, <2>5 DEF Behind
    <2>7. Written(L)' /\ WrittenUp' /\ Written(HeaderSize)'
      <3>1. L' = L
        BY <2>1 DEF L
      <3>2. Written(L)' /\ WrittenUp'
        BY ONLY <2>1, <2>3, <2>4, <3>1 DEF Written, WrittenUp
      <3>3. \A i \in Positions : i < validEnd + HeaderSize => i < validEnd + L
        BY ONLY <1>2, <2>2 DEF Positions, Half
      <3>4. Written(HeaderSize)'
        BY ONLY <2>1, <2>3, <3>3 DEF Written
      <3> QED BY <3>2, <3>4
    <2> QED BY <1>1, <2>1, <2>2, <2>6, <2>7 DEF WriterIsOnItsWay, CanWrite, InRange, L
  <1> QED BY <1>5, <1>6, <1>7, ReaderStays DEF MirrorDown

\* What is published lies behind all that was pending.
LEMMA PublishInv ==
    ASSUME FifoIInv, Publish
    PROVE  FifoIInv'
  <1> USE DEF FifoIInv
  <1> DEFINE L == LengthOf[wmsg]
             N == Len(pending)
             S == [msg : Messages, off : 0 .. Capacity]
             new == [msg |-> wmsg, off |-> NumReady]
  <1>1. /\ wstep = "mirrored" /\ wstep' = "idle" /\ pending' = Append(pending, new)
        /\ validEnd' = Moved(validEnd, L) /\ validStart' = validStart /\ buffer' = buffer
        /\ UNCHANGED <<wmsg, rpc, rmsg>>
        /\ InRange(HeaderSize, SizeOf[wmsg])
        /\ \A i \in Positions : Behind(i, validEnd) < L => buffer[i] = <<wmsg, Behind(i, validEnd)>>
    BY DEF Publish, WriterIsOnItsWay
  <1>2. /\ validStart \in Half /\ validEnd \in Half /\ wmsg \in Messages
        /\ Capacity \in Nat \ {0} /\ FreeSpace \in Nat /\ FreeSpace <= Capacity
        /\ L \in Nat \ {0} /\ L <= FreeSpace - 1
    BY <1>1, MirrorFacts
  <1>3. NumReady \in Nat /\ NumReady < Capacity /\ FreeSpace = Capacity - NumReady
    BY ONLY <1>2, ReadyIs
  <1>4. /\ validEnd' \in Half /\ NumReady' = NumReady + L
        /\ \A i \in Positions :
              NumReady <= Behind(i, validStart) /\ Behind(i, validStart) < NumReady + L =>
                  Behind(i, validEnd) = Behind(i, validStart) - NumReady
    <2>1. L \in Nat /\ L <= FreeSpace - 1
      BY <1>2
    <2> HIDE DEF L
    <2> QED BY ONLY <1>1, <1>2, <2>1, MovedEnd
  <1>5. pending \in Seq(S) /\ new \in S /\ N \in Nat
    BY <1>2, <1>3 DEF FifoTypeOK
  <1>6. /\ pending' \in Seq(S) /\ Len(pending') = N + 1 /\ DOMAIN pending' = 1 .. N + 1
        /\ DOMAIN pending = 1 .. N
        /\ \A k \in 1 .. N : pending'[k] = pending[k]
        /\ pending'[N + 1] = new
    <2> HIDE DEF S, new
    <2> QED BY <1>1, <1>5, AppendProperties, LenProperties
  <1>7. /\ LengthOf' = LengthOf
        /\ \A k \in 1 .. N : /\ pending[k].off \in Nat /\ pending[k].msg \in Messages
                            /\ LengthOf[pending[k].msg] \in Nat
                            /\ InRange(HeaderSize, SizeOf[pending[k].msg])
    <2>1. ASSUME NEW k \in 1 .. N
          PROVE  /\ pending[k].off \in Nat /\ pending[k].msg \in Messages
                 /\ InRange(HeaderSize, SizeOf[pending[k].msg])
      <3>1. pending[k] \in S
        BY <1>5, ElementOfSeq
      <3>2. InRange(HeaderSize, SizeOf[pending[k].msg])
        BY <1>6, <2>1 DEF PendingFillsTheRing
      <3> QED BY ONLY <1>2, <3>1, <3>2
    <2> QED BY <2>1, LengthIs DEF LengthOf
  <1>8. FifoTypeOK'
    BY <1>1, <1>2, <1>4, <1>6 DEF FifoTypeOK, WriterStates, S
  <1>9. PendingFillsTheRing'
    <2>1. /\ pending' # <<>> /\ pending'[1].off = 0
      <3>1. pending' # <<>>
        <4>1. ASSUME pending' = <<>> PROVE FALSE
          <5>1. Len(pending') = 0
            BY <4>1, EmptySeq
          <5> HIDE DEF N
          <5> QED BY ONLY <1>5, <1>6, <5>1
        <4> QED BY <4>1
      <3>2. ASSUME N = 0 PROVE pending'[1].off = 0
        <4>1. pending = <<>>
          <5> HIDE DEF S
          <5> QED BY ONLY <1>5, <3>2, EmptySeq
        <4>2. NumReady = 0
          BY <4>1 DEF PendingFillsTheRing
        <4>3. pending'[1] = new
          <5>1. pending'[N + 1] = new /\ N + 1 = 1
            BY ONLY <1>6, <3>2
          <5> HIDE DEF N, new
          <5> QED BY ONLY <5>1
        <4> QED BY ONLY <4>2, <4>3
      <3>3. ASSUME N > 0 PROVE pending'[1].off = 0
        <4>1. pending # <<>>
          <5>1. Len(<<>>) = 0
            BY EmptySeq
          <5> QED BY ONLY <3>3, <5>1
        <4>2. pending[1].off = 0
          BY <4>1 DEF PendingFillsTheRing
        <4>3. pending'[1] = pending[1]
          <5>1. 1 \in 1 .. N
            BY ONLY <1>5, <3>3
          <5> HIDE DEF N, new, S
          <5> QED BY ONLY <1>6, <5>1
        <4> QED BY ONLY <4>2, <4>3
      <3> HIDE DEF N, S, new
      <3> QED BY ONLY <1>5, <3>1, <3>2, <3>3
    <2>2. pending'[Len(pending')].off + LengthOf[pending'[Len(pending')].msg] = NumReady'
      BY <1>4, <1>6
    <2>3. ASSUME NEW k \in 1 .. N + 1
          PROVE  /\ InRange(HeaderSize, SizeOf[pending'[k].msg])
                 /\ pending'[k].off + LengthOf[pending'[k].msg] <= NumReady'
                 /\ k > 1 => pending'[k].off
                                = pending'[k - 1].off + LengthOf[pending'[k - 1].msg]
      <3>1. CASE k \in 1 .. N
        <4>1. /\ InRange(HeaderSize, SizeOf[pending[k].msg])
              /\ pending[k].off + LengthOf[pending[k].msg] <= NumReady
              /\ k > 1 => pending[k].off = pending[k - 1].off + LengthOf[pending[k - 1].msg]
          BY <1>6, <3>1 DEF PendingFillsTheRing
        <4>2. NumReady <= NumReady' /\ (k > 1 => k - 1 \in 1 .. N)
          BY <1>2, <1>3, <1>4, <1>5, <3>1
        <4>3. pending'[k] = pending[k] /\ (k > 1 => pending'[k - 1] = pending[k - 1])
          BY <1>6, <3>1, <4>2
        <4>4. pending[k].off + LengthOf[pending[k].msg] <= NumReady'
          <5>1. pending[k].off \in Nat /\ LengthOf[pending[k].msg] \in Nat
            BY ONLY <1>7, <3>1
          <5>2. NumReady \in Int /\ NumReady' \in Int
            BY ONLY <1>2, <1>3, <1>4
          <5> QED BY ONLY <4>1, <4>2, <5>1, <5>2
        <4> QED BY ONLY <4>1, <4>3, <4>4
      <3>2. CASE k = N + 1
        <4>1. k > 1 => pending[N].off + LengthOf[pending[N].msg] = NumReady
          BY <1>5, <1>6, <3>2 DEF PendingFillsTheRing
        <4>2. k > 1 => k - 1 = N /\ N \in 1 .. N
          BY <1>5, <3>2
        <4>3. pending'[k].off = NumReady /\ pending'[k].msg = wmsg
          BY <1>6, <3>2
        <4>4. pending'[k].off + LengthOf[pending'[k].msg] <= NumReady'
          BY <1>2, <1>3, <1>4, <4>3
        <4>5. k > 1 => pending'[k - 1] = pending[N]
          BY <1>6, <4>2
        <4> QED BY <1>1, <4>1, <4>2, <4>3, <4>4, <4>5
      <3> QED BY <1>5, <3>1, <3>2
    <2>4. ASSUME NEW j \in 1 .. N + 1, NEW k \in 1 .. N + 1, j < k
          PROVE  pending'[j].off + LengthOf[pending'[j].msg] <= pending'[k].off
      <3>1. j \in 1 .. N
        BY <1>5, <2>4
      <3>2. CASE k \in 1 .. N
        BY <1>6, <2>4, <3>1, <3>2 DEF PendingFillsTheRing
      <3>3. CASE k = N + 1
        <4>1. pending[j].off + LengthOf[pending[j].msg] <= NumReady
          BY <3>1 DEF PendingFillsTheRing
        <4>2. pending'[j] = pending[j] /\ pending'[k].off = NumReady
          BY <1>6, <3>1, <3>3
        <4> QED BY ONLY <4>1, <4>2
      <3> QED BY <1>5, <3>2, <3>3
    <2> QED BY ONLY <1>6, <1>7, <2>1, <2>2, <2>3, <2>4 DEF PendingFillsTheRing
  <1>10. BothHalvesHold'
    <2>1. ASSUME NEW k \in 1 .. N + 1, NEW i \in Positions,
                 0 <= Behind(i, validStart) - pending'[k].off,
                 Behind(i, validStart) - pending'[k].off < LengthOf[pending'[k].msg]
          PROVE  buffer[i] = <<pending'[k].msg, Behind(i, validStart) - pending'[k].off>>
      <3>1. CASE k \in 1 .. N
        BY <1>6, <2>1, <3>1 DEF BothHalvesHold
      <3>2. CASE k = N + 1
        <4>1. Behind(i, validStart) \in Int
          BY <1>2, BehindIs
        <4>2. pending'[k].off = NumReady /\ pending'[k].msg = wmsg
          BY ONLY <1>6, <3>2
        <4>3. NumReady <= Behind(i, validStart) /\ Behind(i, validStart) < NumReady + L
          <5>1. /\ 0 <= Behind(i, validStart) - NumReady
                /\ Behind(i, validStart) - NumReady < L
            BY ONLY <2>1, <4>2
          <5>2. L \in Nat
            BY <1>2
          <5> HIDE DEF L
          <5> QED BY ONLY <1>3, <4>1, <5>1, <5>2
        <4>4. Behind(i, validEnd) = Behind(i, validStart) - NumReady
          BY ONLY <1>4, <4>3
        <4>5. Behind(i, validEnd) < L
          <5>1. L \in Nat
            BY <1>2
          <5> HIDE DEF L
          <5> QED BY ONLY <1>3, <4>1, <4>3, <4>4, <5>1
        <4> QED BY ONLY <1>1, <4>2, <4>4, <4>5
      <3> QED BY <1>5, <3>1, <3>2
    <2> QED BY ONLY <1>1, <1>6, <1>7, <2>1 DEF BothHalvesHold, Behind
  <1>11. ReaderIsAtTheHead' /\ WriterIsOnItsWay'
    <2>1. rpc' # "idle" => pending' # <<>> /\ rmsg' = pending'[1].msg
      BY <1>1, <1>5, <1>6 DEF ReaderIsAtTheHead
    <2> QED BY <1>1, <2>1 DEF ReaderIsAtTheHead, WriterIsOnItsWay
  <1> QED BY <1>8, <1>9, <1>10, <1>11

\* What is known of the oldest message.
LEMMA HeadFacts ==
    ASSUME FifoIInv, pending # <<>>
    PROVE  /\ Len(pending) \in Nat \ {0} /\ DOMAIN pending = 1 .. Len(pending)
           /\ pending[1].msg \in Messages /\ pending[1].off = 0
           /\ LengthOf[pending[1].msg] \in Nat \ {0}
           /\ LengthOf[pending[1].msg] <= NumReady /\ NumReady < Capacity
           /\ Capacity \in Nat /\ NumReady \in Nat
           /\ validStart \in Half /\ validEnd \in Half
           /\ \A d \in 0 .. LengthOf[pending[1].msg] - 1 :
                 buffer[validStart + d] = <<pending[1].msg, d>>
  <1> USE DEF FifoIInv
  <1> DEFINE S == [msg : Messages, off : 0 .. Capacity]
             m == pending[1].msg
  <1>1. pending \in Seq(S) /\ validStart \in Half /\ validEnd \in Half
    BY DEF FifoTypeOK
  <1>2. Len(pending) \in Nat \ {0} /\ DOMAIN pending = 1 .. Len(pending)
    <2> HIDE DEF S
    <2> QED BY <1>1, EmptySeq, LenProperties
  <1>3. pending[1] \in S
    <2> HIDE DEF S
    <2> QED BY ONLY <1>1, <1>2, ElementOfSeq
  <1>4. /\ m \in Messages /\ pending[1].off = 0 /\ InRange(HeaderSize, SizeOf[m])
        /\ pending[1].off + LengthOf[m] <= NumReady
    BY <1>2, <1>3 DEF PendingFillsTheRing
  <1>5. LengthOf[m] \in Nat \ {0}
    BY ONLY <1>4, LengthIs, FifoAssumption
  <1>6. Capacity \in Nat /\ NumReady \in Nat /\ NumReady < Capacity
    BY ONLY <1>1, ReadyIs
  <1>7. LengthOf[m] <= NumReady
    BY ONLY <1>4, <1>5, <1>6
  <1>8. ASSUME NEW d \in 0 .. LengthOf[m] - 1
        PROVE  buffer[validStart + d] = <<m, d>>
    <2> DEFINE i == validStart + d
    <2>1. i \in Positions /\ Behind(i, validStart) = d /\ d \in Int /\ 0 <= d /\ d < LengthOf[m]
      <3> HIDE DEF m
      <3> QED BY ONLY <1>1, <1>5, <1>6, <1>7, <1>8 DEF Positions, Half, Behind
    <2>2. 1 \in DOMAIN pending
      BY <1>2
    <2> HIDE DEF i
    <2>3. Behind(i, validStart) - pending[1].off = d
      BY <1>4, <2>1
    <2> QED BY <2>1, <2>2, <2>3 DEF BothHalvesHold, i
  <1> QED BY <1>1, <1>2, <1>4, <1>5, <1>6, <1>7, <1>8

\* The writer is where it was while the other thread reads.
LEMMA WriterStays ==
    ASSUME WriterIsOnItsWay,
           UNCHANGED <<buffer, validStart, validEnd, wstep, wmsg>>
    PROVE  WriterIsOnItsWay'
  <1>1. /\ buffer' = buffer /\ validEnd' = validEnd /\ wstep' = wstep /\ wmsg' = wmsg
        /\ NumReady' = NumReady
    BY DEF NumReady
  <1>2. LengthOf' = LengthOf /\ FreeSpace' = FreeSpace /\ InFirstHalf' = InFirstHalf
    BY <1>1 DEF LengthOf, FreeSpace, InFirstHalf
  <1> QED BY ONLY <1>1, <1>2, WriterIsOnItsWay
            DEF WriterIsOnItsWay, CanWrite, Written, WrittenUp, Behind

\* The header the reader finds is that of the oldest message.
LEMMA ReadHeaderInv == ASSUME FifoIInv, ReadHeader PROVE FifoIInv'
  <1> USE DEF FifoIInv
  <1>1. PendingFillsTheRing' /\ BothHalvesHold' /\ WriterIsOnItsWay'
    BY RingStays, WriterStays DEF ReadHeader
  <1>2. pending # <<>>
    <2>1. Sum(0, HeaderSize) = HeaderSize /\ HeaderSize \in Nat \ {0}
      <3>1. HeaderSize % Word = HeaderSize
        BY SumIs, FifoAssumption
      <3> QED BY <3>1, FifoAssumption DEF Sum
    <2>2. NumReady >= HeaderSize /\ NumReady \in Nat
      BY <2>1, ReadyIs DEF ReadHeader, Ready, CanRead, FifoTypeOK
    <2> QED BY <2>1, <2>2 DEF PendingFillsTheRing
  <1>3. buffer[validStart] = <<pending[1].msg, 0>> /\ pending[1].msg \in Messages
    <2>1. 0 \in 0 .. LengthOf[pending[1].msg] - 1 /\ validStart + 0 = validStart
      BY ONLY <1>2, FifoIInv, HeadFacts DEF Half
    <2> QED BY ONLY <1>2, <2>1, FifoIInv, HeadFacts
  <1>4. rmsg' = pending[1].msg /\ rpc' = "header" /\ pending' = pending
    BY <1>3 DEF ReadHeader
  <1>5. FifoTypeOK'
    BY <1>3, <1>4 DEF ReadHeader, FifoTypeOK, ReaderStates, Half, Positions
  <1> QED BY <1>1, <1>2, <1>4, <1>5 DEF ReaderIsAtTheHead

\* Looking for the body disturbs nothing.
LEMMA ReadBodyInv == ASSUME FifoIInv, ReadBody PROVE FifoIInv'
  <1> USE DEF FifoIInv
  <1>1. PendingFillsTheRing' /\ BothHalvesHold' /\ WriterIsOnItsWay'
    BY RingStays, WriterStays DEF ReadBody
  <1>2. FifoTypeOK' /\ ReaderIsAtTheHead'
    BY DEF ReadBody, FifoTypeOK, ReaderStates, Half, Positions, ReaderIsAtTheHead
  <1> QED BY <1>1, <1>2

\* Leaving a message where it is disturbs nothing.
LEMMA LeaveInv == ASSUME FifoIInv, Leave PROVE FifoIInv'
  <1> USE DEF FifoIInv
  <1>1. PendingFillsTheRing' /\ BothHalvesHold' /\ WriterIsOnItsWay'
    BY RingStays, WriterStays DEF Leave
  <1>2. FifoTypeOK' /\ ReaderIsAtTheHead'
    BY DEF Leave, FifoTypeOK, ReaderStates, Half, Positions, ReaderIsAtTheHead
  <1> QED BY <1>1, <1>2

\* What is finished leaves the ring, and all behind it comes nearer the start.
LEMMA FinishReadInv == ASSUME FifoIInv, FinishRead PROVE FifoIInv'
  <1> USE DEF FifoIInv
  <1> DEFINE L == LengthOf[rmsg]
             N == Len(pending)
             S == [msg : Messages, off : 0 .. Capacity]
  <1>1. /\ pending # <<>> /\ rmsg = pending[1].msg /\ rpc' = "idle"
        /\ validStart' = Moved(validStart, L) /\ validEnd' = validEnd
        /\ pending' = [k \in 1 .. N - 1 |-> [pending[k + 1] EXCEPT !.off = @ - L]]
        /\ UNCHANGED <<buffer, wstep, wmsg, rmsg>>
    BY DEF FinishRead, ReaderIsAtTheHead
  <1>2. /\ N \in Nat \ {0} /\ DOMAIN pending = 1 .. N
        /\ pending[1].off = 0 /\ L \in Nat \ {0} /\ L <= NumReady /\ NumReady < Capacity
        /\ Capacity \in Nat /\ NumReady \in Nat
        /\ validStart \in Half /\ validEnd \in Half
    BY <1>1, HeadFacts
  <1>3. /\ validStart' \in Half /\ NumReady' = NumReady - L
        /\ \A i \in Positions :
              Behind(i, validStart') = IF Behind(i, validStart) >= L
                                       THEN Behind(i, validStart) - L
                                       ELSE Behind(i, validStart) - L + Capacity
    <2> HIDE DEF L
    <2>1. L \in Nat /\ L <= NumReady
      BY ONLY <1>2
    <2> QED BY ONLY <1>1, <1>2, <2>1, MovedStart
  <1>4. LengthOf' = LengthOf
    BY DEF LengthOf
  <1>5. \A k \in 1 .. N :
           /\ pending[k] \in S
           /\ pending[k].off \in Nat /\ pending[k].off <= Capacity
           /\ LengthOf[pending[k].msg] \in Nat
           /\ InRange(HeaderSize, SizeOf[pending[k].msg])
           /\ pending[k].off + LengthOf[pending[k].msg] <= NumReady
    <2>1. ASSUME NEW k \in 1 .. N
          PROVE  /\ pending[k] \in S
                 /\ InRange(HeaderSize, SizeOf[pending[k].msg])
                 /\ pending[k].off + LengthOf[pending[k].msg] <= NumReady
      <3>1. pending[k] \in S
        <4>1. pending \in Seq(S)
          BY DEF FifoTypeOK
        <4> HIDE DEF S
        <4> QED BY ONLY <4>1, <2>1, ElementOfSeq
      <3> QED BY <1>2, <2>1, <3>1 DEF PendingFillsTheRing
    <2>2. ASSUME NEW k \in 1 .. N PROVE LengthOf[pending[k].msg] \in Nat
      <3>1. pending[k].msg \in Messages /\ InRange(HeaderSize, SizeOf[pending[k].msg])
        BY <2>1
      <3> QED BY ONLY <3>1, LengthIs
    <2> QED BY <1>2, <2>1, <2>2
  <1>6. \A k \in 1 .. N : k > 1 => pending[k].off >= L
    <2>1. ASSUME NEW k \in 1 .. N, k > 1 PROVE pending[k].off >= L
      <3>1. 1 \in 1 .. N /\ 1 < k
        BY ONLY <1>2, <2>1
      <3>2. pending[1].off + LengthOf[pending[1].msg] <= pending[k].off
        BY <1>2, <3>1 DEF PendingFillsTheRing
      <3>3. pending[k].off \in Nat
        BY <1>5
      <3>4. LengthOf[pending[1].msg] = L
        BY <1>1
      <3> HIDE DEF L
      <3> QED BY ONLY <1>2, <3>2, <3>3, <3>4
    <2> QED BY <2>1
  <1>7. \A k \in 1 .. N - 1 :
           /\ k + 1 \in 1 .. N /\ k + 1 > 1
           /\ pending'[k].msg = pending[k + 1].msg
           /\ pending'[k].off = pending[k + 1].off - L
           /\ pending'[k] \in S
    <2>1. ASSUME NEW k \in 1 .. N - 1
          PROVE  /\ k + 1 \in 1 .. N /\ k + 1 > 1
                 /\ pending'[k].msg = pending[k + 1].msg
                 /\ pending'[k].off = pending[k + 1].off - L
                 /\ pending'[k] \in S
      <3>1. k + 1 \in 1 .. N /\ k + 1 > 1
        BY ONLY <1>2, <2>1
      <3>2. pending[k + 1] \in S
        BY <1>5, <3>1
      <3>3. pending'[k] = [pending[k + 1] EXCEPT !.off = @ - L]
        BY <1>1, <2>1
      <3>4. pending[k + 1].off - L \in 0 .. Capacity
        <4>1. pending[k + 1].off \in Nat /\ pending[k + 1].off <= Capacity
              /\ pending[k + 1].off >= L
          BY <1>5, <1>6, <3>1
        <4> HIDE DEF L
        <4> QED BY ONLY <1>2, <4>1
      <3> HIDE DEF L
      <3> QED BY ONLY <3>1, <3>2, <3>3, <3>4
    <2> QED BY <2>1
  <1>8. /\ pending' \in Seq(S) /\ DOMAIN pending' = 1 .. N - 1 /\ Len(pending') = N - 1
    <2>1. N - 1 \in Nat
      BY <1>2
    <2>2. pending' \in [1 .. N - 1 -> S]
      <3> HIDE DEF S, L
      <3> QED BY <1>1, <1>7
    <2> HIDE DEF S
    <2>3. pending' \in Seq(S)
      BY ONLY <2>1, <2>2, SeqDef
    <2> QED BY ONLY <2>1, <2>2, <2>3, LenProperties
  <1>9. FifoTypeOK'
    BY <1>1, <1>3, <1>8 DEF FifoTypeOK, ReaderStates, Positions, S
  <1>10. PendingFillsTheRing'
    <2>1. pending' = <<>> => NumReady' = 0
      <3>1. ASSUME pending' = <<>> PROVE NumReady' = 0
        <4>1. N = 1
          <5>1. Len(<<>>) = 0
            BY EmptySeq
          <5>2. Len(pending') = N - 1 /\ N \in Nat
            BY <1>2, <1>8
          <5> HIDE DEF N
          <5> QED BY ONLY <3>1, <5>1, <5>2
        <4>2. pending[N].off + LengthOf[pending[N].msg] = NumReady
          BY <1>1 DEF PendingFillsTheRing
        <4>3. NumReady = L
          BY <1>1, <1>2, <4>1, <4>2
        <4> QED BY <1>2, <1>3, <4>3
      <3> QED BY <3>1
    <2>2. ASSUME pending' # <<>>
          PROVE  /\ pending'[1].off = 0
                 /\ pending'[N - 1].off + LengthOf[pending'[N - 1].msg] = NumReady'
      <3>1. N - 1 # 0
        <4>1. ASSUME N - 1 = 0 PROVE FALSE
          <5> HIDE DEF S
          <5> QED BY ONLY <1>8, <2>2, <4>1, EmptySeq
        <4> QED BY <4>1
      <3>2. 1 \in 1 .. N - 1 /\ N - 1 \in 1 .. N - 1 /\ 2 \in DOMAIN pending /\ 2 > 1
            /\ 1 + 1 = 2 /\ 2 - 1 = 1 /\ N - 1 + 1 = N
        BY <1>2, <3>1
      <3>3. pending[2].off = pending[1].off + LengthOf[pending[1].msg]
        BY ONLY <3>2, PendingFillsTheRing DEF PendingFillsTheRing
      <3>4. pending[2].off = L /\ pending'[1].off = pending[2].off - L
        <4>1. LengthOf[pending[1].msg] = L
          BY ONLY <1>1
        <4>2. pending'[1].off = pending[2].off - L
          <5>1. pending'[1].off = pending[1 + 1].off - L
            <6> HIDE DEF L, N, S
            <6> QED BY ONLY <1>7, <3>2
          <5> HIDE DEF L, N
          <5> QED BY ONLY <3>2, <5>1
        <4>3. pending[2].off = L
          <5> HIDE DEF L
          <5> QED BY ONLY <1>2, <3>3, <4>1
        <4> HIDE DEF L
        <4> QED BY ONLY <4>2, <4>3
      <3>5. pending[N].off + LengthOf[pending[N].msg] = NumReady
        BY <1>1 DEF PendingFillsTheRing
      <3>6. /\ pending'[N - 1].off = pending[N].off - L
            /\ pending'[N - 1].msg = pending[N].msg
        BY <1>7, <3>2
      <3>7. pending[N].off \in Nat /\ LengthOf[pending[N].msg] \in Nat
        BY <1>2, <1>5
      <3> HIDE DEF L
      <3> QED BY ONLY <1>2, <1>3, <3>4, <3>5, <3>6, <3>7
    <2>3. ASSUME NEW k \in 1 .. N - 1
          PROVE  /\ InRange(HeaderSize, SizeOf[pending'[k].msg])
                 /\ pending'[k].off + LengthOf[pending'[k].msg] <= NumReady'
                 /\ k > 1 => pending'[k].off
                                = pending'[k - 1].off + LengthOf[pending'[k - 1].msg]
      <3>1. /\ k + 1 \in 1 .. N /\ k + 1 > 1 /\ pending'[k].msg = pending[k + 1].msg
            /\ pending'[k].off = pending[k + 1].off - L
        BY <1>7
      <3>2. /\ InRange(HeaderSize, SizeOf[pending[k + 1].msg])
            /\ pending[k + 1].off + LengthOf[pending[k + 1].msg] <= NumReady
            /\ pending[k + 1].off \in Nat /\ LengthOf[pending[k + 1].msg] \in Nat
        BY <1>5, <3>1
      <3>3. pending'[k].off + LengthOf[pending'[k].msg] <= NumReady'
        <4> HIDE DEF L
        <4> QED BY ONLY <1>2, <1>3, <3>1, <3>2
      <3>4. ASSUME k > 1
            PROVE  pending'[k].off = pending'[k - 1].off + LengthOf[pending'[k - 1].msg]
        <4>1. k - 1 \in 1 .. N - 1 /\ k - 1 + 1 = k /\ k + 1 - 1 = k /\ k \in 1 .. N
          BY ONLY <1>2, <3>4
        <4>2. /\ pending'[k - 1].msg = pending[k].msg
              /\ pending'[k - 1].off = pending[k].off - L
          BY <1>7, <4>1
        <4>3. pending[k + 1].off = pending[k].off + LengthOf[pending[k].msg]
          <5>1. pending[k + 1].off
                  = pending[k + 1 - 1].off + LengthOf[pending[k + 1 - 1].msg]
            BY <1>2, <3>1 DEF PendingFillsTheRing
          <5> QED BY ONLY <4>1, <5>1
        <4>4. pending[k].off \in Nat /\ LengthOf[pending[k].msg] \in Nat
          BY <1>5, <4>1
        <4> HIDE DEF L
        <4> QED BY ONLY <1>2, <3>1, <4>2, <4>3, <4>4
      <3> QED BY <3>1, <3>2, <3>3, <3>4
    <2>4. ASSUME NEW j \in 1 .. N - 1, NEW k \in 1 .. N - 1, j < k
          PROVE  pending'[j].off + LengthOf[pending'[j].msg] <= pending'[k].off
      <3>1. j + 1 \in 1 .. N /\ k + 1 \in 1 .. N /\ j + 1 < k + 1
        BY ONLY <1>2, <2>4
      <3>2. /\ pending'[j].msg = pending[j + 1].msg /\ pending'[j].off = pending[j + 1].off - L
            /\ pending'[k].off = pending[k + 1].off - L
        BY <1>7
      <3>3. pending[j + 1].off + LengthOf[pending[j + 1].msg] <= pending[k + 1].off
        BY <1>2, <3>1 DEF PendingFillsTheRing
      <3>4. /\ pending[j + 1].off \in Nat /\ LengthOf[pending[j + 1].msg] \in Nat
            /\ pending[k + 1].off \in Nat
        BY <1>5, <3>1
      <3>5. L \in Nat
        BY ONLY <1>2
      <3> HIDE DEF L
      <3>6. pending'[j].off + LengthOf[pending'[j].msg]
              = (pending[j + 1].off - L) + LengthOf[pending[j + 1].msg]
        BY ONLY <3>2
      <3>7. (pending[j + 1].off - L) + LengthOf[pending[j + 1].msg] <= pending[k + 1].off - L
        <4>1. PICK a \in Nat : a = pending[j + 1].off
          BY ONLY <3>4
        <4>2. PICK l \in Nat : l = LengthOf[pending[j + 1].msg]
          BY ONLY <3>4
        <4>3. PICK c \in Nat : c = pending[k + 1].off
          BY ONLY <3>4
        <4>4. a + l <= c
          BY ONLY <3>3, <4>1, <4>2, <4>3
        <4>5. (a - L) + l <= c - L
          BY ONLY <3>5, <4>4
        <4> QED BY ONLY <4>1, <4>2, <4>3, <4>5
      <3> QED BY ONLY <3>2, <3>6, <3>7
    <2> HIDE DEF L
    <2> QED BY ONLY <1>4, <1>8, <2>1, <2>2, <2>3, <2>4 DEF PendingFillsTheRing
  <1>11. BothHalvesHold'
    <2>1. ASSUME NEW k \in 1 .. N - 1, NEW i \in Positions,
                 0 <= Behind(i, validStart') - pending'[k].off,
                 Behind(i, validStart') - pending'[k].off < LengthOf[pending'[k].msg]
          PROVE  buffer[i] = <<pending'[k].msg, Behind(i, validStart') - pending'[k].off>>
      <3>1. /\ k + 1 \in 1 .. N /\ pending'[k].msg = pending[k + 1].msg
            /\ pending'[k].off = pending[k + 1].off - L
        BY <1>7
      <3>2. /\ pending[k + 1].off \in Nat /\ LengthOf[pending[k + 1].msg] \in Nat
            /\ pending[k + 1].off + LengthOf[pending[k + 1].msg] <= NumReady
        BY <1>5, <3>1
      <3>3. Behind(i, validStart) \in Int /\ Behind(i, validStart) >= 0
        BY <1>2, BehindIs
      <3>4. Behind(i, validStart') - pending'[k].off = Behind(i, validStart) - pending[k + 1].off
        <4> HIDE DEF L
        <4>1. Behind(i, validStart) >= L
          <5>1. ASSUME Behind(i, validStart) < L PROVE FALSE
            <6>1. Behind(i, validStart') = Behind(i, validStart) - L + Capacity
              BY ONLY <1>2, <1>3, <3>3, <5>1
            <6>2. Behind(i, validStart') - pending'[k].off
                    = Behind(i, validStart) + Capacity - pending[k + 1].off
              BY ONLY <1>2, <3>1, <3>2, <3>3, <6>1
            <6>3. Behind(i, validStart) + Capacity - pending[k + 1].off
                    < LengthOf[pending[k + 1].msg]
              BY ONLY <2>1, <3>1, <6>2
            <6>4. pending[k + 1].off + LengthOf[pending[k + 1].msg] < Capacity
              BY ONLY <1>2, <3>2
            <6> QED BY ONLY <1>2, <3>2, <3>3, <6>3, <6>4
          <5> QED BY ONLY <1>2, <3>3, <5>1
        <4> QED BY ONLY <1>2, <1>3, <3>1, <3>2, <3>3, <4>1
      <3> QED BY <1>2, <2>1, <3>1, <3>4 DEF BothHalvesHold
    <2> HIDE DEF L
    <2> QED BY ONLY <1>1, <1>4, <1>8, <2>1 DEF BothHalvesHold, Behind
  <1>12. ReaderIsAtTheHead' /\ WriterIsOnItsWay'
    <2>1. ReaderIsAtTheHead'
      BY <1>1 DEF ReaderIsAtTheHead
    <2>2. FreeSpace' = FreeSpace + L /\ InFirstHalf' = InFirstHalf
      <3>1. InFirstHalf' = InFirstHalf
        BY <1>1, <1>4 DEF InFirstHalf
      <3>2. FreeSpace' = FreeSpace + L
        <4> HIDE DEF L
        <4> QED BY <1>2, <1>3 DEF FreeSpace
      <3> QED BY <3>1, <3>2
    <2>3. \A n : n \in Int /\ CanWrite(n) => CanWrite(n)'
      <3> HIDE DEF L
      <3> QED BY <1>2, <2>2 DEF CanWrite, FreeSpace
    <2>4. /\ HeaderSize \in Int
          /\ wstep \notin {"idle", "header"} => LengthOf[wmsg] \in Int
      <3>1. wstep \notin {"idle", "header"} =>
               wmsg \in Messages /\ InRange(HeaderSize, SizeOf[wmsg])
        BY DEF FifoTypeOK, WriterIsOnItsWay
      <3> QED BY <3>1, LengthIs, FifoAssumption
    <2>5. /\ wstep # "idle" => CanWrite(HeaderSize)'
          /\ wstep \notin {"idle", "header"} =>
                InRange(HeaderSize, SizeOf[wmsg]) /\ CanWrite(LengthOf[wmsg])'
      BY <1>1, <1>4, <2>3, <2>4 DEF WriterIsOnItsWay
    <2>6. WriterIsOnItsWay'
      <3> HIDE DEF L
      <3> QED BY <1>1, <1>4, <2>2, <2>5 DEF WriterIsOnItsWay, Written, WrittenUp, Behind, InRange
    <2> QED BY <2>1, <2>6
  <1> QED BY <1>9, <1>10, <1>11, <1>12

\* Every step of either thread keeps the invariant.
LEMMA StepInv == ASSUME FifoIInv, [FifoNext]_fifo_vars PROVE FifoIInv'
  <1>1. CASE UNCHANGED fifo_vars
    <2>1. FifoTypeOK' /\ ReaderIsAtTheHead'
      BY <1>1 DEF FifoIInv, fifo_vars, FifoTypeOK, Half, Positions, ReaderIsAtTheHead
    <2>2. PendingFillsTheRing' /\ BothHalvesHold' /\ WriterIsOnItsWay'
      BY <1>1, RingStays, WriterStays DEF FifoIInv, fifo_vars
    <2> QED BY <2>1, <2>2 DEF FifoIInv
  <1>2. CASE Write
    BY <1>2, WriteHeaderInv, ReserveBodyInv, SetBodyInv, GiveUpInv, MirrorUpInv,
       MirrorDownInv, PublishInv DEF Write
  <1>3. CASE Read
    BY <1>3, ReadHeaderInv, ReadBodyInv, LeaveInv, FinishReadInv DEF Read
  <1> QED BY <1>1, <1>2, <1>3 DEF FifoNext

\* The ring always holds what is pending, end to end and in both halves, and the
\* two threads are where their steps say.
THEOREM FifoInvariance == FifoSpec => []FifoIInv
  <1>1. FifoInit => FifoIInv
    BY InitInv
  <1>2. FifoIInv /\ [FifoNext]_fifo_vars => FifoIInv'
    BY StepInv
  <1> QED BY <1>1, <1>2, PTL DEF FifoSpec

\* The state is always of its type.
THEOREM FifoTypeCorrect == FifoSpec => []FifoTypeOK
  <1>1. FifoIInv => FifoTypeOK
    BY DEF FifoIInv
  <1> QED BY <1>1, FifoInvariance, PTL

\* Whoever reads finds the oldest message, whole and in one piece: for every
\* capacity and all sizes of header and bodies.
THEOREM PieceCorrect == FifoSpec => []MessageInOnePiece
  <1>1. ASSUME FifoIInv PROVE MessageInOnePiece
    <2>1. ASSUME rpc # "idle" PROVE pending # <<>> /\ rmsg = pending[1].msg
      BY <1>1, <2>1 DEF FifoIInv, ReaderIsAtTheHead
    <2> QED BY <1>1, <2>1, HeadFacts DEF MessageInOnePiece
  <1> QED BY <1>1, FifoInvariance, PTL

\* What was reserved is free until it is published.
THEOREM ReservedCorrect == FifoSpec => []ReservedIsFree
  <1>1. FifoIInv => ReservedIsFree
    BY DEF FifoIInv, WriterIsOnItsWay, ReservedIsFree
  <1> QED BY <1>1, FifoInvariance, PTL

-----------------------------------------------------------------------------
(* The bytes make a queue.                                                 *)

\* The messages that are pending, as a sequence.
LEMMA ContentsAre ==
    ASSUME FifoIInv
    PROVE  /\ Len(pending) \in Nat /\ DOMAIN pending = 1 .. Len(pending)
           /\ Contents \in Seq(Messages) /\ Len(Contents) = Len(pending)
           /\ \A k \in 1 .. Len(pending) : Contents[k] = pending[k].msg
           /\ pending = <<>> <=> Contents = <<>>
  <1> DEFINE S == [msg : Messages, off : 0 .. Capacity]
  <1>1. pending \in Seq(S)
    BY DEF FifoIInv, FifoTypeOK
  <1>2. Len(pending) \in Nat /\ DOMAIN pending = 1 .. Len(pending)
    <2> HIDE DEF S
    <2> QED BY ONLY <1>1, LenProperties
  <1>3. \A k \in 1 .. Len(pending) : pending[k].msg \in Messages
    <2>1. ASSUME NEW k \in 1 .. Len(pending) PROVE pending[k] \in S
      <3> HIDE DEF S
      <3> QED BY ONLY <1>1, <2>1, ElementOfSeq
    <2> QED BY <2>1
  <1>4. Contents \in [1 .. Len(pending) -> Messages]
    BY <1>2, <1>3 DEF Contents
  <1>5. Contents \in Seq(Messages)
    BY ONLY <1>2, <1>4, SeqDef
  <1>6. Len(Contents) = Len(pending)
    BY ONLY <1>2, <1>4, <1>5, LenProperties
  <1>7. \A k \in 1 .. Len(pending) : Contents[k] = pending[k].msg
    BY <1>2 DEF Contents
  <1>8. pending = <<>> <=> Contents = <<>>
    <2>1. pending = <<>> <=> Len(pending) = 0
      <3> HIDE DEF S
      <3> QED BY ONLY <1>1, EmptySeq
    <2>2. Contents = <<>> <=> Len(Contents) = 0
      BY ONLY <1>5, EmptySeq
    <2> QED BY <1>6, <2>1, <2>2
  <1> QED BY <1>2, <1>5, <1>6, <1>7, <1>8

\* Publishing is sending.
LEMMA PublishRefines ==
    ASSUME FifoIInv, FifoIInv', Publish
    PROVE  wmsg \in Messages /\ Queue!Send(wmsg)
  <1> DEFINE L == LengthOf[wmsg]
             N == Len(pending)
  <1>1. /\ wmsg \in Messages /\ validStart \in Half /\ validEnd \in Half
        /\ L \in Nat /\ L <= FreeSpace - 1
    BY MirrorFacts DEF Publish
  <1>2. /\ NumReady \in Nat /\ FreeSpace = Capacity - NumReady /\ Capacity \in Nat
    BY ONLY <1>1, ReadyIs
  <1>3. NumReady' = NumReady + L
    <2>1. validEnd' = Moved(validEnd, L) /\ validStart' = validStart
      BY DEF Publish
    <2> HIDE DEF L
    <2> QED BY ONLY <1>1, <2>1, MovedEnd
  <1>4. NumReady + L < Capacity
    <2> HIDE DEF L
    <2> QED BY ONLY <1>1, <1>2
  <1>5. Contents' = Append(Contents, wmsg)
    <2> DEFINE S == [msg : Messages, off : 0 .. Capacity]
               new == [msg |-> wmsg, off |-> NumReady]
    <2>1. pending' = Append(pending, new) /\ pending \in Seq(S) /\ new \in S
      BY <1>1, <1>2, <1>4 DEF Publish, FifoIInv, FifoTypeOK
    <2>2. /\ Len(pending') = N + 1 /\ N \in Nat
          /\ \A k \in 1 .. N : pending'[k] = pending[k]
          /\ pending'[N + 1] = new
      <3> HIDE DEF S, new
      <3> QED BY ONLY <2>1, AppendProperties, LenProperties
    <2>3. /\ Contents \in Seq(Messages) /\ Len(Contents) = N
          /\ \A k \in 1 .. N : Contents[k] = pending[k].msg
      BY ContentsAre
    <2>4. /\ Contents' \in Seq(Messages) /\ Len(Contents') = Len(pending')
          /\ \A k \in 1 .. Len(pending') : Contents'[k] = pending'[k].msg
      <3>1. /\ (Contents \in Seq(Messages))' /\ (Len(Contents) = Len(pending))'
            /\ (\A k \in 1 .. Len(pending) : Contents[k] = pending[k].msg)'
        BY ContentsAre, PTL
      <3> QED BY <3>1
    <2>5. /\ Append(Contents, wmsg) \in Seq(Messages) /\ Len(Append(Contents, wmsg)) = N + 1
          /\ \A k \in 1 .. N : Append(Contents, wmsg)[k] = Contents[k]
          /\ Append(Contents, wmsg)[N + 1] = wmsg
      BY ONLY <1>1, <2>3, AppendProperties
    <2>6. ASSUME NEW k \in 1 .. N + 1 PROVE Contents'[k] = Append(Contents, wmsg)[k]
      <3>1. Contents'[k] = pending'[k].msg
        BY <2>2, <2>4
      <3>2. CASE k \in 1 .. N
        BY ONLY <2>2, <2>3, <2>5, <3>1, <3>2
      <3>3. CASE k = N + 1
        <4>1. pending'[k] = new
          BY ONLY <2>2, <3>3
        <4>2. pending'[k].msg = wmsg
          BY ONLY <4>1
        <4>3. Append(Contents, wmsg)[k] = wmsg
          <5> HIDE DEF N
          <5> QED BY ONLY <2>5, <3>3
        <4> QED BY ONLY <3>1, <4>2, <4>3
      <3>4. k \in 1 .. N \/ k = N + 1
        <4>1. N \in Nat
          BY <2>2
        <4> HIDE DEF N
        <4> QED BY ONLY <4>1, <2>6
      <3> QED BY ONLY <3>2, <3>3, <3>4
    <2> QED BY ONLY <2>2, <2>4, <2>5, <2>6, SeqEqual
  <1>6. InHand' = InHand
    BY DEF Publish, InHand
  <1> QED BY <1>1, <1>3, <1>4, <1>5, <1>6 DEF Queue!Send

\* Finishing a message is the end of receiving it.
LEMMA FinishReadRefines ==
    ASSUME FifoIInv, FifoIInv', FinishRead
    PROVE  Queue!Finish
  <1> DEFINE L == LengthOf[rmsg]
             N == Len(pending)
  <1>1. pending # <<>> /\ rmsg = pending[1].msg
    BY DEF FifoIInv, ReaderIsAtTheHead, FinishRead
  <1>2. /\ N \in Nat \ {0} /\ L \in Nat \ {0} /\ L <= NumReady /\ NumReady \in Nat
        /\ validStart \in Half /\ validEnd \in Half /\ rmsg \in Messages
    BY <1>1, HeadFacts
  <1>3. NumReady' = NumReady - L
    <2>1. validStart' = Moved(validStart, L) /\ validEnd' = validEnd /\ L \in Nat
      BY <1>2 DEF FinishRead
    <2> HIDE DEF L
    <2> QED BY ONLY <1>2, <2>1, MovedStart
  <1>4. Contents' = Tail(Contents)
    <2>1. pending' = [k \in 1 .. N - 1 |-> [pending[k + 1] EXCEPT !.off = @ - L]]
      BY DEF FinishRead
    <2>2. /\ Contents \in Seq(Messages) /\ Len(Contents) = N /\ Contents # <<>>
          /\ \A k \in 1 .. N : Contents[k] = pending[k].msg
      BY <1>1, ContentsAre
    <2>3. /\ Contents' \in Seq(Messages) /\ Len(Contents') = Len(pending')
          /\ DOMAIN pending' = 1 .. Len(pending') /\ Len(pending') \in Nat
          /\ \A k \in 1 .. Len(pending') : Contents'[k] = pending'[k].msg
      <3>1. /\ (Contents \in Seq(Messages))' /\ (Len(Contents) = Len(pending))'
            /\ (DOMAIN pending = 1 .. Len(pending))' /\ (Len(pending) \in Nat)'
            /\ (\A k \in 1 .. Len(pending) : Contents[k] = pending[k].msg)'
        BY ContentsAre, PTL
      <3> QED BY <3>1
    <2>4. Len(pending') = N - 1
      <3>1. 1 .. Len(pending') = 1 .. N - 1
        BY <2>1, <2>3
      <3> HIDE DEF N
      <3> QED BY ONLY <1>2, <2>3, <3>1
    <2>5. /\ Tail(Contents) \in Seq(Messages) /\ Len(Tail(Contents)) = N - 1
          /\ \A k \in 1 .. N - 1 : Tail(Contents)[k] = Contents[k + 1]
      BY ONLY <2>2, HeadTailProperties
    <2>6. ASSUME NEW k \in 1 .. N - 1 PROVE Contents'[k] = Tail(Contents)[k]
      <3>1. k + 1 \in 1 .. N
        BY ONLY <1>2, <2>6
      <3>2. pending[k + 1].msg = pending'[k].msg
        <4>1. pending'[k] = [pending[k + 1] EXCEPT !.off = @ - L]
          BY <2>1
        <4>2. pending[k + 1] \in [msg : Messages, off : 0 .. Capacity]
          <5>1. pending \in Seq([msg : Messages, off : 0 .. Capacity])
            BY DEF FifoIInv, FifoTypeOK
          <5> QED BY ONLY <3>1, <5>1, ElementOfSeq
        <4> QED BY ONLY <4>1, <4>2
      <3>3. Contents'[k] = pending'[k].msg
        BY <2>3, <2>4
      <3> QED BY <2>2, <2>5, <3>1, <3>2, <3>3
    <2> QED BY ONLY <2>3, <2>4, <2>5, <2>6, SeqEqual
  <1>5. InHand = rmsg /\ InHand' = NoMessage /\ rmsg # NoMessage
    BY <1>2, FifoAssumption DEF FinishRead, InHand
  <1> QED BY <1>2, <1>3, <1>4, <1>5 DEF Queue!Finish

\* Finding the body is taking the oldest message in hand.
LEMMA ReadBodyRefines ==
    ASSUME FifoIInv, ReadBody
    PROVE  [Queue!Next]_Queue!vars
  <1>1. pending # <<>> /\ rmsg = pending[1].msg
    BY DEF FifoIInv, ReaderIsAtTheHead, ReadBody
  <1>2. rmsg \in Messages /\ rmsg # NoMessage
    BY <1>1, HeadFacts, FifoAssumption
  <1>3. Contents # <<>> /\ Head(Contents) = rmsg
    <2>1. /\ Contents # <<>> /\ Contents \in Seq(Messages) /\ Len(Contents) = Len(pending)
          /\ Len(pending) \in Nat \ {0}
          /\ \A k \in 1 .. Len(pending) : Contents[k] = pending[k].msg
      BY <1>1, ContentsAre, HeadFacts
    <2>2. Contents[1] = rmsg
      BY <1>1, <2>1
    <2> QED BY <2>1, <2>2
  <1>4. Contents' = Contents /\ NumReady' = NumReady
    BY DEF ReadBody, Contents, NumReady
  <1>5. InHand = NoMessage /\ InHand' \in {rmsg, NoMessage}
    BY DEF ReadBody, InHand
  <1>6. CASE InHand' = rmsg
    BY <1>2, <1>3, <1>4, <1>5, <1>6 DEF Queue!Next, Queue!Look
  <1>7. CASE InHand' = NoMessage
    BY <1>4, <1>5, <1>7 DEF Queue!vars
  <1> QED BY <1>5, <1>6, <1>7

\* The bytes of the ring make a queue of messages: each is sent whole, received
\* once and in order, and no more is in it than fits.
THEOREM Refinement == FifoSpec => QueueSpec
  <1>1. FifoInit => Queue!Init
    <2>1. ASSUME FifoInit PROVE Queue!Init
      <3>1. FifoIInv /\ pending = <<>> /\ validStart = 0 /\ validEnd = 0 /\ rpc = "idle"
        BY <2>1, InitInv DEF FifoInit
      <3>2. Contents = <<>> /\ NumReady = 0 /\ InHand = NoMessage
        BY <3>1, ContentsAre DEF NumReady, InHand
      <3> QED BY <3>2 DEF Queue!Init
    <2> QED BY <2>1
  <1>2. FifoIInv /\ FifoIInv' /\ [FifoNext]_fifo_vars => [Queue!Next]_Queue!vars
    <2> SUFFICES ASSUME FifoIInv, FifoIInv', [FifoNext]_fifo_vars PROVE [Queue!Next]_Queue!vars
      OBVIOUS
    <2>1. ASSUME pending' = pending, validStart' = validStart, validEnd' = validEnd,
                 InHand' = InHand
          PROVE  UNCHANGED Queue!vars
      BY <2>1 DEF Queue!vars, Contents, NumReady
    <2>2. CASE UNCHANGED fifo_vars
      BY <2>1, <2>2 DEF fifo_vars, InHand
    <2>3. CASE Publish
      BY <2>3, PublishRefines DEF Queue!Next
    <2>4. CASE (\E m \in Messages : WriteHeader(m)) \/ ReserveBody \/ SetBody \/ GiveUp
               \/ MirrorUp \/ MirrorDown
      BY <2>1, <2>4 DEF WriteHeader, ReserveBody, SetBody, GiveUp, MirrorUp, MirrorDown, InHand
    <2>5. CASE ReadHeader
      BY <2>1, <2>5 DEF ReadHeader, InHand
    <2>6. CASE ReadBody
      BY <2>6, ReadBodyRefines
    <2>7. CASE Leave
      <3>1. rmsg # NoMessage
        BY <2>7, FifoAssumption DEF Leave, FifoIInv, FifoTypeOK
      <3>2. Contents' = Contents /\ NumReady' = NumReady /\ InHand = rmsg /\ InHand' = NoMessage
        BY <2>7 DEF Leave, Contents, NumReady, InHand
      <3> QED BY <3>1, <3>2 DEF Queue!Next, Queue!Leave
    <2>8. CASE FinishRead
      BY <2>8, FinishReadRefines DEF Queue!Next
    <2> QED BY <2>2, <2>3, <2>4, <2>5, <2>6, <2>7, <2>8 DEF FifoNext, Write, Read
  <1> QED BY <1>1, <1>2, FifoInvariance, PTL DEF FifoSpec, QueueSpec, Queue!Spec

USE DEF Setup

-----------------------------------------------------------------------------
(* Queues.                                                                 *)

\* A job is the setup or a measurement, and never both.
LEMMA JobsApart ==
    ASSUME NEW m \in Jobs
    PROVE  m # Setup => m \in Measurements
BY DEF Jobs

\* The first of a queue that is not empty, and the rest of it.
LEMMA FirstAndRest ==
    ASSUME NEW S, NEW q \in Seq(S), q # <<>>
    PROVE  /\ Head(q) \in S
           /\ Tail(q) \in Seq(S)
           /\ Len(q) \in Nat \ {0}
           /\ Len(Tail(q)) = Len(q) - 1
<1>1. Len(q) \in Nat /\ Len(q) # 0
  BY EmptySeq, LenProperties
<1> QED BY <1>1, HeadTailProperties, LenProperties

\* A queue and what is put behind it.
LEMMA OneMore ==
    ASSUME NEW S, NEW q \in Seq(S), NEW m \in S
    PROVE  /\ Append(q, m) \in Seq(S)
           /\ Len(Append(q, m)) = Len(q) + 1
           /\ Append(q, m) # <<>>
           /\ Len(q) \in Nat
<1>1. Len(q) \in Nat /\ Append(q, m) \in Seq(S) /\ Len(Append(q, m)) = Len(q) + 1
  BY AppendProperties, LenProperties
<1>2. Append(q, m) # <<>>
  BY <1>1, EmptySeq
<1> QED BY <1>1, <1>2

\* The queues and the requests a worker begins with.
LEMMA Emptiness ==
    /\ <<>> \in Seq(Jobs) /\ <<>> \in Seq(Results) /\ Len(<<>>) = 0
    /\ NoRequest \in [Programs -> Instruments \cup {NoInstrument}]
BY EmptySeq DEF NoRequest

\* What is put behind a queue is the last of its program ...
LEMMA LastIsNew ==
    ASSUME NEW S, NEW q \in Seq(S), NEW m \in S, NEW p, About(m, p)
    PROVE  IsLast(Append(q, m), p, m.ins)
<1> DEFINE r == Append(q, m)
<1>1. Len(q) \in Nat /\ Len(r) = Len(q) + 1 /\ DOMAIN r = 1 .. Len(q) + 1 /\ r[Len(q) + 1] = m
  BY AppendProperties, LenProperties
<1> HIDE DEF r
<1>2. \A l \in DOMAIN r : ~(l > Len(q) + 1)
  BY <1>1
<1>3. Len(q) + 1 \in DOMAIN r
  BY <1>1
<1> QED BY <1>1, <1>2, <1>3 DEF IsLast

\* ... and changes nothing for the others.
LEMMA LastIsOld ==
    ASSUME NEW S, NEW q \in Seq(S), NEW m \in S, NEW p, NEW i, ~About(m, p)
    PROVE  /\ IsLast(q, p, i) => IsLast(Append(q, m), p, i)
           /\ NoneAbout(q, p) => NoneAbout(Append(q, m), p)
<1> DEFINE r == Append(q, m)
<1>1. /\ Len(q) \in Nat /\ DOMAIN q = 1 .. Len(q) /\ DOMAIN r = 1 .. Len(q) + 1
      /\ r[Len(q) + 1] = m /\ \A k \in 1 .. Len(q) : r[k] = q[k]
  BY AppendProperties, LenProperties
<1> HIDE DEF r
<1>2. ASSUME IsLast(q, p, i) PROVE IsLast(r, p, i)
  <2> PICK k \in DOMAIN q : /\ About(q[k], p) /\ q[k].ins = i
                            /\ \A l \in DOMAIN q : l > k => ~About(q[l], p)
    BY <1>2 DEF IsLast
  <2>1. k \in DOMAIN r /\ r[k] = q[k]
    BY <1>1
  <2>2. ASSUME NEW l \in DOMAIN r, l > k PROVE ~About(r[l], p)
    <3>1. CASE l = Len(q) + 1 BY <3>1, <1>1
    <3>2. CASE l # Len(q) + 1 BY <3>2, <2>2, <1>1
    <3> QED BY <3>1, <3>2
  <2> QED BY <2>1, <2>2 DEF IsLast
<1>3. ASSUME NoneAbout(q, p) PROVE NoneAbout(r, p)
  <2> SUFFICES ASSUME NEW l \in DOMAIN r PROVE ~About(r[l], p)
    BY DEF NoneAbout
  <2>1. CASE l = Len(q) + 1 BY <2>1, <1>1
  <2>2. CASE l # Len(q) + 1 BY <2>2, <1>1, <1>3 DEF NoneAbout
  <2> QED BY <2>1, <2>2
<1> QED BY <1>2, <1>3 DEF r

\* When the first of a queue goes, the last of a program is the same or was that.
LEMMA LastAfterFirst ==
    ASSUME NEW S, NEW q \in Seq(S), q # <<>>, NEW p, NEW i
    PROVE  /\ NoneAbout(q, p) => NoneAbout(Tail(q), p) /\ ~About(Head(q), p)
           /\ IsLast(q, p, i) =>
                 \/ IsLast(Tail(q), p, i)
                 \/ NoneAbout(Tail(q), p) /\ About(Head(q), p) /\ Head(q).ins = i
<1> DEFINE r == Tail(q)
<1>1. /\ Len(q) \in Nat \ {0} /\ DOMAIN q = 1 .. Len(q) /\ DOMAIN r = 1 .. Len(q) - 1
      /\ Head(q) = q[1] /\ \A k \in 1 .. Len(q) - 1 : r[k] = q[k + 1]
  BY FirstAndRest, HeadTailProperties, LenProperties
<1>2. 1 \in DOMAIN q
  BY <1>1
<1> HIDE DEF r
<1>3. ASSUME NoneAbout(q, p) PROVE NoneAbout(r, p) /\ ~About(Head(q), p)
  <2>1. ~About(Head(q), p)
    BY <1>1, <1>2, <1>3 DEF NoneAbout
  <2>2. ASSUME NEW l \in DOMAIN r PROVE ~About(r[l], p)
    <3>1. l + 1 \in DOMAIN q /\ r[l] = q[l + 1]
      BY <1>1
    <3> QED BY <3>1, <1>3 DEF NoneAbout
  <2> QED BY <2>1, <2>2 DEF NoneAbout
<1>4. ASSUME IsLast(q, p, i)
      PROVE  \/ IsLast(r, p, i)
             \/ NoneAbout(r, p) /\ About(Head(q), p) /\ Head(q).ins = i
  <2> PICK k \in DOMAIN q : /\ About(q[k], p) /\ q[k].ins = i
                            /\ \A l \in DOMAIN q : l > k => ~About(q[l], p)
    BY <1>4 DEF IsLast
  <2>1. \A l \in DOMAIN r : l + 1 \in DOMAIN q /\ r[l] = q[l + 1] /\ (l > k - 1 => l + 1 > k)
    BY <1>1
  <2>2. CASE k = 1
    <3>1. \A l \in DOMAIN r : l + 1 > k
      BY <2>2, <1>1
    <3>2. NoneAbout(r, p)
      BY <2>1, <3>1 DEF NoneAbout
    <3> QED BY <2>2, <3>2, <1>1
  <2>3. CASE k # 1
    <3>1. k - 1 \in DOMAIN r /\ r[k - 1] = q[k]
      BY <2>3, <1>1
    <3>2. \A l \in DOMAIN r : l > k - 1 => ~About(r[l], p)
      BY <2>1
    <3> QED BY <3>1, <3>2 DEF IsLast
  <2> QED BY <2>2, <2>3
<1> QED BY <1>3, <1>4 DEF r

-----------------------------------------------------------------------------
(* The types.                                                              *)

\* The first state has its types.
LEMMA TypesStart == Init => TypeOK
<1> SUFFICES ASSUME Init PROVE TypeOK
  OBVIOUS
<1> USE DEF Init
<1>1. /\ to_worker \in Seq(Jobs) /\ Len(to_worker) <= MaxToWorker
      /\ from_worker \in Seq(Results) /\ Len(from_worker) <= MaxFromWorker
  <2> HIDE DEF Setup
  <2>1. Len(<<>>) <= MaxToWorker /\ Len(<<>>) <= MaxFromWorker
    BY Emptiness, WorkerAssumption
  <2>2. to_worker = <<>> /\ from_worker = <<>>
    OBVIOUS
  <2> QED BY <2>1, <2>2, Emptiness, Zenon
<1>2. /\ measure_requests \in [Programs -> Instruments \cup {NoInstrument}]
      /\ asked \in [Programs -> Instruments \cup {NoInstrument}]
      /\ answered \in [Programs -> Instruments \cup {NoInstrument}]
  BY Emptiness
<1> QED BY <1>1, <1>2 DEF TypeOK, HostStates, AudioStates, WorkerStates

\* Every step keeps the types and the room of the queues.
LEMMA TypesStay == TypeOK /\ [Next]_vars => TypeOK'
<1> SUFFICES ASSUME TypeOK, [Next]_vars PROVE TypeOK'
  OBVIOUS
<1> USE WorkerAssumption DEF TypeOK, HostStates, AudioStates, WorkerStates, workerVars, ghosts
<1>1. CASE Start BY <1>1 DEF Start
<1>2. CASE AskToQuit BY <1>2 DEF AskToQuit
<1>3. CASE PostQuit BY <1>3 DEF PostQuit
<1>4. CASE Join
  <2>1. /\ to_worker' = <<>> /\ from_worker' = <<>> /\ wpc' = "stopped"
        /\ measure_requests' = NoRequest /\ asked' = NoRequest /\ answered' = NoRequest
    BY <1>4 DEF Join
  <2>2. Len(<<>>) <= MaxToWorker /\ Len(<<>>) <= MaxFromWorker
    BY Emptiness
  <2>3. Len(to_worker') <= MaxToWorker /\ Len(from_worker') <= MaxFromWorker
    BY <2>1, <2>2, Zenon
  <2>4. to_worker' \in Seq(Jobs) /\ from_worker' \in Seq(Results)
    BY <2>1, Emptiness, Zenon
  <2> HIDE DEF Setup
  <2> QED BY <1>4, <2>1, <2>3, <2>4, Emptiness DEF Join
<1>5. CASE HoldPlayer BY <1>5 DEF HoldPlayer
<1>6. CASE ReleasePlayer BY <1>6 DEF ReleasePlayer
<1>7. CASE BeginBlock BY <1>7 DEF BeginBlock
<1>8. CASE TakeResult
  <2>1. /\ Head(from_worker) \in Results /\ Tail(from_worker) \in Seq(Results)
        /\ Len(from_worker) \in Nat /\ Len(Tail(from_worker)) = Len(from_worker) - 1
    BY <1>8, FirstAndRest DEF TakeResult
  <2>2. Head(from_worker).program \in Programs /\ Head(from_worker).ins \in Instruments
    BY <2>1 DEF Results
  <2> QED BY <1>8, <2>1, <2>2 DEF TakeResult
<1>9. CASE NoMoreResults BY <1>9 DEF NoMoreResults
<1>10. CASE PostJob BY <1>10 DEF PostJob
<1>11. CASE EndBlock BY <1>11 DEF EndBlock
<1>12. CASE \E m \in Jobs : SendJob(m)
  <2> PICK m \in Jobs : SendJob(m) BY <1>12
  <2>1. /\ Append(to_worker, m) \in Seq(Jobs)
        /\ Len(Append(to_worker, m)) = Len(to_worker) + 1 /\ Len(to_worker) \in Nat
    BY OneMore
  <2>2. asked' \in [Programs -> Instruments \cup {NoInstrument}]
    <3>1. CASE m = Setup BY <3>1 DEF SendJob
    <3>2. CASE m # Setup
      <4>1. m.program \in Programs /\ m.ins \in Instruments
        BY <3>2, JobsApart DEF Measurements
      <4> QED BY <3>2, <4>1 DEF SendJob
    <3> QED BY <3>1, <3>2
  <2> QED BY <2>1, <2>2 DEF SendJob, HasRoom
<1>13. CASE TakeToken BY <1>13 DEF TakeToken
<1>14. CASE CheckQuit BY <1>14 DEF CheckQuit
<1>15. CASE ReceiveRequest
  <2>1. /\ Head(to_worker) \in Jobs /\ Tail(to_worker) \in Seq(Jobs)
        /\ Len(to_worker) \in Nat /\ Len(Tail(to_worker)) = Len(to_worker) - 1
    BY <1>15, FirstAndRest DEF ReceiveRequest
  <2>2. Head(to_worker).program \in Programs /\ Head(to_worker).ins \in Instruments
    BY <1>15, <2>1, JobsApart DEF ReceiveRequest, Measurements
  <2> QED BY <1>15, <2>1, <2>2 DEF ReceiveRequest, Request
<1>16. CASE LockPlayer BY <1>16 DEF LockPlayer
<1>17. CASE UnlockPlayer BY <1>17 DEF UnlockPlayer
<1>18. CASE FinishSetup
  <2>1. /\ Tail(to_worker) \in Seq(Jobs)
        /\ Len(to_worker) \in Nat /\ Len(Tail(to_worker)) = Len(to_worker) - 1
    BY <1>18, FirstAndRest DEF FinishSetup
  <2> QED BY <1>18, <2>1 DEF FinishSetup
<1>19. CASE NothingPending BY <1>19 DEF NothingPending
<1>20. CASE NothingToMeasure BY <1>20 DEF NothingToMeasure
<1>21. CASE NoRoom BY <1>21 DEF NoRoom
<1>22. CASE BeginMeasurement BY <1>22 DEF BeginMeasurement, Requested
<1>23. CASE FinishMeasurement
  <2> DEFINE r == [program |-> job, ins |-> measure_requests[job]]
  <2>1. r \in Results
    BY <1>23 DEF FinishMeasurement, Results
  <2>2. /\ Append(from_worker, r) \in Seq(Results)
        /\ Len(Append(from_worker, r)) = Len(from_worker) + 1 /\ Len(from_worker) \in Nat
    BY <2>1, OneMore
  <2> QED BY <1>23, <2>2 DEF FinishMeasurement
<1>24. CASE GiveUpMeasurement BY <1>24 DEF GiveUpMeasurement
<1>25. CASE UNCHANGED vars BY <1>25 DEF vars
<1> QED
  BY <1>1, <1>2, <1>3, <1>4, <1>5, <1>6, <1>7, <1>8, <1>9, <1>10, <1>11, <1>12,
     <1>13, <1>14, <1>15, <1>16, <1>17, <1>18, <1>19, <1>20, <1>21, <1>22, <1>23,
     <1>24, <1>25 DEF Next, Host, Audio, Run

-----------------------------------------------------------------------------
(* The lock, the quit and the tokens.                                      *)

\* At first no thread runs and nothing is announced.
LEMMA InvariantStarts == Init => IInv
<1> SUFFICES ASSUME Init PROVE IInv
  OBVIOUS
<1>1. TypeOK BY TypesStart
<1>2. PlayerHasOneHolder BY DEF Init, PlayerHasOneHolder
<1>3. QuitIsToldBefore /\ WorkerRuns /\ QuitTokenWaits /\ SetupStaysFirst
  BY DEF Init, QuitIsToldBefore, WorkerRuns, QuitTokenWaits, SetupStaysFirst
<1>4. TokensAreMessages
  BY DEF Init, TokensAreMessages, Taken, Unposted, QuitPosted
<1> QED BY <1>1, <1>2, <1>3, <1>4 DEF IInv

\* Every step of every thread keeps the count of what is announced.
LEMMA InvariantStays == IInv /\ [Next]_vars => IInv'
<1> SUFFICES ASSUME IInv, [Next]_vars PROVE IInv'
  OBVIOUS
<1>0. TypeOK /\ TypeOK' /\ sem \in Nat /\ to_worker \in Seq(Jobs) /\ Len(to_worker) \in Nat
  BY TypesStay, LenProperties DEF IInv, TypeOK
<1> DEFINE Rest == /\ PlayerHasOneHolder /\ QuitIsToldBefore /\ WorkerRuns
                   /\ TokensAreMessages /\ QuitTokenWaits /\ SetupStaysFirst
<1>1. Rest
  BY DEF IInv
<1>2. Rest'
  <2> USE <1>0, <1>1 DEF PlayerHasOneHolder, QuitIsToldBefore, WorkerRuns, TokensAreMessages,
          QuitTokenWaits, SetupStaysFirst, Taken, Unposted, QuitPosted, workerVars, ghosts
  <2> HIDE DEF Setup
  <2>1. CASE Start
    BY <2>1 DEF Start
  <2>2. CASE AskToQuit
    BY <2>2 DEF AskToQuit
  <2>3. CASE PostQuit
    BY <2>3 DEF PostQuit
  <2>4. CASE Join
    BY <2>4 DEF Join
  <2>5. CASE HoldPlayer
    BY <2>5 DEF HoldPlayer
  <2>6. CASE ReleasePlayer
    BY <2>6 DEF ReleasePlayer
  <2>7. CASE BeginBlock
    BY <2>7 DEF BeginBlock
  <2>8. CASE TakeResult
    BY <2>8 DEF TakeResult
  <2>9. CASE NoMoreResults
    BY <2>9 DEF NoMoreResults
  <2>10. CASE PostJob
    BY <2>10 DEF PostJob
  <2>11. CASE EndBlock
    BY <2>11 DEF EndBlock
  <2>12. CASE \E m \in Jobs : SendJob(m)
    <3> PICK m \in Jobs : SendJob(m) BY <2>12
    <3>1. /\ Len(to_worker') = Len(to_worker) + 1 /\ to_worker' # <<>>
          /\ to_worker # <<>> => Head(to_worker') = Head(to_worker)
      BY OneMore, AppendProperties, EmptySeq DEF SendJob
    <3> QED BY <3>1 DEF SendJob
  <2>13. CASE TakeToken
    BY <2>13 DEF TakeToken
  <2>14. CASE CheckQuit
    BY <2>14 DEF CheckQuit
  <2>15. CASE ReceiveRequest
    <3>1. Len(to_worker') = Len(to_worker) - 1 /\ Len(to_worker') \in Nat
      BY <2>15, FirstAndRest, LenProperties DEF ReceiveRequest
    <3> QED BY <2>15, <3>1 DEF ReceiveRequest
  <2>16. CASE LockPlayer
    BY <2>16 DEF LockPlayer
  <2>17. CASE UnlockPlayer
    BY <2>17 DEF UnlockPlayer
  <2>18. CASE FinishSetup
    <3>1. Len(to_worker') = Len(to_worker) - 1 /\ Len(to_worker') \in Nat
      BY <2>18, FirstAndRest, LenProperties DEF FinishSetup
    <3> QED BY <2>18, <3>1 DEF FinishSetup
  <2>19. CASE NothingPending
    BY <2>19 DEF NothingPending
  <2>20. CASE NothingToMeasure
    BY <2>20 DEF NothingToMeasure
  <2>21. CASE NoRoom
    BY <2>21 DEF NoRoom
  <2>22. CASE BeginMeasurement
    BY <2>22 DEF BeginMeasurement
  <2>23. CASE FinishMeasurement
    BY <2>23 DEF FinishMeasurement
  <2>24. CASE GiveUpMeasurement
    BY <2>24 DEF GiveUpMeasurement
  <2>25. CASE UNCHANGED vars
    BY <2>25 DEF vars
  <2> HIDE DEF Rest
  <2> QED BY ONLY [Next]_vars,
     <2>1, <2>2, <2>3, <2>4, <2>5, <2>6, <2>7, <2>8, <2>9, <2>10, <2>11, <2>12,
     <2>13, <2>14, <2>15, <2>16, <2>17, <2>18, <2>19, <2>20, <2>21, <2>22, <2>23,
     <2>24, <2>25 DEF Next, Host, Audio, Run
<1> QED BY ONLY <1>0, <1>2 DEF IInv

\* The count of what is announced is right in every state.
THEOREM WorkerInvariance == Spec => []IInv
BY InvariantStarts, InvariantStays, PTL DEF Spec

\* Every state has the types it should have, and the queues their room.
THEOREM WorkerTypeCorrect == Spec => []TypeOK
<1>1. IInv => TypeOK BY DEF IInv
<1> QED BY <1>1, WorkerInvariance, PTL

\* The assertion of receive_one, and that what a message is read from is not
\* empty until it is finished: a worker that is woken and not told to quit finds
\* a message.
THEOREM AnnouncedCorrect == Spec => []AnnouncedIsThere
<1>1. IInv => AnnouncedIsThere
  <2> SUFFICES ASSUME IInv, wpc \in {"receive", "setup", "finish"}
               PROVE  to_worker # <<>>
    BY DEF AnnouncedIsThere
  <2>1. sem \in Nat /\ Len(to_worker) \in Nat /\ to_worker \in Seq(Jobs)
    BY LenProperties DEF IInv, TypeOK
  <2>2. sem + 1 = Len(to_worker) - Unposted + QuitPosted
    BY DEF IInv, TokensAreMessages, Taken
  <2>3. CASE host = "joining"
    <3>1. sem > 0 /\ audio = "idle"
      BY <2>3 DEF IInv, QuitTokenWaits, PlayerHasOneHolder
    <3> QED BY <2>1, <2>2, <2>3, <3>1, EmptySeq DEF Unposted, QuitPosted
  <2>4. CASE host # "joining"
    BY <2>1, <2>2, <2>4, EmptySeq DEF Unposted, QuitPosted
  <2> QED BY <2>3, <2>4
<1> QED BY <1>1, WorkerInvariance, PTL

-----------------------------------------------------------------------------
(* The requests.                                                           *)

\* At first nothing is asked and nothing answered.
LEMMA RequestsStart == Init => LastRequestIsKept
<1> SUFFICES ASSUME Init, NEW p \in Programs PROVE IsNewest(p, asked[p])
  BY DEF LastRequestIsKept
<1>1. /\ to_worker = <<>> /\ from_worker = <<>>
      /\ measure_requests[p] = NoInstrument /\ answered[p] = asked[p]
  BY DEF Init, NoRequest
<1>2. NoneAbout(to_worker, p) /\ NoneAbout(from_worker, p)
  BY <1>1 DEF NoneAbout
<1> QED BY <1>1, <1>2 DEF IsNewest

\* Every step moves the newest of each program forward and never behind an older
\* one.
LEMMA RequestsStay ==
    ASSUME TypeOK, SetupStaysFirst, LastRequestIsKept, [Next]_vars
    PROVE  LastRequestIsKept'
<1> SUFFICES ASSUME NEW p \in Programs PROVE IsNewest(p, asked[p])'
  BY DEF LastRequestIsKept
<1>0. IsNewest(p, asked[p])
  BY DEF LastRequestIsKept
<1> HIDE DEF Setup
<1>1. CASE UNCHANGED <<to_worker, from_worker, measure_requests, asked, answered>>
  BY <1>0, <1>1 DEF IsNewest, IsLast, NoneAbout
<1>2. CASE Join
  <2>1. /\ to_worker' = <<>> /\ from_worker' = <<>>
        /\ measure_requests'[p] = NoInstrument /\ answered'[p] = asked'[p]
    BY <1>2 DEF Join, NoRequest
  <2>2. NoneAbout(to_worker', p) /\ NoneAbout(from_worker', p)
    BY <2>1 DEF NoneAbout
  <2> QED BY <2>1, <2>2 DEF IsNewest
<1>3. CASE \E m \in Jobs : SendJob(m)
  <2> PICK m \in Jobs : SendJob(m) BY <1>3
  <2>1. /\ to_worker \in Seq(Jobs) /\ to_worker' = Append(to_worker, m)
        /\ UNCHANGED <<from_worker, measure_requests, answered>>
    BY DEF TypeOK, SendJob, workerVars
  <2>2. CASE About(m, p)
    <3>1. asked'[p] = m.ins
      BY <2>2 DEF SendJob, About, TypeOK
    <3>2. IsLast(to_worker', p, m.ins)
      BY <2>1, <2>2, LastIsNew
    <3> QED BY <3>1, <3>2 DEF IsNewest
  <2>3. CASE ~About(m, p)
    <3>1. asked'[p] = asked[p]
      BY <2>3 DEF SendJob, About, TypeOK
    <3>2. /\ IsLast(to_worker, p, asked[p]) => IsLast(to_worker', p, asked[p])
          /\ NoneAbout(to_worker, p) => NoneAbout(to_worker', p)
      BY <2>1, <2>3, LastIsOld
    <3> QED BY <1>0, <2>1, <3>1, <3>2 DEF IsNewest
  <2> QED BY <2>2, <2>3
<1>4. CASE TakeResult
  <2>1. /\ from_worker \in Seq(Results) /\ from_worker # <<>>
        /\ from_worker' = Tail(from_worker)
        /\ UNCHANGED <<to_worker, measure_requests, asked>>
    BY <1>4 DEF TypeOK, TakeResult, workerVars
  <2>2. Head(from_worker) # Setup
    <3>1. Head(from_worker) \in Results
      BY <2>1, FirstAndRest
    <3> QED BY <3>1 DEF Results, Setup
  <2>3. IF About(Head(from_worker), p)
        THEN answered'[p] = Head(from_worker).ins
        ELSE answered'[p] = answered[p]
    BY <1>4, <2>2 DEF TypeOK, TakeResult, About
  <2>4. /\ NoneAbout(from_worker, p) =>
              NoneAbout(from_worker', p) /\ ~About(Head(from_worker), p)
        /\ IsLast(from_worker, p, asked[p]) =>
              \/ IsLast(from_worker', p, asked[p])
              \/ /\ NoneAbout(from_worker', p)
                 /\ About(Head(from_worker), p) /\ Head(from_worker).ins = asked[p]
    BY <2>1, LastAfterFirst
  <2> QED BY <1>0, <2>1, <2>3, <2>4 DEF IsNewest
<1>5. CASE ReceiveRequest
  <2> DEFINE m == Head(to_worker)
  <2>1. /\ to_worker \in Seq(Jobs) /\ to_worker # <<>> /\ m # Setup
        /\ to_worker' = Tail(to_worker)
        /\ UNCHANGED <<from_worker, asked, answered>>
    BY <1>5 DEF TypeOK, ReceiveRequest, ghosts
  <2>2. m.ins # NoInstrument
    <3>1. m \in Measurements
      BY <2>1, FirstAndRest, JobsApart
    <3> QED BY <3>1, WorkerAssumption DEF Measurements
  <2>3. IF About(m, p)
        THEN measure_requests'[p] = m.ins
        ELSE measure_requests'[p] = measure_requests[p]
    BY <1>5, <2>1 DEF TypeOK, ReceiveRequest, Request, About
  <2>4. /\ NoneAbout(to_worker, p) => NoneAbout(to_worker', p) /\ ~About(m, p)
        /\ IsLast(to_worker, p, asked[p]) =>
              \/ IsLast(to_worker', p, asked[p])
              \/ NoneAbout(to_worker', p) /\ About(m, p) /\ m.ins = asked[p]
    BY <2>1, LastAfterFirst
  <2> HIDE DEF m
  <2> QED BY <1>0, <2>1, <2>2, <2>3, <2>4 DEF IsNewest
<1>6. CASE FinishSetup
  <2>1. /\ to_worker \in Seq(Jobs) /\ to_worker # <<>>
        /\ to_worker' = Tail(to_worker)
        /\ UNCHANGED <<from_worker, measure_requests, asked, answered>>
    BY <1>6 DEF TypeOK, FinishSetup, ghosts
  <2>2. ~About(Head(to_worker), p)
    BY <1>6 DEF SetupStaysFirst, FinishSetup, About
  <2>3. /\ NoneAbout(to_worker, p) => NoneAbout(to_worker', p)
        /\ IsLast(to_worker, p, asked[p]) => IsLast(to_worker', p, asked[p])
    BY <2>1, <2>2, LastAfterFirst
  <2> QED BY <1>0, <2>1, <2>3 DEF IsNewest
<1>7. CASE FinishMeasurement
  <2> DEFINE r == [program |-> job, ins |-> measure_requests[job]]
  <2>1. /\ from_worker \in Seq(Results) /\ r \in Results
        /\ from_worker' = Append(from_worker, r)
        /\ measure_requests' = [measure_requests EXCEPT ![job] = NoInstrument]
        /\ UNCHANGED <<to_worker, asked, answered>>
    BY <1>7 DEF TypeOK, FinishMeasurement, Results, ghosts
  <2>2. r # Setup /\ r.program = job /\ r.ins = measure_requests[job]
    BY DEF Setup
  <2> HIDE DEF r
  <2>3. CASE p = job
    <3>1. About(r, p)
      BY <2>2, <2>3 DEF About
    <3>2. IsLast(from_worker', p, measure_requests[p])
      BY <2>1, <2>2, <2>3, <3>1, LastIsNew
    <3>3. measure_requests'[p] = NoInstrument /\ measure_requests[p] # NoInstrument
      BY <1>7, <2>1, <2>3 DEF TypeOK, FinishMeasurement
    <3> QED BY <1>0, <2>1, <3>2, <3>3 DEF IsNewest
  <2>4. CASE p # job
    <3>1. ~About(r, p)
      BY <2>2, <2>4 DEF About
    <3>2. /\ IsLast(from_worker, p, asked[p]) => IsLast(from_worker', p, asked[p])
          /\ NoneAbout(from_worker, p) => NoneAbout(from_worker', p)
      BY <2>1, <3>1, LastIsOld
    <3>3. measure_requests'[p] = measure_requests[p]
      BY <2>1, <2>4 DEF TypeOK
    <3> QED BY <1>0, <2>1, <3>2, <3>3 DEF IsNewest
  <2> QED BY <2>3, <2>4
<1> QED
  BY <1>1, <1>2, <1>3, <1>4, <1>5, <1>6, <1>7 DEF Next, Host, Audio, Run, vars,
     workerVars, ghosts, Start, AskToQuit, PostQuit, HoldPlayer, ReleasePlayer,
     BeginBlock, NoMoreResults, PostJob, EndBlock, TakeToken, CheckQuit, LockPlayer,
     UnlockPlayer, NothingPending, NothingToMeasure, NoRoom, BeginMeasurement,
     GiveUpMeasurement

\* No request is lost and none overtakes a later one, for every number of programs
\* and every length of the queues.
THEOREM LastRequestCorrect == Spec => []LastRequestIsKept
<1>1. Init => LastRequestIsKept
  BY RequestsStart
<1>2. IInv /\ LastRequestIsKept /\ [Next]_vars => LastRequestIsKept'
  BY RequestsStay DEF IInv
<1> QED BY <1>1, <1>2, WorkerInvariance, PTL DEF Spec

==============================================================================
