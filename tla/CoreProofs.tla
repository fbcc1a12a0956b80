------------------------------ MODULE CoreProofs ------------------------------
(* That the slots of the core read the registers as the chip does, and go  *)
(* by one routing, for every set of slots watched, every order of writes   *)
(* and every time between them that lets no two land in one pass; and that *)
(* what slots share from pass to pass is as if each had its own; and that  *)
(* the level of an envelope goes one way in each stage, for every voice.   *)
EXTENDS CoreWrites, CoreShared, CoreEnvelope, SequenceTheorems, WellFoundedInduction, TLAPS

-----------------------------------------------------------------------------
(* The copies of the registers.                                            *)

\* The first channel of the chain of a slot, or its own.
FirstOf(s) == IF SecondOfChain(ChannelOf(s)) THEN ChannelOf(s) - 3 ELSE ChannelOf(s)

\* Where the registers a slot reads are, in numbers.
LEMMA ChannelsOfSlot ==
    ASSUME NEW slots \in SUBSET (0..35), NEW s \in slots
    PROVE  /\ ChannelOf(s) \in 0 .. 17 /\ FirstOf(s) \in 0 .. 17
           /\ ChannelOf(s) \in ChannelsFor(slots) /\ FirstOf(s) \in ChannelsFor(slots)
           /\ ChainOf(s) >= 0 => FirstOf(s) + 3 \in ChannelsFor(slots) /\ FirstOf(s) + 3 \in 0 .. 17
           /\ SecondOfChain(ChannelOf(s)) => ChannelOf(s) - 3 \in ChannelsFor(slots)
           /\ SecondOfChain(ChannelOf(s)) => (ChannelOf(s) - 3) % 9 < 3
<1>1. /\ ChannelOf(s) \in 0 .. 17
      /\ ChainOf(s) >= 0 <=> ChannelOf(s) % 9 < 6
      /\ SecondOfChain(ChannelOf(s)) => (ChannelOf(s) - 3) % 9 < 3 /\ ChannelOf(s) >= 3
      /\ ChannelOf(s) % 9 < 6 /\ ~SecondOfChain(ChannelOf(s)) => ChannelOf(s) % 9 < 3
      /\ ChannelOf(s) % 9 < 3 => ChannelOf(s) <= 11
  BY DEF ChannelOf, BankOf, RowOf, ChainOf, SecondOfChain
<1> DEFINE own == {ChannelOf(t) : t \in slots}
<1>2. /\ ChannelOf(s) \in own
      /\ own \subseteq ChannelsFor(slots)
      /\ \A c \in own : SecondOfChain(c) => c - 3 \in ChannelsFor(slots)
      /\ \A c \in own : c % 9 < 3 => c + 3 \in ChannelsFor(slots)
  BY DEF ChannelsFor
<1> HIDE DEF own
<1>3. PICK c \in own : c = ChannelOf(s)
  BY <1>2
<1>4. CASE SecondOfChain(c)
  BY <1>1, <1>2, <1>3, <1>4 DEF FirstOf
<1>5. CASE ~SecondOfChain(c)
  BY <1>1, <1>2, <1>3, <1>5 DEF FirstOf
<1> QED BY <1>4, <1>5

\* What a copy holds for a slot: of its own channel, and of the pair it may be in.
CopyNames == {"fnum", "block", "key", "con", "fb", "pan", "firstCon", "secondCon"}
\* Those that are of its own channel.
OwnNames == {"fnum", "block", "key", "con", "fb", "pan"}

\* The copies are what the registers hold.
AreCopies(cs, r, slots) == cs = [s \in slots |-> CopyFor(r, s)]

\* spread() leaves copies that are what the registers hold, when they were before and
\* what changed for a slot is of a channel it is called for.
LEMMA SpreadMakesCurrent ==
    ASSUME NEW slots, NEW r0, NEW r, NEW chs, NEW cs,
           AreCopies(cs, r0, slots),
           \A s \in slots : ChannelOf(s) \notin chs =>
              \A x \in OwnNames : CopyFor(r, s)[x] = CopyFor(r0, s)[x],
           \A s \in slots : FirstOf(s) \notin chs =>
              CopyFor(r, s).firstCon = CopyFor(r0, s).firstCon,
           \A s \in slots : FirstOf(s) + 3 \notin chs =>
              CopyFor(r, s).secondCon = CopyFor(r0, s).secondCon
    PROVE  AreCopies(Spread(cs, r, chs), r, slots)
<1> SUFFICES ASSUME NEW s \in slots PROVE Spread(cs, r, chs)[s] = CopyFor(r, s)
  <2>1. DOMAIN cs = slots
    BY DEF AreCopies
  <2>2. Spread(cs, r, chs) = [s \in slots |-> Spread(cs, r, chs)[s]]
    BY <2>1 DEF Spread
  <2> QED BY <2>2 DEF AreCopies
<1> DEFINE now == CopyFor(r, s)
           mine == IF ChannelOf(s) \in chs
                   THEN [now EXCEPT !.firstCon = cs[s].firstCon, !.secondCon = cs[s].secondCon]
                   ELSE cs[s]
           out == [mine EXCEPT !.firstCon = IF FirstOf(s) \in chs THEN now.firstCon ELSE @,
                               !.secondCon = IF FirstOf(s) + 3 \in chs THEN now.secondCon ELSE @]
<1>1. Spread(cs, r, chs)[s] = out
  BY DEF Spread, FirstOf, AreCopies
<1>2. cs[s] = CopyFor(r0, s)
  BY DEF AreCopies
<1>3. /\ now = [x \in CopyNames |-> now[x]]
      /\ cs[s] = [x \in CopyNames |-> cs[s][x]]
  BY <1>2 DEF CopyFor, CopyNames
<1>4. /\ \A x \in OwnNames : ChannelOf(s) \notin chs => cs[s][x] = now[x]
      /\ FirstOf(s) \notin chs => cs[s].firstCon = now.firstCon
      /\ FirstOf(s) + 3 \notin chs => cs[s].secondCon = now.secondCon
  BY <1>2
<1> HIDE DEF now
<1>5. /\ mine = [x \in CopyNames |-> mine[x]]
      /\ \A x \in OwnNames : mine[x] = now[x]
      /\ mine.firstCon = cs[s].firstCon /\ mine.secondCon = cs[s].secondCon
  <2>1. CASE ChannelOf(s) \in chs
    BY <1>3, <2>1 DEF CopyNames, OwnNames
  <2>2. CASE ChannelOf(s) \notin chs
    BY <1>3, <1>4, <2>2
  <2> QED BY <2>1, <2>2
<1> HIDE DEF mine
<1>6. /\ out = [x \in CopyNames |-> out[x]]
      /\ \A x \in OwnNames : out[x] = now[x]
      /\ out.firstCon = now.firstCon /\ out.secondCon = now.secondCon
  BY <1>4, <1>5 DEF CopyNames, OwnNames
<1> HIDE DEF out
<1>7. \A x \in CopyNames : out[x] = now[x]
  BY <1>6 DEF CopyNames, OwnNames
<1>8. out = now
  BY <1>3, <1>6, <1>7
<1> QED BY <1>1, <1>8 DEF now

\* The registers the model keeps.
RegisterNames == {"own", "channel", "newm", "fourOp", "rhythm", "whole"}

\* What the array may hold.
Arrays == [bank : {0, 1}, reg : 0 .. 255, value : 0 .. 255]

\* The registers of a channel, with its connection as the channel has it and as its
\* pair does.
ChannelNames == {"fnum", "block", "key", "con", "conPair", "fb", "pan"}

\* A channel has all of them, and its connection is one bit wherever it is kept.
IsChannel(v) == v = [x \in ChannelNames |-> v[x]] /\ v.con \in {0, 1} /\ v.conPair \in {0, 1}

\* Registers that have what the slots watched go by.
IsRegisters(r, slots) ==
    /\ r = [x \in RegisterNames |-> r[x]]
    /\ r.own = [s \in slots |-> r.own[s]]
    /\ r.channel = [c \in ChannelsFor(slots) |-> r.channel[c]]
    /\ \A c \in ChannelsFor(slots) : IsChannel(r.channel[c])
    /\ r.newm \in {0, 1}

\* A copy goes by the channels of its slot and by the chains that are set.
LEMMA CopyGoesBy ==
    ASSUME NEW slots \in SUBSET (0..35), NEW r0, NEW r, r.fourOp = r0.fourOp, NEW ch,
           \A c \in ChannelsFor(slots) : c # ch => r.channel[c] = r0.channel[c],
           NEW s \in slots
    PROVE  /\ ChannelOf(s) # ch
                 /\ ~(SecondOfChain(ChannelOf(s)) /\ ChannelOf(s) - 3 = ch) =>
              \A x \in OwnNames : CopyFor(r, s)[x] = CopyFor(r0, s)[x]
           /\ FirstOf(s) # ch => CopyFor(r, s).firstCon = CopyFor(r0, s).firstCon
           /\ FirstOf(s) + 3 # ch => CopyFor(r, s).secondCon = CopyFor(r0, s).secondCon
<1>1. /\ ChannelOf(s) \in ChannelsFor(slots) /\ FirstOf(s) \in ChannelsFor(slots)
      /\ ChainOf(s) >= 0 => FirstOf(s) + 3 \in ChannelsFor(slots)
      /\ SecondOfChain(ChannelOf(s)) => ChannelOf(s) - 3 \in ChannelsFor(slots)
  BY ChannelsOfSlot
<1>2. ASSUME ChannelOf(s) # ch, ~(SecondOfChain(ChannelOf(s)) /\ ChannelOf(s) - 3 = ch)
      PROVE  \A x \in OwnNames : CopyFor(r, s)[x] = CopyFor(r0, s)[x]
  <2>1. r.channel[ChannelOf(s)] = r0.channel[ChannelOf(s)]
    BY <1>1, <1>2
  <2>2. SecondOfChain(ChannelOf(s)) => r.channel[ChannelOf(s) - 3] = r0.channel[ChannelOf(s) - 3]
    BY <1>1, <1>2
  <2> QED BY <2>1, <2>2 DEF CopyFor, OwnNames
<1>3. ASSUME FirstOf(s) # ch PROVE CopyFor(r, s).firstCon = CopyFor(r0, s).firstCon
  <2>1. r.channel[FirstOf(s)] = r0.channel[FirstOf(s)]
    BY <1>1, <1>3
  <2> QED BY <2>1 DEF CopyFor, FirstOf
<1>4. ASSUME FirstOf(s) + 3 # ch PROVE CopyFor(r, s).secondCon = CopyFor(r0, s).secondCon
  <2>1. ChainOf(s) >= 0 => r.channel[FirstOf(s) + 3] = r0.channel[FirstOf(s) + 3]
    BY <1>1, <1>4
  <2>2. ChainOf(s) >= 0 \/ ChainOf(s) < 0
    BY DEF ChainOf, BankOf, RowOf
  <2> QED BY <2>1, <2>2 DEF CopyFor, FirstOf
<1> QED BY <1>2, <1>3, <1>4

\* A write to a channel leaves its connections.
LEMMA ChannelStays ==
    ASSUME NEW r, NEW ch, IsChannel(r.channel[ch]), NEW reg, NEW value \in 0 .. 255
    PROVE  IsChannel(ChannelWith(r, ch, reg, value))
<1> PICK bit, fb, low, high, block, on, pan :
       /\ bit = value % 2 /\ fb = (value \div 2) % 8 /\ pan = (IF r.newm = 1 THEN (value \div 16) % 16 ELSE 3)
       /\ low = (r.channel[ch].fnum \div 256) * 256 + value
       /\ high = (r.channel[ch].fnum % 256) + (value % 4) * 256
       /\ block = (value \div 4) % 8 /\ on = Bit(value, 5)
  OBVIOUS
<1>1. bit \in {0, 1}
  OBVIOUS
<1> PICK old : old = r.channel[ch]
  OBVIOUS
<1>2. \/ ChannelWith(r, ch, reg, value) = [old EXCEPT !.conPair = bit, !.fb = fb]
      \/ ChannelWith(r, ch, reg, value) = [old EXCEPT !.fnum = low]
      \/ ChannelWith(r, ch, reg, value) = [old EXCEPT !.fnum = high, !.block = block, !.key = on]
      \/ ChannelWith(r, ch, reg, value) =
           [old EXCEPT !.con = bit, !.conPair = bit, !.fb = fb, !.pan = pan]
  BY DEF ChannelWith
<1>3. IsChannel(old)
  OBVIOUS
<1> QED BY ONLY <1>1, <1>2, <1>3 DEF IsChannel, ChannelNames

\* apply_array leaves the copies what the registers hold.
LEMMA ArrayKeepsCopies ==
    ASSUME NEW slots \in SUBSET (0..35), NEW r0, IsRegisters(r0, slots), NEW a \in Arrays,
           NEW cs, AreCopies(cs, r0, slots),
           NEW r, r = ArrayWritten(r0, a)
    PROVE  /\ IsRegisters(r, slots) /\ r.fourOp = r0.fourOp
           /\ AreCopies(Spread(cs, r, SpreadBy(a)), r, slots)
<1> DEFINE ch == ChannelWritten(a.bank, a.reg)
           t == a.bank * 18 + SlotOfOffset(a.reg % 32)
           group == a.reg \div 32
<1>1. ch \in -1 .. 17
  <2>1. a.bank \in {0, 1} /\ a.reg \in 0 .. 255
    BY DEF Arrays
  <2> QED BY <2>1 DEF ChannelWritten, ToFirstBank
<1>2. CASE a.reg \in 160 .. 207
  <2>1. SpreadBy(a) = IF ch >= 0 THEN {ch} \cup (IF ch % 9 < 3 THEN {ch + 3} ELSE {}) ELSE {}
    BY <1>2 DEF SpreadBy
  <2>2. DOMAIN r0.channel = ChannelsFor(slots)
    BY DEF IsRegisters
  <2>3. \A c \in ChannelsFor(slots) : c >= 0
    <3> SUFFICES ASSUME NEW c \in ChannelsFor(slots) PROVE c >= 0
      OBVIOUS
    <3>1. PICK s \in slots : \/ c = ChannelOf(s) \/ c = ChannelOf(s) + 3
                             \/ c = ChannelOf(s) - 3 /\ SecondOfChain(ChannelOf(s))
      BY DEF ChannelsFor
    <3>2. PICK d \in 0 .. 17 : d = ChannelOf(s)
      BY ChannelsOfSlot
    <3>3. SecondOfChain(d) => d >= 3
      BY DEF SecondOfChain
    <3> QED BY ONLY <3>1, <3>2, <3>3
  <2>4. /\ r = IF ch \in ChannelsFor(slots)
               THEN [r0 EXCEPT !.channel[ch] = ChannelWith(r0, ch, a.reg, a.value)] ELSE r0
    BY <1>2, <2>2 DEF ArrayWritten
  <2>5. /\ IsRegisters(r, slots) /\ r.fourOp = r0.fourOp
        /\ \A c \in ChannelsFor(slots) : c # ch => r.channel[c] = r0.channel[c]
    <3>1. CASE ch \in ChannelsFor(slots)
      <4> DEFINE new == [r0.channel EXCEPT ![ch] = ChannelWith(r0, ch, a.reg, a.value)]
      <4>1. r = [r0 EXCEPT !.channel = new]
        BY <2>4, <3>1
      <4>0. IsChannel(ChannelWith(r0, ch, a.reg, a.value))
        <5>1. IsChannel(r0.channel[ch]) /\ a.value \in 0 .. 255
          BY <3>1 DEF IsRegisters, Arrays
        <5> QED BY <5>1, ChannelStays
      <4>2. new = [c \in ChannelsFor(slots) |-> new[c]]
            /\ (\A c \in ChannelsFor(slots) : c # ch => new[c] = r0.channel[c])
            /\ (\A c \in ChannelsFor(slots) : IsChannel(new[c]))
        BY <4>0 DEF IsRegisters
      <4> HIDE DEF new, ch
      <4>3. r = [x \in RegisterNames |-> IF x = "channel" THEN new ELSE r0[x]]
        BY <4>1 DEF IsRegisters, RegisterNames
      <4>4. r.channel = new /\ r.own = r0.own /\ r.newm = r0.newm /\ r.fourOp = r0.fourOp
            /\ r = [x \in RegisterNames |-> r[x]]
        BY <4>3 DEF RegisterNames
      <4> QED BY <4>2, <4>4 DEF IsRegisters
    <3>2. CASE ch \notin ChannelsFor(slots)
      BY <2>4, <3>2
    <3> QED BY <3>1, <3>2
  <2> HIDE DEF ch
  <2>6. ch < 0 => ch \notin ChannelsFor(slots)
    BY <1>1, <2>3
  <2>7. ASSUME NEW s \in slots, ChannelOf(s) \notin SpreadBy(a)
        PROVE  ChannelOf(s) # ch /\ ~(SecondOfChain(ChannelOf(s)) /\ ChannelOf(s) - 3 = ch)
    <3>1. /\ ChannelOf(s) \in 0 .. 17
          /\ SecondOfChain(ChannelOf(s)) =>
               ChannelOf(s) - 3 \in ChannelsFor(slots) /\ (ChannelOf(s) - 3) % 9 < 3
      BY ChannelsOfSlot
    <3> QED BY <1>1, <2>1, <2>6, <2>7, <3>1
  <2>8. ASSUME NEW s \in slots, FirstOf(s) \notin SpreadBy(a) PROVE FirstOf(s) # ch
    <3>1. FirstOf(s) \in 0 .. 17
      BY ChannelsOfSlot
    <3> QED BY <1>1, <2>1, <2>8, <3>1
  <2>9. ASSUME NEW s \in slots, FirstOf(s) + 3 \notin SpreadBy(a) PROVE FirstOf(s) + 3 # ch
    <3>1. FirstOf(s) \in 0 .. 17
      BY ChannelsOfSlot
    <3> QED BY <1>1, <2>1, <2>9, <3>1
  <2>10. ASSUME NEW s \in slots
         PROVE  /\ ChannelOf(s) \notin SpreadBy(a) =>
                      \A x \in OwnNames : CopyFor(r, s)[x] = CopyFor(r0, s)[x]
                /\ FirstOf(s) \notin SpreadBy(a) =>
                      CopyFor(r, s).firstCon = CopyFor(r0, s).firstCon
                /\ FirstOf(s) + 3 \notin SpreadBy(a) =>
                      CopyFor(r, s).secondCon = CopyFor(r0, s).secondCon
    BY <2>5, <2>7, <2>8, <2>9, CopyGoesBy
  <2>11. PICK chs : chs = SpreadBy(a)
    OBVIOUS
  <2>12. \A s \in slots : ChannelOf(s) \notin chs =>
           \A x \in OwnNames : CopyFor(r, s)[x] = CopyFor(r0, s)[x]
    BY <2>10, <2>11
  <2>13. \A s \in slots : FirstOf(s) \notin chs => CopyFor(r, s).firstCon = CopyFor(r0, s).firstCon
    BY <2>10, <2>11
  <2>14. \A s \in slots : FirstOf(s) + 3 \notin chs => CopyFor(r, s).secondCon = CopyFor(r0, s).secondCon
    BY <2>10, <2>11
  <2>15. AreCopies(Spread(cs, r, chs), r, slots)
    BY <2>12, <2>13, <2>14, SpreadMakesCurrent
  <2> QED BY <2>5, <2>11, <2>15
<1>3. CASE a.reg \notin 160 .. 207
  <2>1. SpreadBy(a) = {}
    BY <1>3 DEF SpreadBy
  <2>2. /\ IsRegisters(r, slots) /\ r.fourOp = r0.fourOp /\ r.channel = r0.channel
    <3>1. CASE /\ SlotOfOffset(a.reg % 32) >= 0 /\ t \in DOMAIN r0.own /\ group \in {1, 2, 3, 4, 7}
      <4> PICK v : v = IF group = 7 THEN a.value % (IF r0.newm = 1 THEN 8 ELSE 4) ELSE a.value
        OBVIOUS
      <4> DEFINE new == [r0.own EXCEPT ![t][group] = v]
      <4>1. r = [r0 EXCEPT !.own = new]
        BY <1>3, <3>1 DEF ArrayWritten
      <4>2. new = [s \in slots |-> new[s]]
        BY DEF IsRegisters
      <4> HIDE DEF new
      <4>3. r = [x \in RegisterNames |-> IF x = "own" THEN new ELSE r0[x]]
        BY <4>1 DEF IsRegisters, RegisterNames
      <4>4. r.channel = r0.channel /\ r.own = new /\ r.newm = r0.newm /\ r.fourOp = r0.fourOp
            /\ r = [x \in RegisterNames |-> r[x]]
        BY <4>3 DEF RegisterNames
      <4> QED BY <4>2, <4>4 DEF IsRegisters
    <3>2. CASE ~(/\ SlotOfOffset(a.reg % 32) >= 0 /\ t \in DOMAIN r0.own
                 /\ group \in {1, 2, 3, 4, 7})
      <4>1. r = r0
        BY <1>3, <3>2 DEF ArrayWritten
      <4> QED BY <4>1
    <3> QED BY <3>1, <3>2
  <2>3. \A s \in slots : CopyFor(r, s) = CopyFor(r0, s)
    BY <2>2 DEF CopyFor
  <2>4. PICK chs : chs = SpreadBy(a)
    OBVIOUS
  <2>5. /\ \A s \in slots : ChannelOf(s) \notin chs =>
              \A x \in OwnNames : CopyFor(r, s)[x] = CopyFor(r0, s)[x]
        /\ \A s \in slots : FirstOf(s) \notin chs => CopyFor(r, s).firstCon = CopyFor(r0, s).firstCon
        /\ \A s \in slots : FirstOf(s) + 3 \notin chs => CopyFor(r, s).secondCon = CopyFor(r0, s).secondCon
    BY <2>3
  <2>6. AreCopies(Spread(cs, r, chs), r, slots)
    BY <2>5, SpreadMakesCurrent
  <2> QED BY <2>2, <2>4, <2>6
<1> QED BY <1>2, <1>3

\* A write that reaches the registers.
Written == [address : 0 .. 511, value : 0 .. 255]

\* The registers, the array and the copies, when the copies are what the registers hold.
IsCore(c, slots) ==
    /\ c = [registers |-> c.registers, array |-> c.array, copies |-> c.copies]
    /\ IsRegisters(c.registers, slots)
    /\ c.array \in Arrays
    /\ AreCopies(c.copies, c.registers, slots)

\* Registers that differ in neither a channel nor the chains have the same copies.
LEMMA SameCopies ==
    ASSUME NEW slots \in SUBSET (0..35), NEW r0, NEW r, NEW cs, AreCopies(cs, r0, slots),
           r.channel = r0.channel, r.fourOp = r0.fourOp
    PROVE  AreCopies(cs, r, slots)
<1>1. \A s \in slots : CopyFor(r, s) = CopyFor(r0, s)
  BY DEF CopyFor
<1> QED BY <1>1 DEF AreCopies

\* The chains that a write sets are spread to every slot.
LEMMA SpreadToAll ==
    ASSUME NEW slots \in SUBSET (0..35), NEW r0, NEW r, NEW cs, AreCopies(cs, r0, slots),
           r.channel = r0.channel
    PROVE  AreCopies(Spread(cs, r, 0 .. 17), r, slots)
<1>1. PICK chs : chs = 0 .. 17
  OBVIOUS
<1>2. /\ \A s \in slots : ChannelOf(s) \notin chs =>
            \A x \in OwnNames : CopyFor(r, s)[x] = CopyFor(r0, s)[x]
      /\ \A s \in slots : FirstOf(s) \notin chs => CopyFor(r, s).firstCon = CopyFor(r0, s).firstCon
  BY <1>1, ChannelsOfSlot
<1>3. ASSUME NEW s \in slots, FirstOf(s) + 3 \notin chs
      PROVE  CopyFor(r, s).secondCon = CopyFor(r0, s).secondCon
  <2>1. ~(ChainOf(s) >= 0)
    BY <1>1, <1>3, ChannelsOfSlot
  <2>2. ChainOf(s) < 0
    BY <2>1 DEF ChainOf, BankOf, RowOf
  <2> QED BY <2>2 DEF CopyFor
<1>4. AreCopies(Spread(cs, r, chs), r, slots)
  BY <1>2, <1>3, SpreadMakesCurrent
<1> QED BY <1>1, <1>4

\* A write to the chip as a whole leaves the copies what the registers hold.
LEMMA WholeKeepsCopies ==
    ASSUME NEW slots \in SUBSET (0..35), NEW c, IsCore(c, slots), NEW bank, NEW w \in Written
    PROVE  IsCore(WholeChip(c, bank, w), slots)
<1> DEFINE reg == w.address % 256
           d == WholeChip(c, bank, w)
           r0 == c.registers
<1>0. IsRegisters(r0, slots) /\ c.array \in Arrays /\ AreCopies(c.copies, r0, slots)
  BY DEF IsCore
<1>1. CASE reg = 5 /\ w.address >= 256
  <2> PICK v : v = w.value % 2
    OBVIOUS
  <2>0. v \in {0, 1}
    BY DEF Written
  <2> DEFINE r == [r0 EXCEPT !.newm = v]
  <2>1. d = [c EXCEPT !.registers = r]
    BY <1>1 DEF WholeChip
  <2>2. r = [x \in RegisterNames |-> IF x = "newm" THEN v ELSE r0[x]]
    BY <1>0 DEF IsRegisters, RegisterNames
  <2> HIDE DEF r
  <2>3. /\ r = [x \in RegisterNames |-> r[x]] /\ r.newm = v
        /\ r.own = r0.own /\ r.channel = r0.channel /\ r.fourOp = r0.fourOp
    BY <2>2 DEF RegisterNames
  <2>4. d = [registers |-> r, array |-> c.array, copies |-> c.copies]
    BY <2>1 DEF IsCore
  <2>5. IsRegisters(r, slots)
    BY <1>0, <2>0, <2>3 DEF IsRegisters
  <2>6. AreCopies(c.copies, r, slots)
    BY <1>0, <2>3, SameCopies
  <2> HIDE DEF d
  <2>7. IsCore(d, slots)
    BY <1>0, <2>4, <2>5, <2>6 DEF IsCore
  <2> QED BY <2>7 DEF d
<1>2. CASE ~(reg = 5 /\ w.address >= 256) /\ reg = 4 /\ bank = 1
  <2> PICK v : v = w.value % 64
    OBVIOUS
  <2> DEFINE r == [r0 EXCEPT !.fourOp = v]
             cs == Spread(c.copies, r, 0 .. 17)
  <2>1. d = [c EXCEPT !.registers = r, !.copies = cs]
    BY <1>2 DEF WholeChip
  <2>2. r = [x \in RegisterNames |-> IF x = "fourOp" THEN v ELSE r0[x]]
    BY <1>0 DEF IsRegisters, RegisterNames
  <2> HIDE DEF r
  <2>3. /\ r = [x \in RegisterNames |-> r[x]] /\ r.newm = r0.newm
        /\ r.own = r0.own /\ r.channel = r0.channel
    BY <2>2 DEF RegisterNames
  <2>4. AreCopies(cs, r, slots)
    BY <1>0, <2>3, SpreadToAll
  <2> HIDE DEF cs
  <2>5. d = [registers |-> r, array |-> c.array, copies |-> cs]
    BY <2>1 DEF IsCore
  <2>6. IsRegisters(r, slots)
    BY <1>0, <2>3 DEF IsRegisters
  <2> HIDE DEF d
  <2>7. IsCore(d, slots)
    BY <1>0, <2>4, <2>5, <2>6 DEF IsCore
  <2> QED BY <2>7 DEF d
<1>3. CASE ~(reg = 5 /\ w.address >= 256) /\ ~(reg = 4 /\ bank = 1) /\ reg = 8 /\ bank = 0
  <2> PICK v : v = Bit(w.value, 6)
    OBVIOUS
  <2> DEFINE r == [r0 EXCEPT !.whole.nts = v]
  <2>1. d = [c EXCEPT !.registers = r]
    BY <1>3 DEF WholeChip
  <2>2. r = [x \in RegisterNames |-> IF x = "whole" THEN r.whole ELSE r0[x]]
    BY <1>0 DEF IsRegisters, RegisterNames
  <2> HIDE DEF r
  <2>3. /\ r = [x \in RegisterNames |-> r[x]] /\ r.newm = r0.newm
        /\ r.own = r0.own /\ r.channel = r0.channel /\ r.fourOp = r0.fourOp
    BY <2>2 DEF RegisterNames
  <2>4. d = [registers |-> r, array |-> c.array, copies |-> c.copies]
    BY <2>1 DEF IsCore
  <2>5. IsRegisters(r, slots)
    BY <1>0, <2>3 DEF IsRegisters
  <2>6. AreCopies(c.copies, r, slots)
    BY <1>0, <2>3, SameCopies
  <2> HIDE DEF d
  <2>7. IsCore(d, slots)
    BY <1>0, <2>4, <2>5, <2>6 DEF IsCore
  <2> QED BY <2>7 DEF d
<1>4. CASE ~(reg = 5 /\ w.address >= 256) /\ ~(reg = 4 /\ bank = 1) /\ ~(reg = 8 /\ bank = 0)
  BY <1>4 DEF WholeChip
<1> QED BY <1>1, <1>2, <1>3, <1>4

\* A write that reaches the registers leaves the copies what they hold.
LEMMA AppliedKeepsCopies ==
    ASSUME NEW slots \in SUBSET (0..35), NEW c, IsCore(c, slots), NEW w \in Written
    PROVE  IsCore(Applied(c, w), slots)
<1> DEFINE reg == w.address % 256
           bank == IF c.registers.newm = 1 THEN w.address \div 256 ELSE 0
           a == [bank |-> bank, reg |-> reg, value |-> w.value]
           drums == IF reg = 189 /\ bank = 0
                    THEN [c EXCEPT !.registers = WithDrums(@, w)] ELSE c
<1>1. ASSUME NEW d, IsCore(d, slots), NEW b \in Arrays PROVE IsCore(Arrayed(d, b), slots)
  <2> DEFINE r == ArrayWritten(d.registers, b)
             cs == Spread(d.copies, r, SpreadBy(b))
  <2>0. IsRegisters(d.registers, slots) /\ d.array \in Arrays
        /\ AreCopies(d.copies, d.registers, slots)
    BY <1>1 DEF IsCore
  <2>1. IsRegisters(r, slots) /\ AreCopies(cs, r, slots)
    BY <1>1, <2>0, ArrayKeepsCopies
  <2>2. Arrayed(d, b) = [d EXCEPT !.registers = r, !.copies = cs]
    BY DEF Arrayed
  <2> HIDE DEF r, cs
  <2>3. Arrayed(d, b) = [registers |-> r, array |-> d.array, copies |-> cs]
    BY <1>1, <2>2 DEF IsCore
  <2> QED BY <2>0, <2>1, <2>3 DEF IsCore
<1>2. a \in Arrays
  <2>1. w.address \in 0 .. 511 /\ w.value \in 0 .. 255
    BY DEF Written
  <2>2. w.address \div 256 \in {0, 1} /\ reg \in 0 .. 255
    BY <2>1
  <2> QED BY <2>1, <2>2 DEF Arrays
<1>3. IsCore(drums, slots)
  <2>1. CASE reg = 189 /\ bank = 0
    <3> DEFINE r0 == c.registers
               r == WithDrums(r0, w)
    <3>0. IsRegisters(r0, slots) /\ c.array \in Arrays /\ AreCopies(c.copies, r0, slots)
      BY DEF IsCore
    <3>1. r = [x \in RegisterNames |-> r[x]] /\ r.newm = r0.newm
          /\ r.own = r0.own /\ r.channel = r0.channel /\ r.fourOp = r0.fourOp
      BY <3>0 DEF IsRegisters, RegisterNames, WithDrums
    <3> HIDE DEF r
    <3>2. drums = [registers |-> r, array |-> c.array, copies |-> c.copies]
      BY <2>1 DEF r, IsCore
    <3>3. IsRegisters(r, slots)
      BY <3>0, <3>1 DEF IsRegisters
    <3>4. AreCopies(c.copies, r, slots)
      BY <3>0, <3>1, SameCopies
    <3> HIDE DEF drums
    <3> QED BY <3>0, <3>2, <3>3, <3>4 DEF IsCore
  <2>2. CASE ~(reg = 189 /\ bank = 0)
    BY <2>2
  <2> QED BY <2>1, <2>2
<1>4. CASE reg < 32
  <2>1. Applied(c, w) = Arrayed(WholeChip(c, bank, w), c.array)
    BY <1>4 DEF Applied
  <2>2. IsCore(WholeChip(c, bank, w), slots) /\ c.array \in Arrays
    BY WholeKeepsCopies DEF IsCore
  <2> QED BY <1>1, <2>1, <2>2
<1>5. CASE ~(reg < 32)
  <2>1. Applied(c, w) = Arrayed([drums EXCEPT !.array = a], a)
    BY <1>5 DEF Applied
  <2> HIDE DEF a, drums
  <2>2. IsCore([drums EXCEPT !.array = a], slots)
    <3>1. [drums EXCEPT !.array = a]
             = [registers |-> drums.registers, array |-> a, copies |-> drums.copies]
      BY <1>3 DEF IsCore
    <3> QED BY <1>2, <1>3, <3>1 DEF IsCore
  <2> QED BY <1>1, <1>2, <2>1, <2>2
<1> QED BY <1>4, <1>5

-----------------------------------------------------------------------------
(* Induction, by sets.                                                     *)

\* A set of natural numbers that is not empty has a least element.
LEMMA LeastOfSet ==
    ASSUME NEW T \in SUBSET Nat, T # {}
    PROVE  \E x \in T : \A y \in T : x <= y
<1>1. PICK x \in T : \A y \in T : ~(<<y, x>> \in OpToRel(<, Nat))
  BY NatLessThanWellFounded, WFMin
<1>2. \A y \in T : ~(y < x)
  BY <1>1 DEF OpToRel
<1>3. x \in Nat /\ \A y \in T : y \in Nat
  OBVIOUS
<1> QED BY <1>2, <1>3

\* A set with 0, and with the successor of every number in it, has them all.
LEMMA InductionBySet ==
    ASSUME NEW T, 0 \in T, \A k \in Nat : k \in T => k + 1 \in T
    PROVE  \A k \in Nat : k \in T
<1> SUFFICES ASSUME Nat \ T # {} PROVE FALSE
  OBVIOUS
<1>1. PICK x \in Nat \ T : \A y \in Nat \ T : x <= y
  BY LeastOfSet
<1>2. x - 1 \in Nat \ T
  BY <1>1
<1> QED BY <1>1, <1>2

-----------------------------------------------------------------------------
(* The queue over a sample.                                                *)

\* What Scheduled is of a queue and a slot time, by a function for the rest.
ScheduledBy(g, x) ==
    LET q == x[1]  t == x[2]
    IN  IF q = <<>> \/ t >= 36
        THEN [queue |-> q, wait |-> IF t > 36 THEN t - 36 ELSE 0, now |-> None, next |-> None]
        ELSE IF ~Head(q).sent
             THEN g[<<Sends(q), AfterAddress(t)>>]
             ELSE LET rest == g[<<Tail(q), AfterData(t)>>]
                      sent == Landing(Head(q), t)
                  IN  IF t < 2
                      THEN IF rest.now.due THEN rest ELSE [rest EXCEPT !.now = sent]
                      ELSE IF rest.next.due THEN rest ELSE [rest EXCEPT !.next = sent]

\* The turns of generate()'s loop.
Turns == Seq(Entries) \X Nat
\* Those that many slot times or fewer from its end.
From(m) == {x \in Turns : x[2] + m >= 36}

\* A queue with its first address sent, or without its first write.
LEMMA QueueStaysOne ==
    ASSUME NEW q \in Seq(Entries), q # <<>>
    PROVE  /\ Sends(q) \in Seq(Entries) /\ Len(Sends(q)) = Len(q) /\ Tail(q) \in Seq(Entries)
           /\ Sends(q) # <<>> /\ Head(Sends(q)).sent /\ Tail(Sends(q)) = Tail(q)
           /\ Len(Tail(q)) = Len(q) - 1
<1>1. /\ Len(q) \in Nat \ {0} /\ DOMAIN q = 1 .. Len(q) /\ q[1] \in Entries
      /\ \A i \in 1 .. Len(q) : q[i] \in Entries
  OBVIOUS
<1>2. PICK a \in 0 .. 511, v \in 0 .. 255, b \in BOOLEAN : q[1] = [address |-> a, value |-> v, sent |-> b]
  <2> PICK e \in Entries : e = q[1]
    BY <1>1
  <2>1. e = [address |-> e.address, value |-> e.value, sent |-> e.sent]
        /\ e.address \in 0 .. 511 /\ e.value \in 0 .. 255 /\ e.sent \in BOOLEAN
    BY ONLY e \in Entries DEF Entries
  <2> QED BY ONLY <2>1, e = q[1]
<1> DEFINE one == [address |-> a, value |-> v, sent |-> TRUE]
<1>3. one \in Entries /\ one.sent
  BY DEF Entries
<1>4. Sends(q) = [q EXCEPT ![1] = one]
  <2>1. [address |-> q[1].address, value |-> q[1].value, sent |-> TRUE] = one
    BY <1>2
  <2> QED BY <1>1, <2>1 DEF Sends
<1> HIDE DEF one
<1>5. /\ Sends(q) \in Seq(Entries) /\ Len(Sends(q)) = Len(q)
      /\ Sends(q)[1] = one /\ \A i \in 2 .. Len(q) : Sends(q)[i] = q[i]
  BY <1>1, <1>3, <1>4
<1>6. Sends(q) # <<>> /\ Head(Sends(q)) = one /\ Head(q) = q[1]
  BY <1>1, <1>5
<1>7. Tail(Sends(q)) = Tail(q)
  BY <1>1, <1>5
<1>8. Tail(q) \in Seq(Entries) /\ Len(Tail(q)) = Len(q) - 1
  BY <1>1
<1> QED BY <1>3, <1>5, <1>6, <1>7, <1>8

\* The turns that a turn goes on to begin later.
LEMMA TurnsGoOn ==
    ASSUME NEW x \in Turns, x[1] # <<>>, CoreAssumption
    PROVE  /\ <<Sends(x[1]), AfterAddress(x[2])>> \in Turns
           /\ <<Tail(x[1]), AfterData(x[2])>> \in Turns
           /\ AfterAddress(x[2]) > x[2] /\ AfterData(x[2]) > x[2]
<1>1. x[1] \in Seq(Entries) /\ x[2] \in Nat
  BY DEF Turns
<1>2. AfterAddress(x[2]) \in Nat /\ AfterData(x[2]) \in Nat
      /\ AfterAddress(x[2]) > x[2] /\ AfterData(x[2]) > x[2]
  BY <1>1 DEF CoreAssumption, AfterAddress, AfterData
<1> QED BY <1>1, <1>2, QueueStaysOne DEF Turns

\* The turns near the end of a sample are given what the loop gives them.
IsScheduled(g, m) == g = [x \in From(m) |-> ScheduledBy(g, x)]

\* Two functions that agree on what a turn goes on to give it the same.
LEMMA ScheduledByAgrees ==
    ASSUME NEW f, NEW g, NEW x,
           f[<<Sends(x[1]), AfterAddress(x[2])>>] = g[<<Sends(x[1]), AfterAddress(x[2])>>],
           f[<<Tail(x[1]), AfterData(x[2])>>] = g[<<Tail(x[1]), AfterData(x[2])>>]
    PROVE  ScheduledBy(f, x) = ScheduledBy(g, x)
BY DEF ScheduledBy

\* There is a function that the recursion of Scheduled defines.
LEMMA ScheduledExists ==
    ASSUME CoreAssumption
    PROVE  \E g : g = [x \in Turns |-> ScheduledBy(g, x)]
<1> DEFINE T == {m \in Nat : \E g : IsScheduled(g, m)}
<1> DEFINE Ends(x) == [queue |-> x[1], wait |-> IF x[2] > 36 THEN x[2] - 36 ELSE 0,
                       now |-> None, next |-> None]
<1>0. ASSUME NEW g, NEW x, x[1] = <<>> \/ x[2] >= 36 PROVE ScheduledBy(g, x) = Ends(x)
  BY <1>0 DEF ScheduledBy
<1>1. 0 \in T
  <2> DEFINE g == [x \in From(0) |-> Ends(x)]
  <2>1. \A x \in From(0) : x[2] >= 36
    BY DEF From, Turns
  <2>2. \A x \in From(0) : g[x] = ScheduledBy(g, x)
    <3> HIDE DEF Ends
    <3>1. \A x \in From(0) : g[x] = Ends(x)
      OBVIOUS
    <3> HIDE DEF g
    <3> QED BY <1>0, <2>1, <3>1
  <2>3. g = [x \in From(0) |-> g[x]]
    OBVIOUS
  <2> HIDE DEF g
  <2>4. IsScheduled(g, 0)
    BY <2>2, <2>3 DEF IsScheduled
  <2> QED BY <2>4
<1> HIDE DEF Ends
<1>2. ASSUME NEW m \in Nat, m \in T PROVE m + 1 \in T
  <2>1. PICK f : IsScheduled(f, m)
    BY <1>2
  <2> DEFINE g == [x \in From(m + 1) |-> IF x \in From(m) THEN f[x] ELSE ScheduledBy(f, x)]
  <2>2. From(m) \subseteq From(m + 1)
    BY DEF From, Turns
  <2>3. ASSUME NEW x \in From(m + 1), ~(x[1] = <<>> \/ x[2] >= 36)
        PROVE  /\ <<Sends(x[1]), AfterAddress(x[2])>> \in From(m)
               /\ <<Tail(x[1]), AfterData(x[2])>> \in From(m)
    <3>1. x \in Turns /\ x[2] + (m + 1) >= 36 /\ x[2] \in Nat
      BY DEF From, Turns
    <3>2. /\ <<Sends(x[1]), AfterAddress(x[2])>> \in Turns
          /\ <<Tail(x[1]), AfterData(x[2])>> \in Turns
          /\ AfterAddress(x[2]) > x[2] /\ AfterData(x[2]) > x[2]
          /\ AfterAddress(x[2]) \in Nat /\ AfterData(x[2]) \in Nat
      <4>1. /\ <<Sends(x[1]), AfterAddress(x[2])>> \in Turns
            /\ <<Tail(x[1]), AfterData(x[2])>> \in Turns
            /\ AfterAddress(x[2]) > x[2] /\ AfterData(x[2]) > x[2]
        BY <2>3, <3>1, TurnsGoOn
      <4>2. AfterAddress(x[2]) \in Nat /\ AfterData(x[2]) \in Nat
        BY <4>1 DEF Turns
      <4> QED BY <4>1, <4>2
    <3> QED BY <3>1, <3>2 DEF From
  <2>4. \A x \in From(m) : f[x] = ScheduledBy(f, x)
    BY <2>1 DEF IsScheduled
  <2>5. \A x \in From(m) : g[x] = f[x]
    BY <2>2
  <2>6. \A x \in From(m + 1) : g[x] = ScheduledBy(f, x)
    BY <2>4
  <2>7. g = [x \in From(m + 1) |-> g[x]]
    OBVIOUS
  <2> HIDE DEF g
  <2>8. ASSUME NEW x \in From(m + 1) PROVE g[x] = ScheduledBy(g, x)
    <3>1. CASE x[1] = <<>> \/ x[2] >= 36
      BY <1>0, <2>6, <3>1
    <3>2. CASE ~(x[1] = <<>> \/ x[2] >= 36)
      <4>1. /\ g[<<Sends(x[1]), AfterAddress(x[2])>>] = f[<<Sends(x[1]), AfterAddress(x[2])>>]
            /\ g[<<Tail(x[1]), AfterData(x[2])>>] = f[<<Tail(x[1]), AfterData(x[2])>>]
        BY <2>3, <2>5, <3>2
      <4>2. ScheduledBy(f, x) = ScheduledBy(g, x)
        BY <4>1, ScheduledByAgrees
      <4> QED BY <2>6, <4>2
    <3> QED BY <3>1, <3>2
  <2>9. IsScheduled(g, m + 1)
    BY <2>7, <2>8 DEF IsScheduled
  <2> QED BY <2>9
<1> HIDE DEF T
<1>3. 36 \in T
  BY <1>1, <1>2, InductionBySet
<1>4. PICK g : IsScheduled(g, 36)
  BY <1>3 DEF T
<1>5. From(36) = Turns
  BY DEF From, Turns
<1> QED BY <1>4, <1>5 DEF IsScheduled

\* So that Scheduled is what its recursion says.
LEMMA ScheduledIs ==
    ASSUME CoreAssumption, NEW q \in Seq(Entries), NEW t \in Nat
    PROVE  Scheduled[<<q, t>>] = ScheduledBy(Scheduled, <<q, t>>)
<1>1. Scheduled = CHOOSE g : g = [x \in Turns |-> ScheduledBy(g, x)]
  BY DEF Scheduled, ScheduledBy, Turns
<1>2. Scheduled = [x \in Turns |-> ScheduledBy(Scheduled, x)]
  BY <1>1, ScheduledExists
<1>3. <<q, t>> \in Turns
  BY DEF Turns
<1> QED BY <1>2, <1>3

\* What a sample leaves when no data is sent in it.
NoneSent(q, t) ==
    [queue |-> q, wait |-> IF t > 36 THEN t - 36 ELSE 0, now |-> None, next |-> None]
\* When one is.
OneSent(q, t) ==
    [queue |-> Tail(q), wait |-> t + DataToAddress - 36,
     now |-> IF t < 2 THEN Landing(Head(q), t) ELSE None,
     next |-> IF t < 2 THEN None ELSE Landing(Head(q), t)]

\* A sample sends the data of one write at the most.
LEMMA ScheduledSent ==
    ASSUME CoreAssumption, NEW q \in Seq(Entries), NEW t \in Nat, q # <<>>, t < 36, Head(q).sent
    PROVE  Scheduled[<<q, t>>] = OneSent(q, t)
<1>1. /\ Tail(q) \in Seq(Entries) /\ AfterData(t) \in Nat /\ AfterData(t) >= 70
      /\ AfterData(t) = t + DataToAddress
  BY QueueStaysOne DEF CoreAssumption, AfterData
<1>2. Scheduled[<<Tail(q), AfterData(t)>>] = NoneSent(Tail(q), AfterData(t))
  <2>1. Scheduled[<<Tail(q), AfterData(t)>>]
           = ScheduledBy(Scheduled, <<Tail(q), AfterData(t)>>)
    BY <1>1, ScheduledIs
  <2> QED BY <1>1, <2>1 DEF ScheduledBy, NoneSent
<1>3. Scheduled[<<q, t>>] = ScheduledBy(Scheduled, <<q, t>>)
  BY ScheduledIs
<1> PICK l : l = Landing(Head(q), t)
  OBVIOUS
<1>4. NoneSent(Tail(q), AfterData(t))
         = [queue |-> Tail(q), wait |-> t + DataToAddress - 36, now |-> None, next |-> None]
  BY <1>1 DEF NoneSent
<1> PICK n : n = None
  OBVIOUS
<1> PICK rest : rest = [queue |-> Tail(q), wait |-> t + DataToAddress - 36, now |-> n, next |-> n]
  OBVIOUS
<1>5. rest.now = n /\ rest.next = n /\ ~n.due
  BY DEF None
<1>6. Scheduled[<<q, t>>] =
         IF t < 2 THEN IF rest.now.due THEN rest ELSE [rest EXCEPT !.now = l]
         ELSE IF rest.next.due THEN rest ELSE [rest EXCEPT !.next = l]
  <2>1. Scheduled[<<Tail(q), AfterData(t)>>] = rest
    BY <1>2, <1>4
  <2>2. Scheduled[<<q, t>>] =
          IF t < 2 THEN IF Scheduled[<<Tail(q), AfterData(t)>>].now.due
                        THEN Scheduled[<<Tail(q), AfterData(t)>>]
                        ELSE [Scheduled[<<Tail(q), AfterData(t)>>] EXCEPT !.now = Landing(Head(q), t)]
          ELSE IF Scheduled[<<Tail(q), AfterData(t)>>].next.due
               THEN Scheduled[<<Tail(q), AfterData(t)>>]
               ELSE [Scheduled[<<Tail(q), AfterData(t)>>] EXCEPT !.next = Landing(Head(q), t)]
    BY <1>3 DEF ScheduledBy
  <2> QED BY <2>1, <2>2
<1>7. /\ [rest EXCEPT !.now = l]
            = [queue |-> Tail(q), wait |-> t + DataToAddress - 36, now |-> l, next |-> n]
      /\ [rest EXCEPT !.next = l]
            = [queue |-> Tail(q), wait |-> t + DataToAddress - 36, now |-> n, next |-> l]
  <2> PICK tail, w : tail = Tail(q) /\ w = t + DataToAddress - 36
    OBVIOUS
  <2>1. rest = [queue |-> tail, wait |-> w, now |-> n, next |-> n]
    OBVIOUS
  <2>2. /\ [rest EXCEPT !.now = l] = [queue |-> tail, wait |-> w, now |-> l, next |-> n]
        /\ [rest EXCEPT !.next = l] = [queue |-> tail, wait |-> w, now |-> n, next |-> l]
    BY ONLY <2>1
  <2> QED BY <2>2
<1>8. OneSent(q, t) =
         [queue |-> Tail(q), wait |-> t + DataToAddress - 36,
          now |-> IF t < 2 THEN l ELSE n, next |-> IF t < 2 THEN n ELSE l]
  BY DEF OneSent
<1>9. CASE t < 2
  <2>1. Scheduled[<<q, t>>] = [rest EXCEPT !.now = l]
    BY <1>5, <1>6, <1>9
  <2> QED BY <1>7, <1>8, <1>9, <2>1
<1>10. CASE ~(t < 2)
  <2>1. Scheduled[<<q, t>>] = [rest EXCEPT !.next = l]
    BY <1>5, <1>6, <1>10
  <2> QED BY <1>7, <1>8, <1>10, <2>1
<1> QED BY <1>9, <1>10

\* What is sent in a sample, whatever has been sent when it begins.
LEMMA ScheduledForm ==
    ASSUME CoreAssumption, NEW q \in Seq(Entries), NEW t \in Nat
    PROVE  Scheduled[<<q, t>>] =
             IF q = <<>> \/ t >= 36 THEN NoneSent(q, t)
             ELSE IF Head(q).sent THEN OneSent(q, t)
             ELSE IF t + AddressToData >= 36 THEN NoneSent(Sends(q), t + AddressToData)
             ELSE OneSent(Sends(q), t + AddressToData)
<1>1. Scheduled[<<q, t>>] = ScheduledBy(Scheduled, <<q, t>>)
  BY ScheduledIs
<1>2. CASE q = <<>> \/ t >= 36
  BY <1>1, <1>2 DEF ScheduledBy, NoneSent
<1>3. CASE ~(q = <<>> \/ t >= 36) /\ Head(q).sent
  BY <1>3, ScheduledSent
<1>4. CASE ~(q = <<>> \/ t >= 36) /\ ~Head(q).sent
  <2>1. /\ Sends(q) \in Seq(Entries) /\ Sends(q) # <<>> /\ Head(Sends(q)).sent
        /\ AfterAddress(t) \in Nat /\ AfterAddress(t) = t + AddressToData
    BY <1>4, QueueStaysOne DEF CoreAssumption, AfterAddress
  <2>2. Scheduled[<<q, t>>] = Scheduled[<<Sends(q), AfterAddress(t)>>]
    BY <1>1, <1>4 DEF ScheduledBy
  <2>3. CASE AfterAddress(t) >= 36
    <3>1. Scheduled[<<Sends(q), AfterAddress(t)>>]
             = ScheduledBy(Scheduled, <<Sends(q), AfterAddress(t)>>)
      BY <2>1, ScheduledIs
    <3>2. ScheduledBy(Scheduled, <<Sends(q), AfterAddress(t)>>)
             = NoneSent(Sends(q), AfterAddress(t))
      BY <2>3 DEF ScheduledBy, NoneSent
    <3> QED BY <1>4, <2>1, <2>2, <2>3, <3>1, <3>2
  <2>4. CASE AfterAddress(t) < 36
    <3>1. Scheduled[<<Sends(q), AfterAddress(t)>>] = OneSent(Sends(q), AfterAddress(t))
      BY <2>1, <2>4, ScheduledSent
    <3> QED BY <1>4, <2>1, <2>2, <2>4, <3>1
  <2> QED BY <2>1, <2>3, <2>4
<1> QED BY <1>2, <1>3, <1>4

\* Only the first write has had its address sent.
Waiting(q) == q \in Seq(Entries) /\ \A i \in DOMAIN q : q[i].sent => i = 1

\* A write on its way, and the slot time at which it reaches the registers.
Landings == [due : {TRUE}, write : Written, at : 0 .. 35]

\* A sample that begins at slot time t with the queue q sends one write.
SendsOne(S, q, t) ==
    /\ Waiting(S.queue) /\ Len(S.queue) = Len(q) - 1
    /\ S.wait = t + DataToAddress - 36
    /\ t < 2 => S.now \in Landings /\ S.now.at = t + 34 /\ S.next = None
    /\ ~(t < 2) => S.next \in Landings /\ S.next.at = t - 2 /\ S.now = None

\* What one write sent leaves.
LEMMA OneSentGives ==
    ASSUME CoreAssumption, NEW q, Waiting(q), NEW t \in Nat, q # <<>>, t < 36
    PROVE  SendsOne(OneSent(q, t), q, t)
<1>1. /\ q \in Seq(Entries) /\ Tail(q) \in Seq(Entries) /\ Len(Tail(q)) = Len(q) - 1
      /\ Head(q) \in Entries
      /\ \A i \in DOMAIN Tail(q) : Tail(q)[i] = q[i + 1] /\ i + 1 \in DOMAIN q /\ i + 1 # 1
  BY DEF Waiting
<1>2. Waiting(Tail(q))
  BY <1>1 DEF Waiting
<1> PICK p \in Entries : p = Head(q)
  BY <1>1
<1>3. p.address \in 0 .. 511 /\ p.value \in 0 .. 255
  BY ONLY p \in Entries DEF Entries
<1>4. /\ Landing(p, t) \in Landings /\ Landing(p, t).due
      /\ t < 2 => Landing(p, t).at = t + 34
      /\ ~(t < 2) => Landing(p, t).at = t - 2
  BY <1>3 DEF Landing, Landings, Written
<1>5. ~None.due
  BY DEF None
<1>6. CASE t < 2
  BY <1>1, <1>2, <1>4, <1>5, <1>6 DEF OneSent, SendsOne
<1>7. CASE ~(t < 2)
  BY <1>1, <1>2, <1>4, <1>5, <1>7 DEF OneSent, SendsOne
<1> QED BY <1>6, <1>7

\* What a sample that begins at slot time t with the queue q leaves of it, and sends.
SampleLeaves(S, q, t) ==
    /\ Waiting(S.queue) /\ Len(S.queue) \in {Len(q), Len(q) - 1}
    /\ S.wait \in Nat
    /\ S.wait <= t \/ S.wait < DataToAddress + AddressToData
    /\ S.now \in Landings \cup {None} /\ S.next \in Landings \cup {None}
    /\ t >= 36 => S.queue = q /\ S.wait = t - 36 /\ ~S.now.due /\ ~S.next.due
    /\ t >= 2 => ~S.now.due
    /\ S.now.due => S.now.at \in {34, 35} /\ ~S.next.due /\ S.wait >= 34
    /\ S.next.due => S.next.at \in 0 .. 33 /\ S.wait >= S.next.at + 36

\* A sample that sends a write leaves what is left of its queue.
LEMMA SendsOneLeaves ==
    ASSUME CoreAssumption, NEW q, Len(q) \in Nat, NEW t \in Nat, NEW p, Len(p) = Len(q),
           NEW u \in Nat, u < 36, u >= t, NEW S, SendsOne(S, p, u)
    PROVE  SampleLeaves(S, q, t)
<1>0. /\ ~None.due /\ ~(t >= 36)
      /\ AddressToData \in Nat \ {0} /\ DataToAddress \in Nat /\ DataToAddress >= 70
  BY DEF None, CoreAssumption
<1>1. Waiting(S.queue) /\ Len(S.queue) = Len(q) - 1 /\ S.wait = u + DataToAddress - 36
  BY DEF SendsOne
<1>2. S.wait \in Nat /\ S.wait >= u + 34 /\ S.wait < DataToAddress + AddressToData
  BY <1>0, <1>1
<1>3. CASE u < 2
  <2>1. S.now \in Landings /\ S.now.at = u + 34 /\ S.next = None
    BY <1>3 DEF SendsOne
  <2>2. u + 34 \in {34, 35} /\ ~(t >= 2) /\ S.wait >= 34
    BY <1>2, <1>3
  <2>3. S.now.at \in {34, 35} /\ ~S.next.due
    BY <1>0, <2>1, <2>2
  <2> QED BY <1>0, <1>1, <1>2, <2>1, <2>2, <2>3 DEF SampleLeaves
<1>4. CASE ~(u < 2)
  <2>1. S.next \in Landings /\ S.next.at = u - 2 /\ S.now = None
    BY <1>4 DEF SendsOne
  <2>2. u - 2 \in 0 .. 33 /\ S.wait >= (u - 2) + 36
    BY <1>2, <1>4
  <2>3. ~S.now.due /\ S.next.at \in 0 .. 33 /\ S.wait >= S.next.at + 36
    BY <1>0, <2>1, <2>2
  <2> QED BY <1>0, <1>1, <1>2, <2>1, <2>3 DEF SampleLeaves
<1> QED BY <1>3, <1>4

\* Scheduled does.
LEMMA ScheduledGives ==
    ASSUME CoreAssumption, NEW q, Waiting(q), NEW t \in Nat
    PROVE  SampleLeaves(Scheduled[<<q, t>>], q, t)
<1> PICK S : S = Scheduled[<<q, t>>]
  OBVIOUS
<1> SUFFICES SampleLeaves(S, q, t)
  OBVIOUS
<1>0. q \in Seq(Entries) /\ ~None.due /\ Len(q) \in Nat
      /\ AddressToData \in Nat \ {0} /\ DataToAddress \in Nat /\ DataToAddress >= 70
  BY DEF Waiting, None, CoreAssumption
<1>1. CASE q = <<>> \/ t >= 36
  <2>1. S = NoneSent(q, t)
    BY <1>0, <1>1, ScheduledForm
  <2> QED BY <1>0, <1>1, <2>1 DEF NoneSent, SampleLeaves
<1>2. CASE ~(q = <<>> \/ t >= 36) /\ Head(q).sent
  <2>1. S = OneSent(q, t)
    BY <1>0, <1>2, ScheduledForm
  <2>2. SendsOne(S, q, t)
    BY <1>2, <2>1, OneSentGives
  <2>3. t < 36 /\ t >= t /\ Len(q) = Len(q)
    BY <1>2
  <2> QED BY <1>0, <2>2, <2>3, CoreAssumption, SendsOneLeaves
<1>3. CASE ~(q = <<>> \/ t >= 36) /\ ~Head(q).sent
  <2>0. PICK u \in Nat : u = t + AddressToData
    BY <1>0
  <2>1. /\ Sends(q) # <<>> /\ Len(Sends(q)) = Len(q) /\ Sends(q) \in Seq(Entries)
        /\ Waiting(Sends(q))
    <3>1. \A i \in DOMAIN q : i # 1 => Sends(q)[i] = q[i]
      BY <1>0 DEF Sends
    <3>2. /\ Sends(q) # <<>> /\ Len(Sends(q)) = Len(q) /\ Sends(q) \in Seq(Entries)
      BY <1>0, <1>3, QueueStaysOne
    <3>3. DOMAIN Sends(q) = DOMAIN q
      BY <1>0, <3>2
    <3> QED BY <3>1, <3>2, <3>3 DEF Waiting
  <2>2. CASE u >= 36
    <3>1. S = NoneSent(Sends(q), u)
      BY <1>0, <1>3, <2>0, <2>2, ScheduledForm
    <3> QED BY <1>0, <1>3, <2>0, <2>1, <2>2, <3>1 DEF NoneSent, SampleLeaves
  <2>3. CASE ~(u >= 36)
    <3>1. S = OneSent(Sends(q), u)
      BY <1>0, <1>3, <2>0, <2>3, ScheduledForm
    <3>2. SendsOne(S, Sends(q), u)
      BY <2>1, <2>3, <3>1, OneSentGives
    <3>3. u < 36 /\ u >= t
      BY <1>0, <2>0, <2>3
    <3> QED BY <1>0, <2>1, <3>2, <3>3, CoreAssumption, SendsOneLeaves
  <2> QED BY <2>2, <2>3
<1> QED BY <1>1, <1>2, <1>3

-----------------------------------------------------------------------------
(* What the slots read.                                                    *)

\* What each slot would read of the registers at once.
ReadsOf(c) == [s \in DOMAIN c.copies |-> Read(c.registers, c.copies[s], s)]

\* What every slot has read, by the names of the fields.
AreReads(h, slots) ==
    h = [s \in slots |-> h[s]] /\ \A s \in slots : h[s] = [f \in Fields |-> h[s][f]]

\* What slots have read when they read a before some slot time and b from it on.
Mixed(slots, a, b, at) ==
    [s \in slots |-> [f \in Fields |-> IF ReadTime[s][f] < at THEN a[s][f] ELSE b[s][f]]]

\* Nothing is read before the earliest slot time.
LEMMA ReadTimes ==
    ASSUME NEW s \in 0 .. 35, NEW f \in Fields
    PROVE  ReadTime[s][f] \in Int /\ ReadTime[s][f] >= Earliest
<1> DEFINE chainFirst == IF ChainOf(s) < 0 THEN s ELSE BankOf(s) * 18 + (RowOf(s) % 3)
           fourOp == IF ChainOf(s) < 0 THEN s ELSE BankOf(s) * 18 + 5 + (RowOf(s) % 3)
<1>1. chainFirst \in Nat /\ fourOp \in Nat /\ ConnectionTime(s) \in Int /\ ConnectionTime(s) >= -4
  BY DEF ChainOf, BankOf, RowOf, ConnectionTime
<1> HIDE DEF chainFirst, fourOp
<1>2. ReadTime[s] =
        [own |-> s - 1, fnum |-> s - 1, block |-> s - 1, key |-> s - 1, pan |-> s - 1,
         con |-> ConnectionTime(s), firstCon |-> chainFirst - 1, secondCon |-> chainFirst - 1,
         fb |-> s - 4, whole |-> s, rhythmKeys |-> 12, rhythmBefore |-> s - 1, rhythm |-> s,
         rhythmAfter |-> s + 2, fourOp |-> fourOp]
  BY DEF ReadTime, chainFirst, fourOp
<1> QED BY <1>1, <1>2 DEF Fields, Earliest

\* What would be read is told by the names of the fields, and is what the history
\* takes of the registers.
LEMMA ReadsAreReads ==
    ASSUME NEW slots, NEW c, IsCore(c, slots)
    PROVE  /\ AreReads(ReadsOf(c), slots)
           /\ \A time : Since(time, c.registers) = [at |-> time, reads |-> ReadsOf(c)]
<1>1. /\ c.copies = [s \in slots |-> CopyFor(c.registers, s)] /\ DOMAIN c.registers.own = slots
  BY DEF IsCore, AreCopies, IsRegisters
<1>2. ASSUME NEW r, NEW copy, NEW s PROVE Read(r, copy, s) = [f \in Fields |-> Read(r, copy, s)[f]]
  BY DEF Read, Fields
<1>3. ReadsOf(c) = [s \in slots |-> Read(c.registers, CopyFor(c.registers, s), s)]
  BY <1>1 DEF ReadsOf
<1>4. AreReads(ReadsOf(c), slots)
  BY <1>2, <1>3 DEF AreReads
<1> QED BY <1>1, <1>3, <1>4 DEF Since

\* relatch() has a slot read anew what it reads after the write.
LEMMA RelatchedIs ==
    ASSUME NEW slots \in SUBSET (0..35), NEW h, AreReads(h, slots),
           NEW c, IsCore(c, slots), NEW at \in Int
    PROVE  Relatched(h, c, -at) = Mixed(slots, h, ReadsOf(c), at)
<1>1. DOMAIN h = slots /\ DOMAIN c.copies = slots
  BY DEF AreReads, IsCore, AreCopies
<1>2. \A s \in slots : ReadsOf(c)[s] = Read(c.registers, c.copies[s], s)
  BY <1>1 DEF ReadsOf
<1>3. ASSUME NEW s \in slots, NEW f \in Fields
      PROVE  -at + ReadTime[s][f] >= 0 <=> ~(ReadTime[s][f] < at)
  BY ReadTimes
<1>4. Relatched(h, c, -at) =
         [s \in slots |-> [f \in Fields |-> IF -at + ReadTime[s][f] >= 0
                                            THEN ReadsOf(c)[s][f] ELSE h[s][f]]]
  BY <1>1, <1>2 DEF Relatched
<1>5. \A s \in slots : \A f \in Fields :
         (IF -at + ReadTime[s][f] >= 0 THEN ReadsOf(c)[s][f] ELSE h[s][f])
           = IF ReadTime[s][f] < at THEN h[s][f] ELSE ReadsOf(c)[s][f]
  BY <1>3
<1>6. \A s \in slots :
         [f \in Fields |-> IF -at + ReadTime[s][f] >= 0 THEN ReadsOf(c)[s][f] ELSE h[s][f]]
           = [f \in Fields |-> IF ReadTime[s][f] < at THEN h[s][f] ELSE ReadsOf(c)[s][f]]
  BY ONLY <1>5
<1> QED BY <1>4, <1>6 DEF Mixed

\* What is read from the earliest slot time on is all that is read.
LEMMA MixedAll ==
    ASSUME NEW slots \in SUBSET (0..35), NEW a, NEW b, AreReads(b, slots), NEW at \in Int,
           at <= Earliest
    PROVE  Mixed(slots, a, b, at) = b
<1>1. \A s \in slots : \A f \in Fields : ~(ReadTime[s][f] < at)
  BY ReadTimes DEF Earliest
<1>2. Mixed(slots, a, b, at) = [s \in slots |-> [f \in Fields |-> b[s][f]]]
  BY <1>1 DEF Mixed
<1> QED BY <1>2 DEF AreReads

\* What is mixed of two readings is one.
LEMMA MixedAreReads ==
    ASSUME NEW slots, NEW a, NEW b, NEW at
    PROVE  AreReads(Mixed(slots, a, b, at), slots)
BY DEF AreReads, Mixed

\* What a slot of the chip reads, when the registers last changed a while ago, and when
\* they changed since.
LEMMA ChipReadsOne ==
    ASSUME NEW slots \in SUBSET (0..35), NEW b, AreReads(b, slots),
           NEW h, DOMAIN h = {1}, Len(h) = 1, h[1].at = Earliest, h[1].reads = b
    PROVE  [s \in slots |-> ChipReads(h, s)] = b
<1>1. ASSUME NEW s \in slots, NEW f \in Fields
      PROVE  ChipReads(h, s)[f] = b[s][f]
  <2> PICK time \in Int : time = ReadTime[s][f] /\ time >= Earliest
    BY ReadTimes
  <2>1. /\ DOMAIN h = {1} /\ Len(h) = 1 /\ h[1].at <= time /\ h[1].reads = b
    BY DEF Earliest
  <2>2. (CHOOSE k \in DOMAIN h : h[k].at <= time /\ (k = Len(h) \/ h[k + 1].at > time)) = 1
    BY <2>1
  <2> QED BY <2>1, <2>2 DEF ChipReads
<1>2. \A s \in slots : ChipReads(h, s) = [f \in Fields |-> ChipReads(h, s)[f]]
  BY DEF ChipReads
<1>3. \A s \in slots : ChipReads(h, s) = b[s]
  BY <1>1, <1>2 DEF AreReads
<1> QED BY <1>3 DEF AreReads

\* When they changed since, the slots that had their turn read what was there before.
LEMMA ChipReadsTwo ==
    ASSUME NEW slots \in SUBSET (0..35), NEW a, NEW b, NEW at \in Int, at > Earliest,
           NEW h, DOMAIN h = {1, 2}, Len(h) = 2, h[1].at = Earliest, h[1].reads = a,
           h[2].at = at, h[2].reads = b
    PROVE  [s \in slots |-> ChipReads(h, s)] = Mixed(slots, a, b, at)
<1>1. ASSUME NEW s \in slots, NEW f \in Fields
      PROVE  ChipReads(h, s)[f] = IF ReadTime[s][f] < at THEN a[s][f] ELSE b[s][f]
  <2> PICK time \in Int : time = ReadTime[s][f] /\ time >= Earliest
    BY ReadTimes
  <2> DEFINE last == CHOOSE k \in DOMAIN h : h[k].at <= time /\ (k = Len(h) \/ h[k + 1].at > time)
  <2>1. /\ DOMAIN h = {1, 2} /\ Len(h) = 2 /\ h[1].at <= time /\ h[1].reads = a
        /\ h[2].at = at /\ h[2].reads = b
    BY DEF Earliest
  <2>2. ChipReads(h, s)[f] = h[last].reads[s][f]
    BY DEF ChipReads
  <2>3. CASE time < at
    <3>1. last = 1
      BY <2>1, <2>3
    <3> QED BY <2>1, <2>2, <2>3, <3>1
  <2>4. CASE ~(time < at)
    <3>1. last = 2
      BY <2>1, <2>4
    <3> QED BY <2>1, <2>2, <2>4, <3>1
  <2> QED BY <2>3, <2>4
<1>2. \A s \in slots : ChipReads(h, s) = [f \in Fields |-> ChipReads(h, s)[f]]
  BY DEF ChipReads
<1>3. \A s \in slots : ChipReads(h, s)
         = [f \in Fields |-> IF ReadTime[s][f] < at THEN a[s][f] ELSE b[s][f]]
  BY <1>1, <1>2
<1> QED BY <1>3 DEF Mixed

\* What one entry and one more are.
LEMMA AppendToOne ==
    ASSUME NEW x, NEW y
    PROVE  Append(<<x>>, y) = <<x, y>>
<1> DEFINE one == <<x>>
           two == <<x, y>>
<1>1. /\ one \in Seq({x, y}) /\ Len(one) = 1 /\ one[1] = x
      /\ two \in Seq({x, y}) /\ Len(two) = 2 /\ two[1] = x /\ two[2] = y
  OBVIOUS
<1> HIDE DEF one, two
<1> PICK u : u = Append(one, y)
  OBVIOUS
<1>2. u \in Seq({x, y}) /\ Len(u) = 2 /\ u[1] = x /\ u[2] = y
  BY <1>1
<1>3. \A i \in 1 .. Len(u) : u[i] = two[i]
  BY <1>1, <1>2
<1>4. u = two
  BY <1>1, <1>2, <1>3, SeqEqual
<1> QED BY <1>4 DEF one, two

\* The whole of a sequence, and the last of two.
LEMMA WholeOfOne ==
    ASSUME NEW x, NEW s, s = <<x>>
    PROVE  SubSeq(s, 1, Len(s)) = s
<1>1. s \in Seq({x})
  OBVIOUS
<1> QED BY <1>1, SubSeqFull

\* A sequence of two, whole and without its first.
LEMMA PartsOfTwo ==
    ASSUME NEW S, NEW s \in Seq(S), Len(s) = 2
    PROVE  SubSeq(s, 1, Len(s)) = s /\ SubSeq(s, 2, Len(s)) = <<s[2]>>
<1> PICK y : y = s[2]
  OBVIOUS
<1>1. y \in S
  OBVIOUS
<1>2. SubSeq(s, 1, Len(s)) = s
  BY <1>1, SubSeqFull
<1> PICK u : u = SubSeq(s, 2, 2)
  OBVIOUS
<1>3. u \in Seq(S) /\ Len(u) = 1 /\ u[1] = s[2]
  BY <1>1, SubSeqProperties
<1>4. \A i \in 1 .. 1 : u[i] = <<y>>[i]
  BY <1>1, <1>3
<1>5. <<y>> \in Seq(S) /\ Len(<<y>>) = 1
  BY <1>1
<1>6. u = <<y>>
  BY <1>3, <1>4, <1>5, SeqEqual
<1> QED BY <1>1, <1>2, <1>6

\* What is kept of the history after a pass.
LEMMA RecentOne ==
    ASSUME NEW b
    PROVE  Recent(<<[at |-> Earliest, reads |-> b]>>) = <<[at |-> Earliest, reads |-> b]>>
<1> PICK h : h = <<[at |-> Earliest, reads |-> b]>>
  OBVIOUS
<1> DEFINE moved == [k \in DOMAIN h |-> [h[k] EXCEPT !.at = @ - 36]]
<1>1. DOMAIN h = {1} /\ h[1] = [at |-> Earliest, reads |-> b]
  OBVIOUS
<1>2. moved = <<[at |-> -40, reads |-> b]>>
  BY <1>1 DEF Earliest
<1> HIDE DEF moved
<1>3. {k \in DOMAIN moved : moved[k].at <= Earliest} \cup {1} = {1}
  BY <1>2
<1>4. Max({1}) = 1
  BY DEF Max
<1>5. SubSeq(moved, 1, Len(moved)) = moved
  BY <1>2, WholeOfOne
<1>6. Recent(h) = [moved EXCEPT ![1].at = Earliest]
  BY <1>3, <1>4, <1>5 DEF Recent, moved
<1> QED BY <1>2, <1>6

\* A change of the registers is kept for as long as some slot may read what was before it.
LEMMA RecentTwo ==
    ASSUME NEW a, NEW b, NEW at \in Int
    PROVE  Recent(<<[at |-> Earliest, reads |-> a], [at |-> at, reads |-> b]>>)
             = IF at - 36 <= Earliest THEN <<[at |-> Earliest, reads |-> b]>>
               ELSE <<[at |-> Earliest, reads |-> a], [at |-> at - 36, reads |-> b]>>
<1> PICK h : h = <<[at |-> Earliest, reads |-> a], [at |-> at, reads |-> b]>>
  OBVIOUS
<1> DEFINE moved == [k \in DOMAIN h |-> [h[k] EXCEPT !.at = @ - 36]]
<1>1. DOMAIN h = 1 .. 2 /\ h[1] = [at |-> Earliest, reads |-> a] /\ h[2] = [at |-> at, reads |-> b]
  OBVIOUS
<1>2. moved = <<[at |-> -40, reads |-> a], [at |-> at - 36, reads |-> b]>>
  BY <1>1 DEF Earliest
<1> DEFINE first == Max({k \in DOMAIN moved : moved[k].at <= Earliest} \cup {1})
           kept == SubSeq(moved, first, Len(moved))
<1>3. Recent(h) = [kept EXCEPT ![1].at = Earliest]
  BY DEF Recent
<1> HIDE DEF moved
<1> PICK y : y = [at |-> at - 36, reads |-> b]
  OBVIOUS
<1>4. SubSeq(moved, 1, Len(moved)) = moved /\ SubSeq(moved, 2, Len(moved)) = <<y>>
  <2> PICK x : x = [at |-> -40, reads |-> a]
    OBVIOUS
  <2>1. moved \in Seq({x, y}) /\ Len(moved) = 2 /\ moved[2] = y
    BY <1>2
  <2> QED BY <2>1, PartsOfTwo
<1>5. CASE at - 36 <= Earliest
  <2>1. {k \in DOMAIN moved : moved[k].at <= Earliest} \cup {1} = {1, 2}
    BY <1>2, <1>5 DEF Earliest
  <2>2. Max({1, 2}) = 2
    BY DEF Max
  <2>3. SubSeq(moved, 2, Len(moved)) = <<[at |-> at - 36, reads |-> b]>>
    BY <1>4
  <2>4. kept = <<[at |-> at - 36, reads |-> b]>>
    BY <2>1, <2>2, <2>3
  <2> HIDE DEF kept
  <2>5. [kept EXCEPT ![1].at = Earliest] = <<[at |-> Earliest, reads |-> b]>>
    BY <2>4
  <2> QED BY <1>3, <1>5, <2>5
<1>6. CASE ~(at - 36 <= Earliest)
  <2>1. {k \in DOMAIN moved : moved[k].at <= Earliest} \cup {1} = {1}
    BY <1>2, <1>6 DEF Earliest
  <2>2. Max({1}) = 1
    BY DEF Max
  <2>3. SubSeq(moved, 1, Len(moved)) = moved
    BY <1>4
  <2>4. kept = moved
    BY <2>1, <2>2, <2>3
  <2> HIDE DEF kept
  <2>5. [kept EXCEPT ![1].at = Earliest]
           = <<[at |-> Earliest, reads |-> a], [at |-> at - 36, reads |-> b]>>
    BY <1>2, <2>4
  <2> QED BY <1>3, <1>6, <2>5
<1> QED BY <1>5, <1>6

-----------------------------------------------------------------------------
(* The invariant.                                                          *)

\* The slots watched.
Slots == DOMAIN copies

\* Everything is of its type, and the copies are what the registers hold.
CoreTypes ==
    /\ Slots \in SUBSET (0..35) /\ IsCore(Chip, Slots)
    /\ Waiting(queue) /\ Len(queue) <= QueueSize
    /\ wait \in Nat /\ wait <= DataToAddress + AddressToData
    /\ next \in Landings \cup {None} /\ (next.due => next.at \in 0..33)
    /\ age \in -1..2 /\ landed \in Earliest..35
    /\ AreReads(held, Slots)

\* A write that is due in the next pass has the sample before it to itself.
WritesApart == next.due => wait >= next.at + 36

\* The registers are read as they stand by every slot in the next pass,
ReadAtOnce ==
    /\ history = <<[at |-> Earliest, reads |-> ReadsOf(Chip)]>>
    /\ age = -1 => held = ReadsOf(Chip)
    /\ age >= 0 => landed - 36 * age <= Earliest

\* or the last write landed so late in the pass before that some slots read what
\* was there before it, and then no write is due.
ReadInTurn ==
    /\ history = <<[at |-> Earliest, reads |-> history[1].reads],
                   [at |-> landed - 36, reads |-> ReadsOf(Chip)]>>
    /\ age = 1 /\ landed \in 33..35 /\ ~next.due /\ wait >= 2
    /\ \A s \in Slots : \A f \in Fields :
          ReadTime[s][f] < landed - 36 => held[s][f] = history[1].reads[s][f]

\* The inductive invariant. That the slots read as the chip does follows from the
\* registers being read at once or in turn only for as long as no second write can
\* land before the first is read everywhere, which is what the wait left after a
\* write that is due says.
CoreIInv ==
    CoreTypes /\ WritesApart /\ (ReadAtOnce \/ ReadInTurn) /\ SlotsReadAsTheChipDoes

\* The chip begins with its registers read.
LEMMA CoreBegins ==
    ASSUME CoreAssumption, NEW slots \in SUBSET (0..35), NEW newm \in {0, 1},
           CoreStarts(newm, slots)
    PROVE  CoreIInv
<1> DEFINE r == [NoRegisters(slots) EXCEPT !.newm = newm]
<1>1. /\ queue = <<>> /\ wait = 0 /\ next = None
      /\ registers = r /\ array = NoArray
      /\ copies = [s \in slots |-> CopyFor(r, s)]
      /\ held = [s \in slots |-> Read(r, CopyFor(r, s), s)]
      /\ age = -1 /\ landed = Earliest
      /\ history = <<Since(Earliest, r)>>
      /\ chip = held
  BY DEF CoreStarts
<1>2. IsRegisters(r, slots)
  <2> DEFINE own == [s \in slots |-> [g \in {1, 2, 3, 4, 7} |-> 0]]
             channel == [c \in ChannelsFor(slots) |->
                          [fnum |-> 0, block |-> 0, key |-> 0, con |-> 0, conPair |-> 0, fb |-> 0,
                           pan |-> 3]]
  <2>1. IsChannel([fnum |-> 0, block |-> 0, key |-> 0, con |-> 0, conPair |-> 0, fb |-> 0,
                   pan |-> 3])
    BY DEF IsChannel, ChannelNames
  <2>2. own = [s \in slots |-> own[s]] /\ channel = [c \in ChannelsFor(slots) |-> channel[c]]
        /\ \A c \in ChannelsFor(slots) : IsChannel(channel[c])
    BY <2>1
  <2> PICK none : none = NoRegisters(slots)
    OBVIOUS
  <2>4. none.own = own /\ none.channel = channel /\ none = [x \in RegisterNames |-> none[x]]
    BY DEF NoRegisters, RegisterNames
  <2>5. r = [none EXCEPT !.newm = newm]
    OBVIOUS
  <2> HIDE DEF own, channel, r
  <2>3. r.own = own /\ r.channel = channel /\ r.newm = newm /\ r = [x \in RegisterNames |-> r[x]]
    BY ONLY <2>4, <2>5 DEF RegisterNames
  <2> QED BY <2>2, <2>3 DEF IsRegisters
<1> HIDE DEF r
<1>3. NoArray \in Arrays
  BY DEF NoArray, Arrays
<1>4. Slots = slots /\ AreCopies(copies, registers, slots)
  BY <1>1 DEF Slots, AreCopies
<1>5. IsCore(Chip, slots)
  BY <1>1, <1>2, <1>3, <1>4 DEF IsCore, Chip
<1>6. AreReads(ReadsOf(Chip), slots)
      /\ Since(Earliest, Chip.registers) = [at |-> Earliest, reads |-> ReadsOf(Chip)]
  BY <1>5, ReadsAreReads
<1>7. held = ReadsOf(Chip) /\ Chip.registers = r
  BY <1>1 DEF ReadsOf, Chip
<1>8. Waiting(queue) /\ Len(queue) = 0 /\ ~next.due /\ next = None
  BY <1>1 DEF Waiting, None
<1>9. CoreTypes
  <2>1. Slots \in SUBSET (0..35) /\ IsCore(Chip, Slots) /\ AreReads(held, Slots)
    BY <1>4, <1>5, <1>6, <1>7
  <2>2. Len(queue) <= QueueSize /\ wait \in Nat /\ wait <= DataToAddress + AddressToData
    BY <1>1, <1>8 DEF CoreAssumption
  <2>3. age \in -1..2 /\ landed \in Earliest..35
    BY <1>1 DEF Earliest
  <2> QED BY <1>8, <2>1, <2>2, <2>3 DEF CoreTypes
<1>10. ReadAtOnce
  BY <1>1, <1>6, <1>7 DEF ReadAtOnce
<1> QED BY <1>1, <1>8, <1>9, <1>10 DEF CoreIInv, WritesApart, SlotsReadAsTheChipDoes

\* A write that waits.
LEMMA WriteWaits ==
    ASSUME CoreAssumption, NEW q, Waiting(q), NEW w \in Written
    PROVE  Waiting(Append(q, Pending(w))) /\ Len(Append(q, Pending(w))) = Len(q) + 1
<1>1. Pending(w) \in Entries /\ ~Pending(w).sent
  BY DEF Pending, Entries, Written
<1> PICK p : p = Pending(w)
  OBVIOUS
<1>2. q \in Seq(Entries) /\ Append(q, p) \in Seq(Entries) /\ Len(Append(q, p)) = Len(q) + 1
  BY <1>1 DEF Waiting
<1>3. \A i \in DOMAIN Append(q, p) :
         (i \in DOMAIN q /\ Append(q, p)[i] = q[i]) \/ Append(q, p)[i] = p
  BY <1>1, <1>2
<1>4. Waiting(Append(q, p))
  BY <1>1, <1>2, <1>3 DEF Waiting
<1> QED BY <1>2, <1>4

\* The oldest write gone.
LEMMA OldestGoes ==
    ASSUME NEW q, Waiting(q), q # <<>>
    PROVE  /\ Waiting(Tail(q)) /\ Len(Tail(q)) = Len(q) - 1 /\ Head(q) \in Entries
<1>1. /\ q \in Seq(Entries) /\ Tail(q) \in Seq(Entries) /\ Len(Tail(q)) = Len(q) - 1
      /\ Head(q) \in Entries
      /\ \A i \in DOMAIN Tail(q) : Tail(q)[i] = q[i + 1] /\ i + 1 \in DOMAIN q /\ i + 1 # 1
  BY DEF Waiting
<1> QED BY <1>1 DEF Waiting

\* write() with room in the queue.
LEMMA WriteKeepsCore ==
    ASSUME CoreAssumption, CoreIInv, NEW w \in Writes, Write(w)
    PROVE  CoreIInv'
<1>1. w \in Written
  BY DEF CoreAssumption, Written
<1>2. /\ Waiting(queue') /\ Len(queue') <= QueueSize
  <2>1. Waiting(queue) /\ Len(queue) \in Nat /\ Len(queue) < QueueSize
    BY DEF CoreIInv, CoreTypes, Waiting, Write
  <2>2. Waiting(queue') /\ Len(queue') = Len(queue) + 1
    BY <1>1, <2>1, WriteWaits DEF Write
  <2> QED BY <2>1, <2>2 DEF CoreAssumption
<1>3. UNCHANGED <<wait, next, registers, array, copies, held, age, landed, history, chip>>
  BY DEF Write
<1>4. Chip' = Chip /\ Slots' = Slots
  BY <1>3 DEF Chip, Slots
<1>5. CoreTypes'
  BY <1>2, <1>3, <1>4 DEF CoreIInv, CoreTypes
<1>6. (ReadAtOnce \/ ReadInTurn)'
  BY <1>3, <1>4 DEF CoreIInv, ReadAtOnce, ReadInTurn
<1> QED BY <1>3, <1>5, <1>6 DEF CoreIInv, WritesApart, SlotsReadAsTheChipDoes

\* What the registers, the array and the copies become.
LEMMA ChipBecomes ==
    ASSUME NEW slots, NEW c, IsCore(c, slots),
           registers' = c.registers, array' = c.array, copies' = c.copies
    PROVE  Chip' = c /\ Slots' = slots
<1>1. c = [registers |-> c.registers, array |-> c.array, copies |-> c.copies]
      /\ DOMAIN c.copies = slots
  BY DEF IsCore, AreCopies
<1> QED BY <1>1 DEF Chip, Slots

\* write() with a full queue.
LEMMA WriteWhenFullKeepsCore ==
    ASSUME CoreAssumption, CoreIInv, NEW w \in Writes, WriteWhenFull(w)
    PROVE  CoreIInv'
<1>0. PICK slots : slots = Slots
  OBVIOUS
<1>1. w \in Written /\ slots \in SUBSET (0..35) /\ IsCore(Chip, slots)
  BY <1>0 DEF CoreAssumption, Written, CoreIInv, CoreTypes
<1>2. Waiting(queue) /\ Len(queue) = QueueSize /\ queue # <<>>
  <2>1. Waiting(queue) /\ Len(queue) = QueueSize
    BY DEF CoreIInv, CoreTypes, WriteWhenFull
  <2> QED BY <2>1 DEF CoreAssumption
<1>3. /\ Waiting(queue') /\ Len(queue') <= QueueSize
  <2>1. Waiting(Tail(queue)) /\ Len(Tail(queue)) = Len(queue) - 1
    BY <1>2, OldestGoes
  <2>2. Waiting(queue') /\ Len(queue') = Len(Tail(queue)) + 1
    BY <1>1, <2>1, WriteWaits DEF WriteWhenFull
  <2> QED BY <1>2, <2>1, <2>2 DEF CoreAssumption
<1>4. PICK c : /\ c = Applied(Chip, Head(queue))
               /\ registers' = c.registers /\ array' = c.array /\ copies' = c.copies
               /\ history' = <<Since(Earliest, c.registers)>>
  BY DEF WriteWhenFull
<1>5. IsCore(c, slots)
  <2>1. PICK p : p = Head(queue)
    OBVIOUS
  <2>2. p \in Entries
    BY <1>2, <2>1, OldestGoes
  <2>3. PICK v : v \in Written /\ v.address = p.address /\ v.value = p.value
    <3>1. [address |-> p.address, value |-> p.value] \in Written
      BY <2>2 DEF Entries, Written
    <3> QED BY <3>1
  <2>4. Applied(Chip, p) = Applied(Chip, v)
    BY <2>3 DEF Applied, WholeChip, WithDrums
  <2>5. IsCore(Applied(Chip, v), slots)
    BY <1>1, <2>3, AppliedKeepsCopies
  <2> QED BY <1>4, <2>1, <2>4, <2>5
<1>6. Chip' = c /\ Slots' = slots
  BY <1>4, <1>5, ChipBecomes
<1>7. history' = <<[at |-> Earliest, reads |-> ReadsOf(c)]>>
  BY <1>4, <1>5, ReadsAreReads
<1>8. age' = 0 /\ landed' = Earliest /\ UNCHANGED <<wait, next, held, chip>>
  BY DEF WriteWhenFull
<1>9. CoreTypes'
  BY <1>0, <1>1, <1>3, <1>5, <1>6, <1>8 DEF CoreIInv, CoreTypes, Earliest
<1>10. ReadAtOnce'
  BY <1>6, <1>7, <1>8 DEF ReadAtOnce, Earliest
<1> QED BY <1>8, <1>9, <1>10 DEF CoreIInv, WritesApart, SlotsReadAsTheChipDoes

\* What the slots hold once the last write has been read as far as a pass reads it.
LateOf(h, c, a, l) == IF a >= 0 THEN Relatched(h, c, 36 * a - l) ELSE h

\* The registers as they stand, when they were read before or are now by every slot,
LEMMA LateAtOnce ==
    ASSUME NEW slots \in SUBSET (0..35), NEW c, IsCore(c, slots),
           NEW h, AreReads(h, slots), NEW a \in -1 .. 2, NEW l \in Earliest .. 35,
           a = -1 => h = ReadsOf(c), a >= 0 => l - 36 * a <= Earliest
    PROVE  LateOf(h, c, a, l) = ReadsOf(c)
<1>1. CASE a = -1
  BY <1>1 DEF LateOf
<1>2. CASE a # -1
  <2>1. PICK at \in Int : at = l - 36 * a /\ at <= Earliest
    BY <1>2 DEF Earliest
  <2>2. 36 * a - l = -at
    BY <2>1 DEF Earliest
  <2>3. LateOf(h, c, a, l) = Relatched(h, c, -at)
    BY <1>2, <2>2 DEF LateOf
  <2>4. Relatched(h, c, -at) = Mixed(slots, h, ReadsOf(c), at)
    BY RelatchedIs
  <2>5. AreReads(ReadsOf(c), slots)
    BY ReadsAreReads
  <2>6. Mixed(slots, h, ReadsOf(c), at) = ReadsOf(c)
    BY <2>1, <2>5, MixedAll
  <2> QED BY <2>3, <2>4, <2>6
<1> QED BY <1>1, <1>2

\* and otherwise what was there before a write, where it is read before it landed.
LEMMA LateInTurn ==
    ASSUME NEW slots \in SUBSET (0..35), NEW c, IsCore(c, slots),
           NEW h, AreReads(h, slots), NEW l \in Earliest .. 35,
           NEW at \in Int, at = l - 36, NEW old,
           \A s \in slots : \A f \in Fields : ReadTime[s][f] < at => h[s][f] = old[s][f]
    PROVE  LateOf(h, c, 1, l) = Mixed(slots, old, ReadsOf(c), at)
<1>1. 36 * 1 - l = -at /\ 1 >= 0
  BY DEF Earliest
<1>2. LateOf(h, c, 1, l) = Relatched(h, c, -at)
  BY <1>1 DEF LateOf
<1>3. Relatched(h, c, -at) = Mixed(slots, h, ReadsOf(c), at)
  BY RelatchedIs
<1>4. Mixed(slots, h, ReadsOf(c), at) = Mixed(slots, old, ReadsOf(c), at)
  BY DEF Mixed
<1> QED BY <1>2, <1>3, <1>4

\* generate().
LEMMA GenerateKeepsCore ==
    ASSUME CoreAssumption, CoreIInv, Generate
    PROVE  CoreIInv'
<1>0. PICK slots, c0, S, late : /\ slots = Slots /\ c0 = Chip /\ S = Scheduled[<<queue, wait>>]
                               /\ late = LateOf(held, c0, age, landed)
  OBVIOUS
<1>1. /\ slots \in SUBSET (0..35) /\ IsCore(c0, slots) /\ Waiting(queue) /\ wait \in Nat
      /\ age \in -1 .. 2 /\ landed \in Earliest .. 35 /\ AreReads(held, slots)
      /\ next \in Landings \cup {None} /\ (next.due => next.at \in 0..33)
      /\ next.due => wait >= next.at + 36
      /\ ReadAtOnce \/ ReadInTurn
      /\ chip = held
  BY <1>0 DEF CoreIInv, CoreTypes, WritesApart, SlotsReadAsTheChipDoes
<1>2. /\ Waiting(S.queue) /\ Len(S.queue) \in {Len(queue), Len(queue) - 1}
      /\ S.wait \in Nat
      /\ S.wait <= wait \/ S.wait < DataToAddress + AddressToData
      /\ S.now \in Landings \cup {None} /\ S.next \in Landings \cup {None}
      /\ wait >= 36 => S.queue = queue /\ S.wait = wait - 36 /\ ~S.now.due /\ ~S.next.due
      /\ wait >= 2 => ~S.now.due
      /\ S.now.due => S.now.at \in {34, 35} /\ ~S.next.due /\ S.wait >= 34
      /\ S.next.due => S.next.at \in 0 .. 33 /\ S.wait >= S.next.at + 36
  <2>1. SampleLeaves(S, queue, wait)
    BY <1>0, <1>1, ScheduledGives
  <2> QED BY <2>1 DEF SampleLeaves
<1>3. PICK due, c, was :
         /\ due = IF S.now.due THEN S.now ELSE next
         /\ c = IF due.due THEN Applied(c0, due.write) ELSE c0
         /\ was = IF due.due THEN Append(history, Since(due.at, c.registers)) ELSE history
         /\ OnePass(S, due, c, was)
  <2>1. PICK due \in {IF Scheduled[<<queue, wait>>].now.due
                      THEN Scheduled[<<queue, wait>>].now ELSE next} :
        \E c \in {IF due.due THEN Applied(Chip, due.write) ELSE Chip} :
        \E was \in {IF due.due THEN Append(history, Since(due.at, c.registers)) ELSE history} :
           OnePass(Scheduled[<<queue, wait>>], due, c, was)
    BY DEF Generate
  <2>2. PICK c, was :
           /\ c = IF due.due THEN Applied(Chip, due.write) ELSE Chip
           /\ was = IF due.due THEN Append(history, Since(due.at, c.registers)) ELSE history
           /\ OnePass(Scheduled[<<queue, wait>>], due, c, was)
    BY <2>1
  <2>3. due = (IF S.now.due THEN S.now ELSE next) /\ OnePass(S, due, c, was)
    BY <1>0, <2>1, <2>2
  <2> QED BY <1>0, <2>2, <2>3
<1>4. c = IF due.due THEN Applied(c0, due.write) ELSE c0
  BY <1>3
<1>5. was = IF due.due THEN Append(history, Since(due.at, c.registers)) ELSE history
  BY <1>3
<1>6. /\ queue' = S.queue /\ wait' = S.wait /\ next' = S.next
      /\ registers' = c.registers /\ array' = c.array /\ copies' = c.copies
      /\ held' = IF due.due THEN Relatched(late, c, -due.at) ELSE late
      /\ age' = IF due.due THEN 1
                ELSE IF age >= 0 /\ AgeRead >= 0 THEN age + 1 ELSE -1
      /\ landed' = IF due.due THEN due.at ELSE landed
      /\ chip' = [s \in DOMAIN chip |-> ChipReads(was, s)]
      /\ history' = Recent(was)
  <2>1. late = Late
    BY <1>0 DEF Late, LateOf
  <2> QED BY <1>3, <2>1 DEF OnePass
<1>7. /\ due \in Landings \cup {None}
      /\ due.due => due.at \in 0 .. 35 /\ due.write \in Written /\ due \in Landings
  <2>1. due \in Landings \cup {None} /\ ~None.due
    BY <1>1, <1>2, <1>3 DEF None
  <2> QED BY <2>1 DEF Landings
<1>8. IsCore(c, slots)
  BY <1>1, <1>4, <1>7, AppliedKeepsCopies
<1>9. Chip' = c /\ Slots' = slots
  BY <1>6, <1>8, ChipBecomes
<1>10. AreReads(ReadsOf(c), slots) /\ AreReads(ReadsOf(c0), slots) /\ DOMAIN chip = slots
  <2>1. AreReads(ReadsOf(c), slots) /\ AreReads(ReadsOf(c0), slots)
    BY <1>1, <1>8, ReadsAreReads
  <2> QED BY <1>1, <2>1 DEF AreReads
<1>11. Len(queue') <= QueueSize /\ wait' <= DataToAddress + AddressToData
  <2>1. /\ Len(queue) <= QueueSize /\ wait <= DataToAddress + AddressToData /\ Len(queue) \in Nat
    BY DEF CoreIInv, CoreTypes, Waiting
  <2> QED BY <1>1, <1>2, <1>6, <2>1 DEF CoreAssumption
<1>12. /\ next' \in Landings \cup {None} /\ (next'.due => next'.at \in 0..33)
       /\ next'.due => wait' >= next'.at + 36
  BY <1>2, <1>6
<1>13. SUFFICES /\ age' \in -1 .. 2 /\ landed' \in Earliest .. 35
                /\ AreReads(held', slots) /\ chip' = held'
                /\ (ReadAtOnce \/ ReadInTurn)'
  <2>1. CoreTypes'
    BY <1>1, <1>2, <1>6, <1>8, <1>9, <1>11, <1>12, <1>13 DEF CoreTypes
  <2> QED BY <1>12, <1>13, <2>1 DEF CoreIInv, WritesApart, SlotsReadAsTheChipDoes
<1>14. CASE ~due.due
  <2>0. /\ c = c0 /\ was = history /\ held' = late /\ landed' = landed /\ history' = Recent(history)
        /\ chip' = [s \in slots |-> ChipReads(history, s)]
        /\ age' = IF age >= 0 /\ AgeRead >= 0 THEN age + 1 ELSE -1
    BY <1>4, <1>5, <1>6, <1>10, <1>14
  <2>1. CASE ReadAtOnce
    <3>1. /\ history = <<[at |-> Earliest, reads |-> ReadsOf(c0)]>>
          /\ age = -1 => held = ReadsOf(c0)
          /\ age >= 0 => landed - 36 * age <= Earliest
      BY <1>0, <2>1 DEF ReadAtOnce
    <3>2. late = ReadsOf(c0) /\ AreReads(late, slots)
      <4>1. LateOf(held, c0, age, landed) = ReadsOf(c0)
        BY <1>1, <3>1, LateAtOnce
      <4> QED BY <1>0, <1>10, <4>1
    <3>3. chip' = ReadsOf(c0) /\ history' = history
      <4> PICK h : h = history
        OBVIOUS
      <4>1. DOMAIN h = {1} /\ Len(h) = 1 /\ h[1].at = Earliest /\ h[1].reads = ReadsOf(c0)
        BY <3>1
      <4>2. [s \in slots |-> ChipReads(h, s)] = ReadsOf(c0)
        BY <1>1, <1>10, <4>1, ChipReadsOne
      <4> QED BY <2>0, <3>1, <4>2, RecentOne
    <3>4. age' = -1
      BY <1>1, <2>0, <3>1 DEF AgeRead, Earliest
    <3>5. ReadAtOnce'
      BY <1>9, <2>0, <3>1, <3>2, <3>3, <3>4 DEF ReadAtOnce
    <3> QED BY <1>1, <2>0, <3>2, <3>3, <3>4, <3>5
  <2>2. CASE ReadInTurn
    <3>0. PICK old : old = history[1].reads
      OBVIOUS
    <3>1. /\ history = <<[at |-> Earliest, reads |-> old], [at |-> landed - 36, reads |-> ReadsOf(c0)]>>
          /\ age = 1 /\ landed \in 33..35
          /\ \A s \in slots : \A f \in Fields :
                ReadTime[s][f] < landed - 36 => held[s][f] = old[s][f]
      BY <1>0, <2>2, <3>0 DEF ReadInTurn
    <3>2. PICK at \in Int : at = landed - 36 /\ at > Earliest /\ at - 36 <= Earliest
      BY <3>1 DEF Earliest
    <3>3. late = Mixed(slots, old, ReadsOf(c0), at) /\ AreReads(late, slots)
      <4>1. \A s \in slots : \A f \in Fields : ReadTime[s][f] < at => held[s][f] = old[s][f]
        BY <3>1, <3>2
      <4>2. late = Mixed(slots, old, ReadsOf(c0), at)
        BY <1>0, <1>1, <3>1, <3>2, <4>1, LateInTurn
      <4> QED BY <4>2, MixedAreReads
    <3> PICK h : h = history
      OBVIOUS
    <3> PICK b : b = ReadsOf(c0)
      OBVIOUS
    <3>4. chip' = Mixed(slots, old, b, at)
      <4>1. /\ DOMAIN h = {1, 2} /\ Len(h) = 2 /\ h[1].at = Earliest /\ h[1].reads = old
            /\ h[2].at = at /\ h[2].reads = b
        BY <3>1, <3>2
      <4>2. [s \in slots |-> ChipReads(h, s)] = Mixed(slots, old, b, at)
        <5>1. slots \in SUBSET (0..35) /\ at \in Int /\ at > Earliest
          BY <1>1, <3>2
        <5> QED BY ONLY <4>1, <5>1, ChipReadsTwo
      <4> QED BY <2>0, <4>2
    <3>5. history' = <<[at |-> Earliest, reads |-> ReadsOf(c0)]>>
      BY <2>0, <3>1, <3>2, RecentTwo
    <3>6. age' = 2 /\ landed' = landed /\ landed' - 36 * age' <= Earliest
      BY <2>0, <3>1 DEF AgeRead, Earliest
    <3>7. ReadAtOnce'
      BY <1>9, <2>0, <3>5, <3>6 DEF ReadAtOnce
    <3>8. chip' = held' /\ AreReads(held', slots)
      BY <2>0, <3>3, <3>4
    <3>9. age' \in -1 .. 2 /\ landed' \in Earliest .. 35
      BY <1>1, <3>6
    <3> QED BY <3>7, <3>8, <3>9
  <2> QED BY <1>1, <2>1, <2>2
<1>15. CASE due.due
  <2>0. /\ held' = Relatched(late, c, -due.at) /\ landed' = due.at /\ age' = 1
        /\ history' = Recent(was) /\ was = Append(history, Since(due.at, c.registers))
        /\ chip' = [s \in slots |-> ChipReads(was, s)]
    BY <1>5, <1>6, <1>10, <1>15
  <2>1. ~ReadInTurn
    BY <1>2, <1>3, <1>15 DEF ReadInTurn
  <2>2. /\ history = <<[at |-> Earliest, reads |-> ReadsOf(c0)]>>
        /\ age = -1 => held = ReadsOf(c0)
        /\ age >= 0 => landed - 36 * age <= Earliest
    BY <1>0, <1>1, <2>1 DEF ReadAtOnce
  <2>3. late = ReadsOf(c0) /\ AreReads(late, slots)
    <3>1. LateOf(held, c0, age, landed) = ReadsOf(c0)
      BY <1>1, <2>2, LateAtOnce
    <3> QED BY <1>0, <1>10, <3>1
  <2>4. PICK at \in 0 .. 35 : at = due.at
    BY <1>7, <1>15
  <2>5. Since(due.at, c.registers) = [at |-> at, reads |-> ReadsOf(c)]
    BY <1>8, <2>4, ReadsAreReads
  <2>6. was = <<[at |-> Earliest, reads |-> ReadsOf(c0)], [at |-> at, reads |-> ReadsOf(c)]>>
    <3> PICK x, y, h : x = [at |-> Earliest, reads |-> ReadsOf(c0)]
                       /\ y = [at |-> at, reads |-> ReadsOf(c)] /\ h = history
      OBVIOUS
    <3>1. h = <<x>> /\ was = Append(h, y)
      BY <2>0, <2>2, <2>5
    <3>2. Append(<<x>>, y) = <<x, y>>
      BY AppendToOne
    <3> QED BY <3>1, <3>2
  <2>7. held' = Mixed(slots, ReadsOf(c0), ReadsOf(c), at) /\ AreReads(held', slots)
    BY <1>1, <1>8, <2>0, <2>3, <2>4, RelatchedIs, MixedAreReads
  <2>8. chip' = Mixed(slots, ReadsOf(c0), ReadsOf(c), at)
    <3>1. /\ DOMAIN was = {1, 2} /\ Len(was) = 2 /\ was[1].at = Earliest
          /\ was[1].reads = ReadsOf(c0) /\ was[2].at = at /\ was[2].reads = ReadsOf(c)
      BY <2>6
    <3>2. at \in Int /\ at > Earliest
      BY DEF Earliest
    <3>3. [s \in slots |-> ChipReads(was, s)] = Mixed(slots, ReadsOf(c0), ReadsOf(c), at)
      BY <1>1, <3>1, <3>2, ChipReadsTwo
    <3> QED BY <2>0, <3>3
  <2>9. history' = IF at - 36 <= Earliest THEN <<[at |-> Earliest, reads |-> ReadsOf(c)]>>
                   ELSE <<[at |-> Earliest, reads |-> ReadsOf(c0)], [at |-> at - 36, reads |-> ReadsOf(c)]>>
    <3> PICK x, y : x = ReadsOf(c0) /\ y = ReadsOf(c)
      OBVIOUS
    <3>1. at \in Int
      OBVIOUS
    <3>2. Recent(<<[at |-> Earliest, reads |-> x], [at |-> at, reads |-> y]>>)
             = IF at - 36 <= Earliest THEN <<[at |-> Earliest, reads |-> y]>>
               ELSE <<[at |-> Earliest, reads |-> x], [at |-> at - 36, reads |-> y]>>
      BY ONLY <3>1, RecentTwo
    <3> QED BY <2>0, <2>6, <3>2
  <2>10. CASE at - 36 <= Earliest
    <3>1. ReadAtOnce'
      BY <1>9, <2>0, <2>4, <2>9, <2>10 DEF ReadAtOnce
    <3> QED BY <2>0, <2>4, <2>7, <2>8, <3>1 DEF Earliest
  <2>11. CASE ~(at - 36 <= Earliest)
    <3>1. at \in 33 .. 35
      BY <2>11 DEF Earliest
    <3>2. ~next'.due /\ wait' >= 2
      <4>1. CASE S.now.due
        BY <1>2, <1>6, <4>1
      <4>2. CASE ~S.now.due
        <5>1. due = next /\ next.due /\ next.at = at
          BY <1>3, <1>15, <2>4, <4>2
        <5>2. wait \in Nat /\ wait >= at + 36
          BY <1>1, <5>1
        <5>3. wait >= 36 /\ wait - 36 >= 2
          BY ONLY <3>1, <5>2
        <5> QED BY <1>2, <1>6, <5>3
      <4> QED BY <4>1, <4>2
    <3>3. ASSUME NEW s \in slots, NEW f \in Fields, ReadTime[s][f] < at - 36
          PROVE  held'[s][f] = ReadsOf(c0)[s][f]
      <4>1. ReadTime[s][f] < at
        <5>1. ReadTime[s][f] \in Int
          BY <1>1, ReadTimes
        <5> QED BY <3>1, <3>3, <5>1
      <4> QED BY <2>7, <4>1 DEF Mixed
    <3>4. history' = <<[at |-> Earliest, reads |-> ReadsOf(c0)], [at |-> at - 36, reads |-> ReadsOf(c)]>>
      BY <2>9, <2>11
    <3>5. history'[1].reads = ReadsOf(c0)
      BY <3>4
    <3>6. ReadInTurn'
      BY <1>9, <2>0, <2>4, <3>1, <3>2, <3>3, <3>4, <3>5 DEF ReadInTurn
    <3> QED BY <2>0, <2>4, <2>7, <2>8, <3>6 DEF Earliest
  <2> QED BY <2>10, <2>11
<1> QED BY <1>14, <1>15

\* Whatever is written and whenever: the writes are read one after the other, each by
\* every slot, the registers at once or in the order in which the slots have their turn.
THEOREM CoreInvariant == CoreSpec => []CoreIInv
<1>1. ASSUME CoreInit PROVE CoreIInv
  <2>1. PICK slots \in Watches : CoreStarts(0, slots)
    BY <1>1 DEF CoreInit
  <2>2. slots \in SUBSET (0..35) /\ 0 \in {0, 1}
    BY CoreAssumption DEF CoreAssumption
  <2> QED BY <2>1, <2>2, CoreAssumption, CoreBegins
<1>2. ASSUME CoreIInv, [CoreNext]_coreVars PROVE CoreIInv'
  <2>1. ASSUME NEW w \in Writes, Write(w) PROVE CoreIInv'
    BY <1>2, <2>1, CoreAssumption, WriteKeepsCore
  <2>2. ASSUME NEW w \in Writes, WriteWhenFull(w) PROVE CoreIInv'
    BY <1>2, <2>2, CoreAssumption, WriteWhenFullKeepsCore
  <2>3. ASSUME Generate PROVE CoreIInv'
    BY <1>2, <2>3, CoreAssumption, GenerateKeepsCore
  <2>4. ASSUME UNCHANGED coreVars PROVE CoreIInv'
    BY <1>2, <2>4 DEF coreVars, CoreIInv, CoreTypes, WritesApart, ReadAtOnce, ReadInTurn,
          SlotsReadAsTheChipDoes, Slots, Chip
  <2> QED BY <1>2, <2>1, <2>2, <2>3, <2>4 DEF CoreNext
<1> QED BY <1>1, <1>2, PTL DEF CoreSpec

\* The state is always of its type: the queue of OPL3_WriteRegBuffered() fits its room,
\* and a write is read everywhere within two passes.
THEOREM CoreTypeCorrect == CoreSpec => []CoreTypeOK
<1>1. ASSUME CoreIInv PROVE CoreTypeOK
  <2>1. \/ history = <<[at |-> Earliest, reads |-> ReadsOf(Chip)]>>
        \/ history = <<[at |-> Earliest, reads |-> history[1].reads],
                       [at |-> landed - 36, reads |-> ReadsOf(Chip)]>>
    BY <1>1 DEF CoreIInv, ReadAtOnce, ReadInTurn
  <2>2. Len(history) \in 1 .. 3
    BY <2>1
  <2>3. wait \in 0 .. (DataToAddress + AddressToData)
    BY <1>1, CoreAssumption DEF CoreIInv, CoreTypes, CoreAssumption
  <2> QED BY <1>1, <2>2, <2>3 DEF CoreTypeOK, CoreIInv, CoreTypes, Waiting
<1> QED BY <1>1, CoreInvariant, PTL

\* The copies the slots read from are what the registers hold: spread() is called for
\* every write that changes what a copy has.
THEOREM CopiesCorrect == CoreSpec => []CopiesAreCurrent
<1>1. ASSUME CoreIInv PROVE CopiesAreCurrent
  BY <1>1 DEF CoreIInv, CoreTypes, IsCore, AreCopies, Chip, CopiesAreCurrent
<1> QED BY <1>1, CoreInvariant, PTL

\* For every order and spacing of the writes, every slot goes by the registers as they
\* stood when the chip would have read them: relatch() need only know the last write.
THEOREM SlotsReadCorrectly == CoreSpec => []SlotsReadAsTheChipDoes
<1>1. CoreIInv => SlotsReadAsTheChipDoes
  BY DEF CoreIInv
<1> QED BY <1>1, CoreInvariant, PTL

\* generate() never finds two writes due in one pass: while the time between two writes
\* is as long as it is, none is dropped on its way to the registers.
THEOREM WritesStayApart == CoreSpec => []OneWriteAPass
<1>1. ASSUME CoreIInv PROVE OneWriteAPass
  <2> PICK S : S = Scheduled[<<queue, wait>>]
    OBVIOUS
  <2>1. Waiting(queue) /\ wait \in Nat /\ Len(queue) \in Nat
        /\ next \in Landings \cup {None} /\ (next.due => next.at \in 0..33)
    BY <1>1 DEF CoreIInv, CoreTypes, Waiting
  <2>2. SampleLeaves(S, queue, wait)
    BY <2>1, CoreAssumption, ScheduledGives
  <2>3. CASE next.due
    <3>0. next.at \in 0 .. 33 /\ wait >= next.at + 36
      BY <1>1, <2>1, <2>3 DEF CoreIInv, WritesApart
    <3>1. wait >= 36
      <4> PICK at \in 0 .. 33 : at = next.at
        BY <3>0
      <4>1. wait \in Nat /\ wait >= at + 36
        BY <2>1, <3>0
      <4> QED BY ONLY <4>1
    <3>2. S.queue = queue
      BY <2>2, <3>1 DEF SampleLeaves
    <3> QED BY <2>1, <2>3, <3>2 DEF OneWriteAPass
  <2>4. CASE ~next.due
    <3>1. Len(S.queue) \in {Len(queue), Len(queue) - 1}
      BY <2>2 DEF SampleLeaves
    <3> QED BY <2>1, <2>4, <3>1 DEF OneWriteAPass
  <2> QED BY <2>3, <2>4
<1> QED BY <1>1, CoreInvariant, PTL

-----------------------------------------------------------------------------
(* The routing.                                                            *)

\* Slots of a channel read its connection at one time, and slots of a chain the flag
\* and the connections of the chain.
LEMMA TimesAgree ==
    ASSUME NEW s \in 0 .. 35, NEW t \in 0 .. 35
    PROVE  /\ ChannelOf(s) = ChannelOf(t) => ReadTime[s].con = ReadTime[t].con
           /\ ChainOf(s) >= 0 /\ ChainOf(s) = ChainOf(t) =>
                /\ ReadTime[s].firstCon = ReadTime[t].firstCon
                /\ ReadTime[s].secondCon = ReadTime[t].secondCon
                /\ ReadTime[s].fourOp = ReadTime[t].fourOp
                /\ FirstOf(s) = FirstOf(t)
<1> DEFINE first(u) == BankOf(u) * 18 + (RowOf(u) % 3)
<1>1. \A u \in 0 .. 35 : ReadTime[u].con = ConnectionTime(u)
  BY DEF ReadTime
<1>2. \A u \in 0 .. 35 : ~(ChainOf(u) < 0) =>
         /\ ReadTime[u].firstCon = first(u) - 1 /\ ReadTime[u].secondCon = first(u) - 1
         /\ ReadTime[u].fourOp = BankOf(u) * 18 + 5 + (RowOf(u) % 3)
  BY DEF ReadTime
<1>3. ChannelOf(s) = ChannelOf(t) => ConnectionTime(s) = ConnectionTime(t)
  BY DEF ChannelOf, ConnectionTime, FirstOperator, BankOf, RowOf
<1>4. ChainOf(s) >= 0 => ~(ChainOf(s) < 0)
  BY DEF ChainOf, BankOf, RowOf
<1>5. ASSUME ChainOf(s) >= 0, ChainOf(s) = ChainOf(t)
      PROVE  BankOf(s) = BankOf(t) /\ RowOf(s) % 3 = RowOf(t) % 3
  BY <1>5 DEF ChainOf, BankOf, RowOf
<1>6. ASSUME ChainOf(s) >= 0, ChainOf(s) = ChainOf(t) PROVE FirstOf(s) = FirstOf(t)
  BY <1>6 DEF ChainOf, BankOf, RowOf, FirstOf, ChannelOf, SecondOfChain
<1> QED BY <1>1, <1>2, <1>3, <1>4, <1>5, <1>6

\* and what they read of the registers as they stand is the same.
LEMMA ReadsAgree ==
    ASSUME NEW slots \in SUBSET (0..35), NEW c, IsCore(c, slots), NEW s \in slots, NEW t \in slots
    PROVE  /\ ChannelOf(s) = ChannelOf(t) => ReadsOf(c)[s].con = ReadsOf(c)[t].con
           /\ ChainOf(s) >= 0 /\ ChainOf(s) = ChainOf(t) =>
                /\ ReadsOf(c)[s].firstCon = ReadsOf(c)[t].firstCon
                /\ ReadsOf(c)[s].secondCon = ReadsOf(c)[t].secondCon
                /\ ReadsOf(c)[s].fourOp = ReadsOf(c)[t].fourOp
<1> PICK r : r = c.registers
  OBVIOUS
<1>1. ASSUME NEW u \in slots
      PROVE  /\ ReadsOf(c)[u].con = r.channel[ChannelOf(u)].con
             /\ ~(ChainOf(u) < 0) =>
                  /\ ReadsOf(c)[u].firstCon = r.channel[FirstOf(u)].con
                  /\ ReadsOf(c)[u].secondCon = r.channel[FirstOf(u) + 3].conPair
             /\ ReadsOf(c)[u].fourOp = r.fourOp
  <2>1. c.copies = [v \in slots |-> CopyFor(r, v)]
    BY DEF IsCore, AreCopies
  <2>2. ReadsOf(c)[u] = Read(r, CopyFor(r, u), u)
    BY <2>1 DEF ReadsOf
  <2>3. /\ CopyFor(r, u).con = r.channel[ChannelOf(u)].con
        /\ ~(ChainOf(u) < 0) => /\ CopyFor(r, u).firstCon = r.channel[FirstOf(u)].con
                                /\ CopyFor(r, u).secondCon = r.channel[FirstOf(u) + 3].conPair
    BY DEF CopyFor, FirstOf
  <2> QED BY <2>2, <2>3 DEF Read
<1>2. ChainOf(s) >= 0 => ~(ChainOf(s) < 0)
  BY DEF ChainOf, BankOf, RowOf
<1>3. ChainOf(s) >= 0 /\ ChainOf(s) = ChainOf(t) => FirstOf(s) = FirstOf(t) /\ ~(ChainOf(t) < 0)
  BY <1>2, TimesAgree
<1>4. ChannelOf(s) = ChannelOf(t) => ReadsOf(c)[s].con = ReadsOf(c)[t].con
  BY <1>1
<1>5. ASSUME ChainOf(s) >= 0, ChainOf(s) = ChainOf(t)
      PROVE  /\ ReadsOf(c)[s].firstCon = ReadsOf(c)[t].firstCon
             /\ ReadsOf(c)[s].secondCon = ReadsOf(c)[t].secondCon
             /\ ReadsOf(c)[s].fourOp = ReadsOf(c)[t].fourOp
  <2>1. FirstOf(s) = FirstOf(t) /\ ~(ChainOf(t) < 0) /\ ~(ChainOf(s) < 0)
    BY <1>2, <1>3, <1>5
  <2> HIDE <1>5
  <2> QED BY <1>1, <2>1
<1> QED BY <1>4, <1>5

\* What slots read agrees on their routing.
Agree(h, slots) ==
    \A s \in slots : \A t \in slots :
        /\ ChannelOf(s) = ChannelOf(t) => h[s].con = h[t].con
        /\ ChainOf(s) >= 0 /\ ChainOf(s) = ChainOf(t) =>
              /\ h[s].firstCon = h[t].firstCon
              /\ h[s].secondCon = h[t].secondCon
              /\ h[s].fourOp = h[t].fourOp

\* Slots that agree go on agreeing when they read the registers again.
LEMMA RelatchedAgree ==
    ASSUME NEW slots \in SUBSET (0..35), NEW c, IsCore(c, slots), NEW h, AreReads(h, slots),
           Agree(h, slots), NEW at \in Int
    PROVE  Agree(Relatched(h, c, -at), slots)
<1> PICK R, m : R = ReadsOf(c) /\ m = Mixed(slots, h, R, at)
  OBVIOUS
<1>1. Relatched(h, c, -at) = m
  BY RelatchedIs
<1>2. \A s \in slots : \A f \in Fields :
         m[s][f] = IF ReadTime[s][f] < at THEN h[s][f] ELSE R[s][f]
  BY DEF Mixed
<1>3. ASSUME NEW s \in slots, NEW t \in slots, NEW f \in Fields,
             ReadTime[s][f] = ReadTime[t][f], h[s][f] = h[t][f], R[s][f] = R[t][f]
      PROVE  m[s][f] = m[t][f]
  BY <1>2, <1>3
<1>4. ASSUME NEW s \in slots, NEW t \in slots, ChannelOf(s) = ChannelOf(t)
      PROVE  m[s].con = m[t].con
  <2>1. ReadTime[s]["con"] = ReadTime[t]["con"] /\ h[s]["con"] = h[t]["con"] /\ R[s]["con"] = R[t]["con"]
    <3>1. ReadTime[s]["con"] = ReadTime[t]["con"]
      BY <1>4, TimesAgree
    <3>2. h[s]["con"] = h[t]["con"]
      BY <1>4 DEF Agree
    <3>3. R[s]["con"] = R[t]["con"]
      BY <1>4, ReadsAgree
    <3> QED BY <3>1, <3>2, <3>3
  <2> QED BY <1>3, <2>1 DEF Fields
<1>5. ASSUME NEW s \in slots, NEW t \in slots, ChainOf(s) >= 0 /\ ChainOf(s) = ChainOf(t)
      PROVE  /\ m[s].firstCon = m[t].firstCon
             /\ m[s].secondCon = m[t].secondCon
             /\ m[s].fourOp = m[t].fourOp
  <2>1. \A f \in {"firstCon", "secondCon", "fourOp"} :
           ReadTime[s][f] = ReadTime[t][f] /\ h[s][f] = h[t][f] /\ R[s][f] = R[t][f]
    <3>0. /\ ReadTime[s].firstCon = ReadTime[t].firstCon
          /\ ReadTime[s].secondCon = ReadTime[t].secondCon
          /\ ReadTime[s].fourOp = ReadTime[t].fourOp
      BY <1>5, TimesAgree
    <3>1. \A f \in {"firstCon", "secondCon", "fourOp"} : ReadTime[s][f] = ReadTime[t][f]
      BY ONLY <3>0
    <3>2. \A f \in {"firstCon", "secondCon", "fourOp"} : h[s][f] = h[t][f]
      BY <1>5 DEF Agree
    <3>4. /\ ReadsOf(c)[s].firstCon = ReadsOf(c)[t].firstCon
          /\ ReadsOf(c)[s].secondCon = ReadsOf(c)[t].secondCon
          /\ ReadsOf(c)[s].fourOp = ReadsOf(c)[t].fourOp
      BY <1>5, ReadsAgree
    <3>5. R[s].firstCon = R[t].firstCon /\ R[s].secondCon = R[t].secondCon /\ R[s].fourOp = R[t].fourOp
      BY <3>4
    <3>3. \A f \in {"firstCon", "secondCon", "fourOp"} : R[s][f] = R[t][f]
      BY ONLY <3>5
    <3> QED BY <3>1, <3>2, <3>3
  <2>2. {"firstCon", "secondCon", "fourOp"} \subseteq Fields
    BY DEF Fields
  <2>3. \A f \in {"firstCon", "secondCon", "fourOp"} : m[s][f] = m[t][f]
    BY <1>3, <2>1, <2>2
  <2> QED BY <2>3
<1> QED BY <1>1, <1>4, <1>5 DEF Agree

\* The slots agree in every pass.
LEMMA GenerateKeepsAgreement ==
    ASSUME CoreAssumption, CoreIInv, Agree(held, Slots), Generate
    PROVE  Agree(held', Slots')
<1>0. PICK slots : slots = Slots
  OBVIOUS
<1>1. /\ slots \in SUBSET (0..35) /\ IsCore(Chip, slots) /\ Waiting(queue) /\ wait \in Nat
      /\ age \in -1 .. 2 /\ landed \in Earliest .. 35 /\ AreReads(held, slots)
      /\ next \in Landings \cup {None} /\ Agree(held, slots)
  BY <1>0 DEF CoreIInv, CoreTypes
<1>2. PICK due, c, was : /\ due \in Landings \cup {None}
                         /\ c = IF due.due THEN Applied(Chip, due.write) ELSE Chip
                         /\ OnePass(Scheduled[<<queue, wait>>], due, c, was)
  <2>1. PICK due \in {IF Scheduled[<<queue, wait>>].now.due
                      THEN Scheduled[<<queue, wait>>].now ELSE next} :
        \E c \in {IF due.due THEN Applied(Chip, due.write) ELSE Chip} :
        \E was \in {IF due.due THEN Append(history, Since(due.at, c.registers)) ELSE history} :
           OnePass(Scheduled[<<queue, wait>>], due, c, was)
    BY DEF Generate
  <2>2. PICK c, was : /\ c = IF due.due THEN Applied(Chip, due.write) ELSE Chip
                      /\ OnePass(Scheduled[<<queue, wait>>], due, c, was)
    BY <2>1
  <2>3. Scheduled[<<queue, wait>>].now \in Landings \cup {None}
    <3>1. SampleLeaves(Scheduled[<<queue, wait>>], queue, wait)
      BY <1>1, ScheduledGives
    <3> QED BY <3>1 DEF SampleLeaves
  <2>4. due \in Landings \cup {None}
    BY <1>1, <2>1, <2>3
  <2> QED BY <2>2, <2>4
<1>3. due.due => due.at \in 0 .. 35 /\ due.write \in Written
  <2>1. ~None.due
    BY DEF None
  <2>2. due.due => due \in Landings
    BY <1>2, <2>1
  <2> QED BY <2>2 DEF Landings
<1>4. IsCore(c, slots)
  BY <1>1, <1>2, <1>3, AppliedKeepsCopies
<1>5. Agree(Late, slots) /\ AreReads(Late, slots)
  <2>1. CASE age >= 0
    <3>1. PICK at \in Int : at = landed - 36 * age
      BY <1>1 DEF Earliest
    <3>2. 36 * age - landed = -at
      BY <1>1, <3>1 DEF Earliest
    <3>3. Late = Relatched(held, Chip, -at)
      BY <2>1, <3>2 DEF Late
    <3>4. Agree(Relatched(held, Chip, -at), slots)
      BY <1>1, RelatchedAgree
    <3>5. AreReads(Relatched(held, Chip, -at), slots)
      <4>1. Relatched(held, Chip, -at) = Mixed(slots, held, ReadsOf(Chip), at)
        BY <1>1, RelatchedIs
      <4> QED BY <4>1, MixedAreReads
    <3> QED BY <3>3, <3>4, <3>5
  <2>2. CASE ~(age >= 0)
    BY <1>1, <2>2 DEF Late
  <2> QED BY <2>1, <2>2
<1>6. Agree(held', slots)
  <2>1. CASE due.due
    <3>1. PICK at \in Int : at = due.at
      BY <1>3, <2>1
    <3>2. held' = Relatched(Late, c, -at)
      BY <1>2, <2>1, <3>1 DEF OnePass
    <3> QED BY <1>1, <1>4, <1>5, <3>2, RelatchedAgree
  <2>2. CASE ~due.due
    BY <1>2, <1>5, <2>2 DEF OnePass
  <2> QED BY <2>1, <2>2
<1>7. Slots' = slots
  BY <1>2, <1>4, ChipBecomes DEF OnePass
<1> QED BY <1>6, <1>7

\* A chain of four whose registers are read as they stand is joined by one of the
\* chip's four algorithms.
LEMMA ChainsRoute ==
    ASSUME CoreIInv
    PROVE  ChainsRouteByAlgorithm
<1>0. PICK slots, r : slots = Slots /\ r = registers
  OBVIOUS
<1>1. /\ slots \in SUBSET (0..35) /\ IsCore(Chip, slots) /\ DOMAIN held = slots
  BY <1>0 DEF CoreIInv, CoreTypes, AreReads
<1> SUFFICES ASSUME NEW s \in slots, RowOf(s) < 3, {s + 3, s + 6, s + 9} \subseteq slots,
                    age = -1, Bit(r.fourOp, ChainOf(s)) = 1,
                    r.channel[ChannelOf(s) + 3].con = r.channel[ChannelOf(s) + 3].conPair
             PROVE  LET chain == <<s, s + 3, s + 6, s + 9>>
                        first == r.channel[ChannelOf(s)].con
                        second == r.channel[ChannelOf(s) + 3].con
                    IN  /\ [i \in 1..4 |-> Routing(held[chain[i]], chain[i]).modulation]
                             = Algorithm(first, second).modulation
                        /\ [i \in 1..4 |-> Routing(held[chain[i]], chain[i]).weight]
                             = Algorithm(first, second).weight
  BY <1>0, <1>1 DEF ChainsRouteByAlgorithm
<1>2. held = ReadsOf(Chip)
  BY DEF CoreIInv, ReadAtOnce, ReadInTurn
<1>3. PICK ch, first, second : /\ ch = ChannelOf(s)
                               /\ first = r.channel[ch].con /\ second = r.channel[ch + 3].con
  OBVIOUS
<1>4. PICK n : n = ChainOf(s)
  OBVIOUS
<1>5. s \in 0 .. 35 /\ s + 3 \in 0 .. 35 /\ s + 6 \in 0 .. 35 /\ s + 9 \in 0 .. 35
  BY <1>1
<1>6. s \in {0, 1, 2, 18, 19, 20}
  BY <1>5 DEF RowOf
<1>7. /\ RowOf(s) \in 0 .. 2 /\ RowOf(s + 3) \in 3 .. 5 /\ RowOf(s + 6) \in 6 .. 8
      /\ RowOf(s + 9) \in 9 .. 11
      /\ FirstOperator(s) /\ ~FirstOperator(s + 3) /\ FirstOperator(s + 6) /\ ~FirstOperator(s + 9)
      /\ n >= 0
      /\ \A t \in {s, s + 3, s + 6, s + 9} : ChainOf(t) = n /\ ~Drum(t)
  BY <1>4, <1>6 DEF RowOf, FirstOperator, ChainOf, BankOf, Drum
<1>8. /\ ChannelOf(s + 3) = ch /\ ChannelOf(s + 6) = ch + 3 /\ ChannelOf(s + 9) = ch + 3
      /\ \A t \in {s, s + 3, s + 6, s + 9} : FirstOf(t) = ch
      /\ ch \in Nat
  BY <1>3, <1>6 DEF ChannelOf, RowOf, BankOf, FirstOf, SecondOfChain
<1>9. first \in {0, 1} /\ second \in {0, 1} /\ second = r.channel[ch + 3].conPair
  <2>1. ch \in ChannelsFor(slots) /\ ch + 3 \in ChannelsFor(slots)
    <3>1. ChannelOf(s) \in ChannelsFor(slots) /\ s + 6 \in slots
      BY <1>1, ChannelsOfSlot
    <3>2. ChannelOf(s + 6) \in ChannelsFor(slots)
      BY <1>1, <3>1, ChannelsOfSlot
    <3> QED BY <1>3, <1>8, <3>1, <3>2
  <2>2. \A c \in ChannelsFor(slots) : IsChannel(r.channel[c])
    BY <1>0, <1>1 DEF IsCore, IsRegisters, Chip
  <2> QED BY <1>3, <2>1, <2>2 DEF IsChannel
<1>10. ASSUME NEW t \in {s, s + 3, s + 6, s + 9}
       PROVE  /\ held[t].con = r.channel[ChannelOf(t)].con
              /\ held[t].firstCon = first /\ held[t].secondCon = second
              /\ InChain(held[t], t)
  <2>1. t \in slots
    OBVIOUS
  <2>2. Chip.copies = [v \in slots |-> CopyFor(r, v)] /\ Chip.registers = r
    BY <1>0, <1>1 DEF IsCore, AreCopies, Chip
  <2>3. held[t] = Read(r, CopyFor(r, t), t)
    BY <1>2, <2>1, <2>2 DEF ReadsOf
  <2>4. ~(ChainOf(t) < 0) /\ ChainOf(t) = n /\ n >= 0
    <3>1. ChainOf(t) = n /\ n >= 0 /\ n \in Int
      BY <1>4, <1>6, <1>7 DEF ChainOf, BankOf, RowOf
    <3> QED BY <3>1
  <2>5. /\ CopyFor(r, t).con = r.channel[ChannelOf(t)].con
        /\ CopyFor(r, t).firstCon = r.channel[FirstOf(t)].con
        /\ CopyFor(r, t).secondCon = r.channel[FirstOf(t) + 3].conPair
    BY <2>4 DEF CopyFor, FirstOf
  <2>6. FirstOf(t) = ch
    BY <1>8
  <2>7. /\ held[t].con = r.channel[ChannelOf(t)].con
        /\ held[t].firstCon = r.channel[ch].con /\ held[t].secondCon = r.channel[ch + 3].conPair
        /\ held[t].fourOp = r.fourOp
    BY <2>3, <2>5, <2>6 DEF Read
  <2>8. InChain(held[t], t)
    BY <1>4, <2>4, <2>7 DEF InChain
  <2> QED BY <1>3, <1>9, <2>7, <2>8
<1>11. PICK a, b, c, d : /\ a = held[s] /\ b = held[s + 3] /\ c = held[s + 6] /\ d = held[s + 9]
  OBVIOUS
<1>12. /\ a.con = first /\ b.con = first /\ c.con = second /\ d.con = second
       /\ \A h \in {a, b, c, d} : h.firstCon = first /\ h.secondCon = second
       /\ InChain(a, s) /\ InChain(b, s + 3) /\ InChain(c, s + 6) /\ InChain(d, s + 9)
  BY <1>3, <1>8, <1>10, <1>11
<1>13. ASSUME NEW h, NEW t, InChain(h, t), ~Drum(t) PROVE Routing(h, t) = ChainRouting(h, t)
  BY <1>13 DEF Routing, ChainRouting, PairRouting
<1>14. \A h \in {a, b, c, d} : TwoPairs(h) <=> first = 0 /\ second = 1
  BY <1>12 DEF TwoPairs
<1>15. Routing(a, s) = [modulation |-> 2, weight |-> first]
  <2>1. Routing(a, s) = PairRouting(a, s)
    BY <1>7, <1>12, <1>13 DEF ChainRouting
  <2> QED BY <1>7, <1>12, <2>1 DEF PairRouting
<1>16. Routing(b, s + 3) = [modulation |-> 1 - first,
                            weight |-> IF first = 0 /\ second = 1 THEN 1 ELSE 0]
  <2>1. Routing(b, s + 3) = [PairRouting(b, s + 3) EXCEPT !.weight = IF TwoPairs(b) THEN 1 ELSE 0]
    BY <1>7, <1>12, <1>13 DEF ChainRouting
  <2>2. PairRouting(b, s + 3) = [modulation |-> 1 - first, weight |-> 1]
    BY <1>7, <1>12 DEF PairRouting
  <2> QED BY <1>14, <2>1, <2>2
<1>17. Routing(c, s + 6) =
         IF first = 0 /\ second = 1 THEN [modulation |-> 0, weight |-> 0]
         ELSE [modulation |-> 1, weight |-> IF second = 1 THEN 1 ELSE 0]
  <2>1. Routing(c, s + 6) =
          [modulation |-> IF TwoPairs(c) THEN 0 ELSE 1,
           weight |-> IF ~TwoPairs(c) /\ c.con = 1 THEN 1 ELSE 0]
    BY <1>7, <1>12, <1>13 DEF ChainRouting
  <2> QED BY <1>12, <1>14, <2>1
<1>18. Routing(d, s + 9) =
         [modulation |-> IF ~(first = 0 /\ second = 1) /\ second = 1 THEN 0 ELSE 1, weight |-> 1]
  <2>1. Routing(d, s + 9) =
          [PairRouting(d, s + 9) EXCEPT
             !.modulation = IF ~TwoPairs(d) /\ d.con = 1 THEN 0 ELSE 1]
    BY <1>7, <1>12, <1>13 DEF ChainRouting
  <2>2. PairRouting(d, s + 9) = [modulation |-> 1 - second, weight |-> 1]
    BY <1>7, <1>12 DEF PairRouting
  <2> QED BY <1>12, <1>14, <2>1, <2>2
<1> DEFINE chain == <<s, s + 3, s + 6, s + 9>>
           mod == [i \in 1..4 |-> Routing(held[chain[i]], chain[i]).modulation]
           heard == [i \in 1..4 |-> Routing(held[chain[i]], chain[i]).weight]
<1>19. /\ mod = <<Routing(a, s).modulation, Routing(b, s + 3).modulation,
                 Routing(c, s + 6).modulation, Routing(d, s + 9).modulation>>
       /\ heard = <<Routing(a, s).weight, Routing(b, s + 3).weight,
                   Routing(c, s + 6).weight, Routing(d, s + 9).weight>>
  <2>1. \A i \in 1 .. 4 :
           /\ mod[i] = <<Routing(a, s).modulation, Routing(b, s + 3).modulation,
                         Routing(c, s + 6).modulation, Routing(d, s + 9).modulation>>[i]
           /\ heard[i] = <<Routing(a, s).weight, Routing(b, s + 3).weight,
                           Routing(c, s + 6).weight, Routing(d, s + 9).weight>>[i]
    BY <1>11
  <2> QED BY <2>1
<1> HIDE DEF mod, heard
<1>20. mod = Algorithm(first, second).modulation /\ heard = Algorithm(first, second).weight
  <2>1. CASE first = 0 /\ second = 0
    BY <1>15, <1>16, <1>17, <1>18, <1>19, <2>1 DEF Algorithm
  <2>2. CASE first = 0 /\ second = 1
    BY <1>15, <1>16, <1>17, <1>18, <1>19, <2>2 DEF Algorithm
  <2>3. CASE first = 1 /\ second = 0
    BY <1>15, <1>16, <1>17, <1>18, <1>19, <2>3 DEF Algorithm
  <2>4. CASE first = 1 /\ second = 1
    BY <1>15, <1>16, <1>17, <1>18, <1>19, <2>4 DEF Algorithm
  <2> QED BY <1>9, <2>1, <2>2, <2>3, <2>4
<1> QED BY <1>3, <1>20 DEF mod, heard

\* The slots of a channel and of a chain of four go by one connection in every pass, and
\* a chain that is read as it stands is joined by one of the chip's four algorithms.
THEOREM RoutingCorrect == CoreSpec => []RoutingIsByAlgorithm
<1> DEFINE RIInv == CoreIInv /\ Agree(held, Slots)
<1>1. ASSUME CoreInit PROVE RIInv
  <2>1. PICK slots \in Watches : CoreStarts(0, slots)
    BY <1>1 DEF CoreInit
  <2>2. slots \in SUBSET (0..35) /\ 0 \in {0, 1}
    BY CoreAssumption DEF CoreAssumption
  <2>3. CoreIInv
    BY <2>1, <2>2, CoreAssumption, CoreBegins
  <2>4. Slots \in SUBSET (0..35) /\ IsCore(Chip, Slots)
    BY <2>3 DEF CoreIInv, CoreTypes
  <2>5. held = ReadsOf(Chip)
    BY <2>1, <2>3 DEF CoreStarts, CoreIInv, ReadAtOnce, ReadInTurn
  <2>6. Agree(held, Slots)
    <3>1. \A s \in Slots : \A t \in Slots :
             /\ ChannelOf(s) = ChannelOf(t) => ReadsOf(Chip)[s].con = ReadsOf(Chip)[t].con
             /\ ChainOf(s) >= 0 /\ ChainOf(s) = ChainOf(t) =>
                  /\ ReadsOf(Chip)[s].firstCon = ReadsOf(Chip)[t].firstCon
                  /\ ReadsOf(Chip)[s].secondCon = ReadsOf(Chip)[t].secondCon
                  /\ ReadsOf(Chip)[s].fourOp = ReadsOf(Chip)[t].fourOp
      BY <2>4, ReadsAgree
    <3> QED BY <2>5, <3>1 DEF Agree
  <2> QED BY <2>3, <2>6
<1>2. ASSUME RIInv, [CoreNext]_coreVars PROVE RIInv'
  <2>0. ASSUME UNCHANGED <<held, copies>> PROVE Agree(held, Slots)'
    BY <1>2, <2>0 DEF Slots
  <2>1. ASSUME NEW w \in Writes, Write(w) PROVE RIInv'
    <3>1. CoreIInv'
      BY <1>2, <2>1, CoreAssumption, WriteKeepsCore
    <3>2. Agree(held, Slots)'
      BY <2>0, <2>1 DEF Write
    <3> QED BY <3>1, <3>2
  <2>2. ASSUME NEW w \in Writes, WriteWhenFull(w) PROVE RIInv'
    <3>1. CoreIInv'
      BY <1>2, <2>2, CoreAssumption, WriteWhenFullKeepsCore
    <3>2. UNCHANGED held
      BY <2>2 DEF WriteWhenFull
    <3>3. Slots = DOMAIN held /\ Slots' = DOMAIN held'
      BY <1>2, <3>1 DEF CoreIInv, CoreTypes, AreReads
    <3> QED BY <1>2, <3>1, <3>2, <3>3
  <2>3. ASSUME Generate PROVE RIInv'
    BY <1>2, <2>3, CoreAssumption, GenerateKeepsCore, GenerateKeepsAgreement
  <2>4. ASSUME UNCHANGED coreVars PROVE RIInv'
    <3>1. CoreIInv'
      BY <1>2, <2>4 DEF coreVars, CoreIInv, CoreTypes, WritesApart, ReadAtOnce, ReadInTurn,
            SlotsReadAsTheChipDoes, Slots, Chip
    <3>2. Agree(held, Slots)'
      BY <2>0, <2>4 DEF coreVars
    <3> QED BY <3>1, <3>2
  <2> QED BY <1>2, <2>1, <2>2, <2>3, <2>4 DEF CoreNext
<1>3. ASSUME RIInv PROVE RoutingIsByAlgorithm
  <2>1. DOMAIN held = Slots
    BY <1>3 DEF CoreIInv, CoreTypes, AreReads
  <2>2. SlotsAgreeOnTheirRouting
    BY <1>3, <2>1 DEF SlotsAgreeOnTheirRouting, Agree
  <2> QED BY <1>3, <2>2, ChainsRoute DEF RoutingIsByAlgorithm
<1> QED BY <1>1, <1>2, <1>3, PTL DEF CoreSpec

-----------------------------------------------------------------------------
(* The noise.                                                              *)

\* The bits of the register.
Bits == 0 .. 22

\* A step moves every bit up and feeds the lowest; the register is never empty after it.
LEMMA StepOfNoise ==
    ASSUME NEW s \in SUBSET Bits
    PROVE  /\ NoiseStep(s) \in SUBSET Bits /\ NoiseStep(s) # {}
           /\ \A i \in 0 .. 21 : i + 1 \in NoiseStep(s) <=> i \in s
           /\ s # {} => (0 \in NoiseStep(s) <=> ((22 \in s) # (8 \in s)))
<1> DEFINE up == {i + 1 : i \in s \ {22}}
           fed == (22 \in s) # (8 \in s) \/ s = {}
<1>1. NoiseStep(s) = up \cup (IF fed THEN {0} ELSE {})
  BY DEF NoiseStep
<1>2. /\ up \in SUBSET Bits
      /\ \A i \in 0 .. 21 : i + 1 \in up <=> i \in s
      /\ 0 \notin up
  BY DEF Bits
<1>3. up = {} => fed
  <2> SUFFICES ASSUME up = {}, s # {} PROVE fed
    OBVIOUS
  <2>1. PICK i \in s : TRUE
    OBVIOUS
  <2>2. \A j \in s : j = 22
    BY <1>2 DEF Bits
  <2>3. 22 \in s /\ 8 \notin s
    BY <2>1, <2>2
  <2> QED BY <2>3
<1> HIDE DEF up
<1>4. NoiseStep(s) # {} /\ NoiseStep(s) \in SUBSET Bits
  BY <1>1, <1>2, <1>3 DEF Bits
<1>5. \A i \in 0 .. 21 : i + 1 \in NoiseStep(s) <=> i \in s
  BY <1>1, <1>2
<1>6. s # {} => (0 \in NoiseStep(s) <=> ((22 \in s) # (8 \in s)))
  BY <1>1, <1>2
<1> QED BY <1>4, <1>5, <1>6

\* What 2^k steps are, given what half as many are.
DoubleOf(g, k) ==
    [s \in SUBSET (0..22) |-> IF k = 0 THEN NoiseStep(s) ELSE g[k - 1][g[k - 1][s]]]

\* There is a function that is what the definition of NoiseSteps says,
LEMMA StepsExist ==
    \E g : g = [k \in 0..10 |-> DoubleOf(g, k)]
<1> DEFINE f0 == DoubleOf(<<>>, 0)
           g0 == [k \in 0..10 |-> f0]
           T == {k \in 0..10 : \E g : g = [j \in 0..10 |-> IF j <= k THEN DoubleOf(g, j) ELSE f0]}
<1>1. \E g : g = [k \in 0..10 |-> IF k <= 0 THEN DoubleOf(g, k) ELSE f0]
  <2>1. DoubleOf(g0, 0) = f0
    BY DEF DoubleOf
  <2>2. g0 = [k \in 0..10 |-> IF k <= 0 THEN DoubleOf(g0, k) ELSE f0]
    BY <2>1
  <2> QED BY <2>2
<1>2. ASSUME NEW n \in 0..9,
             \E g : g = [k \in 0..10 |-> IF k <= n THEN DoubleOf(g, k) ELSE f0]
      PROVE  \E g : g = [k \in 0..10 |-> IF k <= n + 1 THEN DoubleOf(g, k) ELSE f0]
  <2>1. PICK g : g = [k \in 0..10 |-> IF k <= n THEN DoubleOf(g, k) ELSE f0]
    BY <1>2
  <2> DEFINE h == [k \in 0..10 |-> IF k <= n THEN g[k] ELSE IF k = n + 1 THEN DoubleOf(g, k) ELSE f0]
  <2>2. ASSUME NEW k \in 0..10, k <= n + 1 PROVE DoubleOf(h, k) = DoubleOf(g, k)
    <3>1. CASE k = 0
      BY <3>1 DEF DoubleOf
    <3>2. CASE k # 0
      <4>1. h[k - 1] = g[k - 1]
        BY <2>2, <3>2
      <4> HIDE DEF h
      <4> QED BY <4>1 DEF DoubleOf
    <3> QED BY <3>1, <3>2
  <2>3. \A k \in 0..10 : h[k] = IF k <= n + 1 THEN DoubleOf(g, k) ELSE f0
    <3>1. \A k \in 0..10 : k <= n => g[k] = DoubleOf(g, k)
      BY <2>1
    <3> QED BY <3>1
  <2>4. DOMAIN h = 0..10 /\ h = [k \in 0..10 |-> h[k]]
    OBVIOUS
  <2> HIDE DEF h, f0
  <2>5. h = [k \in 0..10 |-> IF k <= n + 1 THEN DoubleOf(h, k) ELSE f0]
    BY <2>2, <2>3, <2>4
  <2> QED BY <2>5
<1> HIDE DEF f0
<1> DEFINE P(n) == \E g : g = [k \in 0..10 |-> IF k <= n THEN DoubleOf(g, k) ELSE f0]
<1>3. P(0) /\ \A n \in 0..9 : P(n) => P(n + 1)
  BY <1>1, <1>2
<1> HIDE DEF P
<1>4. P(10)
  BY <1>3
<1>5. PICK g : g = [k \in 0..10 |-> IF k <= 10 THEN DoubleOf(g, k) ELSE f0]
  BY <1>4 DEF P
<1>6. g = [k \in 0..10 |-> DoubleOf(g, k)]
  BY <1>5
<1> QED BY <1>6

\* and it is the only one.
LEMMA StepsAre == NoiseSteps = [k \in 0..10 |-> DoubleOf(NoiseSteps, k)]
<1>1. NoiseSteps = CHOOSE g : g = [k \in 0..10 |-> DoubleOf(g, k)]
  BY DEF NoiseSteps, DoubleOf
<1> QED BY <1>1, StepsExist

\* One, two, four, eight and sixteen steps.
LEMMA StepsDouble ==
    ASSUME NEW s \in SUBSET Bits
    PROVE  /\ NoiseSteps[0][s] = NoiseStep(s)
           /\ \A k \in 1..10 : NoiseSteps[k][s] = NoiseSteps[k - 1][NoiseSteps[k - 1][s]]
<1>1. \A k \in 0..10 : NoiseSteps[k] = DoubleOf(NoiseSteps, k)
  BY StepsAre
<1>2. NoiseSteps[0][s] = NoiseStep(s)
  <2>1. NoiseSteps[0] = DoubleOf(NoiseSteps, 0)
    BY <1>1
  <2> QED BY <2>1 DEF DoubleOf, Bits
<1>3. ASSUME NEW k \in 1..10 PROVE NoiseSteps[k][s] = NoiseSteps[k - 1][NoiseSteps[k - 1][s]]
  <2>1. NoiseSteps[k] = DoubleOf(NoiseSteps, k)
    BY <1>1
  <2> QED BY <2>1 DEF DoubleOf, Bits
<1> QED BY <1>2, <1>3

\* However many steps are taken, some bit is set.
LEMMA StepsStay ==
    ASSUME NEW k \in 0..10, NEW s \in SUBSET Bits
    PROVE  NoiseSteps[k][s] \in SUBSET Bits /\ NoiseSteps[k][s] # {}
<1> DEFINE P(n) == \A x \in SUBSET Bits : NoiseSteps[n][x] \in SUBSET Bits /\ NoiseSteps[n][x] # {}
<1>1. P(0)
  BY StepOfNoise, StepsDouble
<1>2. ASSUME NEW n \in 0..9, P(n) PROVE P(n + 1)
  <2> SUFFICES ASSUME NEW x \in SUBSET Bits
               PROVE  NoiseSteps[n + 1][x] \in SUBSET Bits /\ NoiseSteps[n + 1][x] # {}
    OBVIOUS
  <2>1. n + 1 \in 1..10 /\ (n + 1) - 1 = n
    OBVIOUS
  <2>2. NoiseSteps[n + 1][x] = NoiseSteps[n][NoiseSteps[n][x]]
    BY <2>1, StepsDouble
  <2> QED BY <1>2, <2>2
<1> HIDE DEF P
<1>3. P(0) /\ P(1) /\ P(2) /\ P(3) /\ P(4) /\ P(5) /\ P(6) /\ P(7) /\ P(8) /\ P(9) /\ P(10)
  BY <1>1, <1>2
<1>4. P(k)
  BY <1>3
<1> QED BY <1>4 DEF P

\* What step m feeds to the register s: of its own bits, from the tenth on of one that
\* was fed before.
Fed(s, m) ==
    (22 - m \in s) # (IF m <= 8 THEN 8 - m \in s ELSE (31 - m \in s) # (17 - m \in s))

\* n steps have moved the bits of s up, and fed as many.
Moved(t, s, n) ==
    /\ \A i \in n .. 22 : i \in t <=> i - n \in s
    /\ \A i \in 0 .. n - 1 : i \in t <=> Fed(s, n - 1 - i)

\* None have moved it.
LEMMA MovedNone ==
    ASSUME NEW s PROVE Moved(s, s, 0)
BY DEF Moved

\* One more does, of the eighteen of a pass.
LEMMA StepMoves ==
    ASSUME NEW s, NEW t \in SUBSET Bits, t # {}, NEW n \in 0 .. 17, Moved(t, s, n)
    PROVE  Moved(NoiseStep(t), s, n + 1)
<1> PICK u : u = NoiseStep(t)
  OBVIOUS
<1>1. /\ \A i \in 0 .. 21 : i + 1 \in u <=> i \in t
      /\ 0 \in u <=> ((22 \in t) # (8 \in t))
  BY StepOfNoise
<1>2. ASSUME NEW i \in n + 1 .. 22 PROVE i \in u <=> i - (n + 1) \in s
  <2>1. i - 1 \in 0 .. 21 /\ i - 1 \in n .. 22 /\ (i - 1) + 1 = i /\ (i - 1) - n = i - (n + 1)
    OBVIOUS
  <2>2. i - 1 \in t <=> (i - 1) - n \in s
    BY <2>1 DEF Moved
  <2>3. (i - 1) + 1 \in u <=> i - 1 \in t
    BY <1>1, <2>1
  <2> QED BY <2>1, <2>2, <2>3
<1>3. ASSUME NEW i \in 0 .. n PROVE i \in u <=> Fed(s, n - i)
  <2>1. CASE i = 0
    <3>1. 22 \in t <=> 22 - n \in s
      BY DEF Moved
    <3>2. CASE n <= 8
      <4>1. 8 \in t <=> 8 - n \in s
        BY <3>2 DEF Moved
      <4>2. n - i = n
        BY <2>1
      <4> QED BY <1>1, <2>1, <3>1, <3>2, <4>1, <4>2 DEF Fed
    <3>3. CASE ~(n <= 8)
      <4>1. 8 \in 0 .. n - 1 /\ n - 1 - 8 = n - 9 /\ n - 9 <= 8
            /\ 22 - (n - 9) = 31 - n /\ 8 - (n - 9) = 17 - n /\ n - i = n
        BY <2>1, <3>3
      <4>2. 8 \in t <=> Fed(s, n - 9)
        BY <4>1 DEF Moved
      <4>3. Fed(s, n - 9) <=> ((31 - n \in s) # (17 - n \in s))
        BY <4>1 DEF Fed
      <4> QED BY <1>1, <2>1, <3>1, <3>3, <4>1, <4>2, <4>3 DEF Fed
    <3> QED BY <3>2, <3>3
  <2>2. CASE i # 0
    <3>1. /\ i - 1 \in 0 .. 21 /\ i - 1 \in 0 .. n - 1 /\ (i - 1) + 1 = i
          /\ n - 1 - (i - 1) = n - i
      BY <2>2
    <3>2. i - 1 \in t <=> Fed(s, n - 1 - (i - 1))
      BY <3>1 DEF Moved
    <3>3. (i - 1) + 1 \in u <=> i - 1 \in t
      BY <1>1, <3>1
    <3> QED BY <3>1, <3>2, <3>3
  <2> QED BY <2>1, <2>2
<1>4. (n + 1) - 1 = n
  OBVIOUS
<1> QED BY <1>2, <1>3, <1>4 DEF Moved

\* d steps at once move it by d.
Moves(k, d) ==
    \A s \in SUBSET Bits : \A t \in (SUBSET Bits) \ {{}} : \A n \in 0 .. 18 - d :
        Moved(t, s, n) => Moved(NoiseSteps[k][t], s, n + d)

\* and twice as many by twice as many.
LEMMA MovesDouble ==
    ASSUME NEW k \in 0 .. 9, NEW d \in 1 .. 9, Moves(k, d)
    PROVE  Moves(k + 1, 2 * d)
<1> SUFFICES ASSUME NEW s \in SUBSET Bits, NEW t \in (SUBSET Bits) \ {{}}, NEW n \in 0 .. 18 - 2 * d,
                    Moved(t, s, n)
             PROVE  Moved(NoiseSteps[k + 1][t], s, n + 2 * d)
  BY DEF Moves
<1>1. k + 1 \in 1 .. 10 /\ (k + 1) - 1 = k /\ n \in 0 .. 18 - d /\ n + d \in 0 .. 18 - d
      /\ (n + d) + d = n + 2 * d
  OBVIOUS
<1>2. NoiseSteps[k + 1][t] = NoiseSteps[k][NoiseSteps[k][t]]
  BY <1>1, StepsDouble
<1> PICK u : u = NoiseSteps[k][t]
  OBVIOUS
<1>3. u \in (SUBSET Bits) \ {{}} /\ Moved(u, s, n + d)
  <2>1. k \in 0 .. 10 /\ t \in SUBSET Bits
    OBVIOUS
  <2>2. u \in SUBSET Bits /\ u # {}
    BY <2>1, StepsStay
  <2>3. Moved(NoiseSteps[k][t], s, n + d)
    BY <1>1 DEF Moves
  <2> QED BY <2>2, <2>3
<1>4. Moved(NoiseSteps[k][u], s, (n + d) + d)
  BY <1>1, <1>3 DEF Moves
<1> QED BY <1>1, <1>2, <1>4

\* noise_pass() is eighteen times noise_step().
LEMMA PassIsItsSteps ==
    ASSUME NEW s \in SUBSET Bits, s # {}
    PROVE  NoisePass(s) = NoiseSteps[1][NoiseSteps[4][s]]
<1>1. Moves(0, 1)
  <2> SUFFICES ASSUME NEW r \in SUBSET Bits, NEW t \in (SUBSET Bits) \ {{}}, NEW n \in 0 .. 17,
                      Moved(t, r, n)
               PROVE  Moved(NoiseSteps[0][t], r, n + 1)
    BY DEF Moves
  <2>1. t \in SUBSET Bits /\ t # {} /\ NoiseSteps[0][t] = NoiseStep(t)
    BY StepsDouble
  <2> QED BY <2>1, StepMoves
<1>2. Moves(1, 2)
  BY <1>1, MovesDouble
<1>3. Moves(2, 4)
  BY <1>2, MovesDouble
<1>4. Moves(3, 8)
  BY <1>3, MovesDouble
<1>5. Moves(4, 16)
  BY <1>4, MovesDouble
<1> PICK t : t = NoiseSteps[4][s]
  OBVIOUS
<1> PICK u : u = NoiseSteps[1][t]
  OBVIOUS
<1>6. t \in (SUBSET Bits) \ {{}} /\ Moved(t, s, 16)
  <2>1. 0 \in 0 .. 18 - 16 /\ 0 + 16 = 16 /\ Moved(s, s, 0)
    BY MovedNone
  <2>2. Moved(NoiseSteps[4][s], s, 0 + 16)
    <3>1. s \in (SUBSET Bits) \ {{}}
      OBVIOUS
    <3> QED BY ONLY <1>5, <2>1, <3>1, s \in SUBSET Bits DEF Moves
  <2>3. NoiseSteps[4][s] \in SUBSET Bits /\ NoiseSteps[4][s] # {}
    BY StepsStay
  <2> QED BY <2>1, <2>2, <2>3
<1>7. u \in SUBSET Bits /\ Moved(u, s, 18)
  <2>1. 16 \in 0 .. 18 - 2 /\ 16 + 2 = 18
    OBVIOUS
  <2>2. Moved(NoiseSteps[1][t], s, 16 + 2)
    BY ONLY <1>2, <1>6, <2>1, s \in SUBSET Bits DEF Moves
  <2> QED BY <1>6, <2>1, <2>2, StepsStay
<1>8. ASSUME NEW i \in 18 .. 22 PROVE i \in NoisePass(s) <=> i \in u
  <2>1. i \in u <=> i - 18 \in s
    BY <1>7 DEF Moved
  <2>2. i \in NoisePass(s) <=> i \in {j + 18 : j \in {m \in s : m < 5}}
    BY DEF NoisePass, HighBits, LowBitsOf
  <2>3. i \in {j + 18 : j \in {m \in s : m < 5}} <=> i - 18 \in s
    BY DEF Bits
  <2> QED BY <2>1, <2>2, <2>3
<1>9. ASSUME NEW i \in 9 .. 17 PROVE i \in u <=> i \in HighBits(s)
  <2>1. i \in u <=> Fed(s, 17 - i)
    <3>1. i \in 0 .. 18 - 1 /\ 18 - 1 - i = 17 - i
      OBVIOUS
    <3> QED BY <1>7, <3>1 DEF Moved
  <2>2. 17 - i <= 8 /\ 22 - (17 - i) = i + 5 /\ 8 - (17 - i) = i - 9
    OBVIOUS
  <2> QED BY <2>1, <2>2 DEF Fed, HighBits
<1>10. ASSUME NEW i \in 0 .. 8 PROVE i \in u <=> i \in LowBitsOf(s)
  <2>1. i \in u <=> Fed(s, 17 - i)
    <3>1. i \in 0 .. 18 - 1 /\ 18 - 1 - i = 17 - i
      OBVIOUS
    <3> QED BY <1>7, <3>1 DEF Moved
  <2>2. ~(17 - i <= 8) /\ 22 - (17 - i) = i + 5 /\ 31 - (17 - i) = i + 14 /\ 17 - (17 - i) = i
    OBVIOUS
  <2>3. i + 9 \in HighBits(s) <=> ((i + 14 \in s) # (i \in s))
    <3>1. i + 9 \in 9 .. 17 /\ (i + 9) + 5 = i + 14 /\ (i + 9) - 9 = i
      OBVIOUS
    <3> QED BY <3>1 DEF HighBits
  <2> QED BY <2>1, <2>2, <2>3 DEF Fed, LowBitsOf
<1>11. ASSUME NEW i \in 0 .. 17 PROVE i \in NoisePass(s) <=> i \in HighBits(s) \/ i \in LowBitsOf(s)
  <2>1. i \notin {j + 18 : j \in {m \in s : m < 5}}
    BY DEF Bits
  <2> QED BY <2>1 DEF NoisePass
<1>12. NoisePass(s) \in SUBSET Bits
  BY DEF NoisePass, HighBits, LowBitsOf, Bits
<1>13. \A i \in Bits : i \in NoisePass(s) <=> i \in u
  <2> SUFFICES ASSUME NEW i \in Bits PROVE i \in NoisePass(s) <=> i \in u
    OBVIOUS
  <2>1. CASE i \in 18 .. 22
    BY <1>8, <2>1
  <2>2. CASE i \in 9 .. 17
    <3>1. i \notin LowBitsOf(s)
      BY <2>2 DEF LowBitsOf
    <3> QED BY <1>9, <1>11, <2>2, <3>1
  <2>3. CASE i \in 0 .. 8
    <3>1. i \notin HighBits(s)
      BY <2>3 DEF HighBits
    <3> QED BY <1>10, <1>11, <2>3, <3>1
  <2> QED BY <2>1, <2>2, <2>3 DEF Bits
<1> QED BY <1>7, <1>12, <1>13

-----------------------------------------------------------------------------
(* The queue of the two slots, and the theorem.                            *)

\* A value stored moves the others on.
LEMMA StoreOf ==
    ASSUME NEW a, NEW b, NEW c, NEW d, NEW v
    PROVE  Store(<<a, b, c, d>>, v) = <<v, a, b, c>>
<1> DEFINE S == {a, b, c, d, v}
<1> PICK q : q = <<a, b, c, d>>
  OBVIOUS
<1>1. q \in Seq(S) /\ Len(q) = 4 /\ q[1] = a /\ q[2] = b /\ q[3] = c
  OBVIOUS
<1> PICK u : u = SubSeq(q, 1, 3)
  OBVIOUS
<1>2. u \in Seq(S) /\ Len(u) = 3 /\ u[1] = a /\ u[2] = b /\ u[3] = c
  BY <1>1, SubSeqProperties
<1>3. <<v>> \in Seq(S) /\ Len(<<v>>) = 1 /\ <<v>>[1] = v
  OBVIOUS
<1> PICK w : w = <<v>> \o u
  OBVIOUS
<1>4. w \in Seq(S) /\ Len(w) = 4 /\ w[1] = v /\ w[2] = a /\ w[3] = b /\ w[4] = c
  BY <1>2, <1>3, ConcatProperties
<1>5. <<v, a, b, c>> \in Seq(S) /\ Len(<<v, a, b, c>>) = 4
  OBVIOUS
<1>6. \A i \in 1 .. 4 : w[i] = <<v, a, b, c>>[i]
  BY <1>4
<1>7. w = <<v, a, b, c>>
  BY <1>4, <1>5, <1>6, SeqEqual
<1> QED BY <1>7 DEF Store

\* A pass that does not hold the low slot leaves what both slots stored in the first
\* two places, and one after it, what they stored in both.
QueueFollows ==
    /\ unheld >= 1 => stored[1] = outputs.high[1] /\ stored[2] = outputs.low[1]
    /\ unheld = 2 => stored[3] = outputs.high[2] /\ stored[4] = outputs.low[2]

\* The inductive invariant.
SharedIInv ==
    /\ noise \in SUBSET Bits /\ noise # {}
    /\ hold \in BOOLEAN /\ unheld \in 0 .. 2
    /\ stored = <<stored[1], stored[2], stored[3], stored[4]>>
    /\ outputs = [low |-> <<outputs.low[1], outputs.low[2]>>,
                  high |-> <<outputs.high[1], outputs.high[2]>>]
    /\ QueueFollows

\* It holds after a reset,
LEMMA SharedStarts ==
    ASSUME SharedInit PROVE SharedIInv
<1>1. NoiseAfterReset \in SUBSET Bits /\ NoiseAfterReset # {}
  <2>1. \A k \in 0 .. 10 : \A s \in SUBSET Bits :
           NoiseSteps[k][s] \in SUBSET Bits /\ NoiseSteps[k][s] # {}
    BY StepsStay
  <2>0. /\ 3 \in 0 .. 10 /\ 4 \in 0 .. 10 /\ 5 \in 0 .. 10 /\ 6 \in 0 .. 10
        /\ 7 \in 0 .. 10 /\ 9 \in 0 .. 10 /\ 10 \in 0 .. 10
    OBVIOUS
  <2> PICK s10 \in SUBSET Bits : s10 = NoiseSteps[10][{}]
    <3>2. NoiseSteps[10][{}] \in SUBSET Bits
      BY ONLY <2>0, <2>1
    <3> QED BY <3>2
  <2> PICK s9 \in SUBSET Bits : s9 = NoiseSteps[9][s10]
    <3>2. NoiseSteps[9][s10] \in SUBSET Bits
      BY ONLY <2>0, <2>1, s10 \in SUBSET Bits
    <3> QED BY <3>2
  <2> PICK s7 \in SUBSET Bits : s7 = NoiseSteps[7][s9]
    <3>2. NoiseSteps[7][s9] \in SUBSET Bits
      BY ONLY <2>0, <2>1, s9 \in SUBSET Bits
    <3> QED BY <3>2
  <2> PICK s6 \in SUBSET Bits : s6 = NoiseSteps[6][s7]
    <3>2. NoiseSteps[6][s7] \in SUBSET Bits
      BY ONLY <2>0, <2>1, s7 \in SUBSET Bits
    <3> QED BY <3>2
  <2> PICK s5 \in SUBSET Bits : s5 = NoiseSteps[5][s6]
    <3>2. NoiseSteps[5][s6] \in SUBSET Bits
      BY ONLY <2>0, <2>1, s6 \in SUBSET Bits
    <3> QED BY <3>2
  <2> PICK s4 \in SUBSET Bits : s4 = NoiseSteps[4][s5]
    <3>2. NoiseSteps[4][s5] \in SUBSET Bits
      BY ONLY <2>0, <2>1, s5 \in SUBSET Bits
    <3> QED BY <3>2
  <2> PICK s3 \in SUBSET Bits : s3 = NoiseSteps[3][s4]
    <3>2. NoiseSteps[3][s4] \in SUBSET Bits
      BY ONLY <2>0, <2>1, s4 \in SUBSET Bits
    <3> QED BY <3>2
  <2>2. NoiseAfterReset = s3
    BY DEF NoiseAfterReset
  <2>3. s3 # {}
    <3> QED BY ONLY <2>0, <2>1, s4 \in SUBSET Bits, s3 = NoiseSteps[3][s4]
  <2> QED BY <2>2, <2>3
<1>2. noise = NoiseAfterReset /\ hold = FALSE /\ unheld = 2
      /\ stored = <<High(3), Low(3), High(2), Low(2)>>
      /\ outputs = [low |-> <<Low(3), Low(2)>>, high |-> <<High(3), High(2)>>]
  BY DEF SharedInit
<1>3. QueueFollows
  BY <1>2 DEF QueueFollows
<1>4. hold \in BOOLEAN /\ unheld \in 0 .. 2
  <2>1. hold = FALSE /\ unheld = 2
    BY <1>2
  <2>2. hold \in BOOLEAN
    BY ONLY <2>1
  <2>3. unheld \in 0 .. 2
    BY ONLY <2>1
  <2> QED BY <2>2, <2>3
<1>5. stored = <<stored[1], stored[2], stored[3], stored[4]>>
  BY <1>2
<1>6. outputs = [low |-> <<outputs.low[1], outputs.low[2]>>,
                 high |-> <<outputs.high[1], outputs.high[2]>>]
  BY <1>2
<1>7. noise \in SUBSET Bits /\ noise # {}
  BY <1>1, <1>2
<1> QED BY <1>3, <1>4, <1>5, <1>6, <1>7 DEF SharedIInv

\* and after every pass.
LEMMA SharedKeeps ==
    ASSUME SharedIInv, SharedNext PROVE SharedIInv'
<1> PICK q1, q2, q3, q4 : q1 = stored[1] /\ q2 = stored[2] /\ q3 = stored[3] /\ q4 = stored[4]
  OBVIOUS
<1> PICK low, high : low = Low(passes) /\ high = High(passes)
  OBVIOUS
<1>1. stored = <<q1, q2, q3, q4>> /\ noise \in SUBSET Bits /\ noise # {}
      /\ hold \in BOOLEAN /\ unheld \in 0 .. 2
  BY DEF SharedIInv
<1>2. /\ noise' = NoisePass(noise) /\ stored' = StoreBoth(stored, passes)
      /\ outputs' = [low |-> <<low, outputs.low[1]>>, high |-> <<high, outputs.high[1]>>]
      /\ hold' \in BOOLEAN
      /\ unheld' = IF hold THEN 0 ELSE IF unheld < 2 THEN unheld + 1 ELSE 2
  BY <1>1 DEF SharedNext
<1>3. noise' \in SUBSET Bits /\ noise' # {}
  <2>1. noise' = NoiseSteps[1][NoiseSteps[4][noise]]
    BY <1>1, <1>2, PassIsItsSteps
  <2>2. NoiseSteps[4][noise] \in SUBSET Bits
    BY <1>1, StepsStay
  <2> QED BY <2>1, <2>2, StepsStay
<1>4. CASE hold
  <2>1. stored' = <<high, q1, q2, q3>>
    BY <1>1, <1>2, <1>4, StoreOf DEF StoreBoth
  <2>2. unheld' = 0
    BY <1>2, <1>4
  <2>3. QueueFollows'
    BY <2>2 DEF QueueFollows
  <2> QED BY <1>2, <1>3, <2>1, <2>2, <2>3 DEF SharedIInv
<1>5. CASE ~hold
  <2>1. stored' = <<high, low, q1, q2>>
    <3>1. Store(stored, low) = <<low, q1, q2, q3>>
      BY <1>1, StoreOf
    <3>2. Store(<<low, q1, q2, q3>>, high) = <<high, low, q1, q2>>
      BY StoreOf
    <3> QED BY <1>2, <1>5, <3>1, <3>2 DEF StoreBoth
  <2>2. unheld' \in 1 .. 2 /\ (unheld' = 2 => unheld >= 1)
    BY <1>1, <1>2, <1>5
  <2>3. /\ stored'[1] = high /\ stored'[2] = low /\ stored'[3] = q1 /\ stored'[4] = q2
        /\ outputs'.high[1] = high /\ outputs'.low[1] = low
        /\ outputs'.high[2] = outputs.high[1] /\ outputs'.low[2] = outputs.low[1]
    BY <1>2, <2>1
  <2>4. unheld >= 1 => q1 = outputs.high[1] /\ q2 = outputs.low[1]
    BY DEF SharedIInv, QueueFollows
  <2>5. QueueFollows'
    BY <2>2, <2>3, <2>4 DEF QueueFollows
  <2> QED BY <1>2, <1>3, <2>1, <2>2, <2>5 DEF SharedIInv
<1> QED BY <1>1, <1>4, <1>5

\* The noise of a pass is what its eighteen steps make it, from any register but the empty
\* one, which none is left with; and two passes after rhythm mode both slots of the queue
\* read their own last two values again, whenever it was switched.
THEOREM SharedCorrect == SharedSpec => []SharedIsAsIfOwn
<1>1. ASSUME SharedIInv, [SharedNext]_sharedVars PROVE SharedIInv'
  <2>1. CASE SharedNext
    BY <1>1, <2>1, SharedKeeps
  <2>2. CASE UNCHANGED sharedVars
    BY <1>1, <2>2 DEF sharedVars, SharedIInv, QueueFollows
  <2> QED BY <1>1, <2>1, <2>2
<1>2. ASSUME SharedIInv PROVE SharedIsAsIfOwn
  <2>1. NoisePassIsItsSteps
    BY <1>2, PassIsItsSteps DEF SharedIInv, NoisePassIsItsSteps
  <2>2. ASSUME unheld = 2 PROVE LowReads(stored) = outputs.low
    <3>1. outputs.low = <<outputs.low[1], outputs.low[2]>>
      BY <1>2 DEF SharedIInv
    <3>2. stored[2] = outputs.low[1] /\ stored[4] = outputs.low[2]
      BY <1>2, <2>2 DEF SharedIInv, QueueFollows
    <3> QED BY <3>1, <3>2 DEF LowReads
  <2>3. ASSUME unheld = 2, ~hold PROVE HighReads(stored, hold) = outputs.high
    <3>1. outputs.high = <<outputs.high[1], outputs.high[2]>>
      BY <1>2 DEF SharedIInv
    <3>2. stored[1] = outputs.high[1] /\ stored[3] = outputs.high[2]
      BY <1>2, <2>3 DEF SharedIInv, QueueFollows
    <3> QED BY <2>3, <3>1, <3>2 DEF HighReads
  <2> QED BY <2>1, <2>2, <2>3 DEF SharedIsAsIfOwn, FeedbackIsItsOwn
<1> QED BY <1>1, <1>2, SharedStarts, PTL DEF SharedSpec

-----------------------------------------------------------------------------
(* The envelope.                                                           *)

\* The stages of the envelope (opl3_envelope_state).
Stages == {"attack", "decay", "sustain", "release"}

\* What the direction of the level rests on: it has nine bits. The timer may hold anything.
EnvelopeIInv ==
    /\ voice \in Voices /\ key \in 0 .. 1
    /\ stage \in Stages /\ level \in 0 .. Silence

\* The bits of a voice, one by one.
LEMMA VoiceBits ==
    ASSUME NEW v \in Voices
    PROVE  /\ v.ar \in 0 .. 15 /\ v.dr \in 0 .. 15 /\ v.sl \in 0 .. 15 /\ v.rr \in 0 .. 15
           /\ v.egt \in 0 .. 1 /\ v.ksr \in 0 .. 15
BY EnvelopeAssumption

\* scaled_rate() stays in four bits, whatever the key scaling adds.
LEMMA RateInFourBits ==
    ASSUME NEW v \in Voices, NEW st \in Stages
    PROVE  ScaledRate(v, st) \in 0 .. 15
<1>1. RegisterRate(v, st) \in 0 .. 15
  BY VoiceBits DEF RegisterRate, Stages
<1>2. v.ksr \div 4 \in 0 .. 3
  <2>1. PICK ksr \in 0 .. 15 : ksr = v.ksr
    BY VoiceBits
  <2>2. ksr \div 4 \in 0 .. 3
    OBVIOUS
  <2> QED BY <2>1, <2>2
<1> QED BY <1>1, <1>2 DEF ScaledRate, Min2

\* A step is none, a quarter, a half or the whole, whatever the timer says.
LEMMA StepOfFour ==
    ASSUME NEW v \in Voices, NEW st \in Stages, NEW t
    PROVE  Step(v, st, t) \in 0 .. 3
<1>1. PICK rate \in 0 .. 15 : rate = ScaledRate(v, st)
  BY RateInFourBits
<1>2. CASE rate >= 12
  <2>1. Min2(rate - 12 + 0, 3) \in 0 .. 3 /\ Min2(rate - 12 + 1, 3) \in 0 .. 3
    BY <1>2 DEF Min2
  <2>2. \/ Step(v, st, t) = Min2(rate - 12 + 0, 3)
        \/ Step(v, st, t) = Min2(rate - 12 + 1, 3)
    BY <1>1, <1>2 DEF Step
  <2> QED BY <2>1, <2>2
<1>3. CASE rate < 12
  <2>1. Step(v, st, t) = 0 \/ Step(v, st, t) = 1
    BY <1>1, <1>3 DEF Step
  <2> QED BY <2>1
<1> QED BY <1>2, <1>3

\* An attack adds the complement of the level, or a part of it, in nine bits: that takes
\* from the level, and not more than there is.
LEMMA AttackTakes ==
    ASSUME NEW l \in 1 .. Silence, NEW step \in 1 .. 3
    PROVE  NineBits(l + AttackAdd(l, step)) \in 0 .. l
<1>1. PICK half \in 0 .. 255 : half = l \div 2 /\ (l = 2 * half \/ l = 2 * half + 1)
  BY DEF Silence
<1>2. CASE step = 1
  <2>1. AttackAdd(l, step) = (255 - half) \div 4 + 448
    <3>1. 2^(3 - step) = 4
      BY <1>2
    <3>2. <<192, 128, 0>>[step] = 192
      BY <1>2
    <3> QED BY <1>1, <3>1, <3>2 DEF AttackAdd
  <2>2. PICK q \in 0 .. 63 : q = (255 - half) \div 4 /\ 4 * q + 3 >= 255 - half
    OBVIOUS
  <2>3. l + AttackAdd(l, step) >= 512 /\ l + AttackAdd(l, step) <= 512 + l
    BY <1>1, <2>1, <2>2 DEF Silence
  <2> QED BY <2>1, <2>2, <2>3 DEF NineBits, Silence
<1>3. CASE step = 2
  <2>1. AttackAdd(l, step) = (255 - half) \div 2 + 384
    <3>1. 2^(3 - step) = 2
      BY <1>3
    <3>2. <<192, 128, 0>>[step] = 128
      BY <1>3
    <3> QED BY <1>1, <3>1, <3>2 DEF AttackAdd
  <2>2. PICK q \in 0 .. 127 : q = (255 - half) \div 2 /\ 2 * q + 1 >= 255 - half
    OBVIOUS
  <2>3. l + AttackAdd(l, step) >= 512 /\ l + AttackAdd(l, step) <= 512 + l
    BY <1>1, <2>1, <2>2 DEF Silence
  <2> QED BY <2>1, <2>2, <2>3 DEF NineBits, Silence
<1>4. CASE step = 3
  <2>1. AttackAdd(l, step) = 255 - half + 256
    <3>1. 2^(3 - step) = 1
      BY <1>4
    <3>2. <<192, 128, 0>>[step] = 0
      BY <1>4
    <3> QED BY <1>1, <3>1, <3>2 DEF AttackAdd
  <2>2. l + AttackAdd(l, step) >= 512 /\ l + AttackAdd(l, step) <= 512 + l
    BY <1>1, <2>1 DEF Silence
  <2> QED BY <2>1, <2>2 DEF NineBits, Silence
<1> QED BY <1>2, <1>3, <1>4

\* A pass leaves the level in nine bits, and moves it one way.
LEMMA PassMovesLevel ==
    ASSUME EnvelopeIInv
    PROVE  /\ NextLevel \in 0 .. Silence
           /\ NextLevel < level => key = 1 /\ stage \in {"attack", "release"}
           /\ NextLevel > level => stage # "attack"
<1>1. PICK step \in 0 .. 3 : step = Step(voice, IF KeyedOn THEN "attack" ELSE stage, timer)
  BY StepOfFour DEF EnvelopeIInv, Stages
<1>2. level \in 0 .. 511 /\ key \in 0 .. 1 /\ stage \in Stages
  BY DEF EnvelopeIInv, Silence
<1>3. PICK from : from = CASE KeyedOn /\ FullRate -> 0
                           [] ~KeyedOn /\ stage # "attack" /\ Silent(level) -> Silence
                           [] OTHER -> level
  OBVIOUS
<1>4. PICK add : add = CASE step = 0 -> 0
                         [] step # 0 /\ Exponent -> AttackAdd(level, step)
                         [] step # 0 /\ ~Exponent /\ Linear -> 4 \div 2^(3 - step)
                         [] OTHER -> 0
  OBVIOUS
<1>5. NextLevel = NineBits(from + add)
  BY <1>1, <1>3, <1>4 DEF NextLevel
<1>6. CASE KeyedOn
  <2>1. add = 0 /\ (from = 0 \/ from = level)
    BY <1>3, <1>4, <1>6 DEF KeyedOn, Exponent, Linear
  <2>2. NextLevel = 0 \/ NextLevel = level
    BY <1>2, <1>5, <2>1 DEF NineBits
  <2> QED BY <1>2, <1>6, <2>2 DEF KeyedOn, Silence
<1>7. CASE ~KeyedOn /\ step # 0 /\ Exponent
  <2>1. from = level /\ add = AttackAdd(level, step) /\ level # 0
    BY <1>3, <1>4, <1>7 DEF KeyedOn, Exponent
  <2>2. level \in 1 .. Silence /\ step \in 1 .. 3
    BY <1>1, <1>2, <1>7, <2>1 DEF Silence
  <2>3. NextLevel \in 0 .. level
    BY <1>5, <2>1, <2>2, AttackTakes
  <2> QED BY <1>2, <1>7, <2>3 DEF Exponent, Silence
<1>8. CASE ~KeyedOn /\ ~(step # 0 /\ Exponent) /\ Linear
  <2>1. from = level /\ level < 504 /\ stage # "attack"
    BY <1>2, <1>3, <1>8 DEF Linear, Silent
  <2>2. add \in 0 .. 4
    <3>1. CASE step = 0
      BY <1>4, <3>1
    <3>2. CASE step = 1
      <4>1. 4 \div 2^(3 - step) = 1
        BY <3>2
      <4> QED BY <1>4, <1>8, <3>2, <4>1
    <3>3. CASE step = 2
      <4>1. 4 \div 2^(3 - step) = 2
        BY <3>3
      <4> QED BY <1>4, <1>8, <3>3, <4>1
    <3>4. CASE step = 3
      <4>1. 4 \div 2^(3 - step) = 4
        BY <3>4
      <4> QED BY <1>4, <1>8, <3>4, <4>1
    <3> QED BY <3>1, <3>2, <3>3, <3>4
  <2>3. NextLevel = level + add
    BY <1>2, <1>5, <2>1, <2>2 DEF NineBits
  <2> QED BY <1>2, <2>1, <2>2, <2>3 DEF Silence
<1>9. CASE ~KeyedOn /\ ~(step # 0 /\ Exponent) /\ ~Linear
  <2>1. add = 0
    BY <1>4, <1>9
  <2>2. \/ from = level
        \/ from = 511 /\ stage # "attack"
    BY <1>3, <1>9 DEF Silence
  <2>3. NextLevel = level \/ (NextLevel = 511 /\ stage # "attack")
    BY <1>2, <1>5, <2>1, <2>2 DEF NineBits
  <2> QED BY <1>2, <2>3 DEF Silence
<1> QED BY <1>6, <1>7, <1>8, <1>9

\* The invariant, and what a pass may do to the level.
LEMMA EnvelopeInductive ==
    /\ EnvelopeInit => EnvelopeIInv
    /\ EnvelopeIInv /\ [EnvelopeNext]_envelopeVars => EnvelopeIInv'
    /\ EnvelopeIInv /\ [EnvelopeNext]_envelopeVars =>
          [/\ level' < level => key = 1 /\ stage \in {"attack", "release"}
           /\ level' > level => stage # "attack"]_envelopeVars
<1>1. EnvelopeInit => EnvelopeIInv
  BY DEF EnvelopeInit, EnvelopeIInv, Stages, Silence
<1>2. ASSUME EnvelopeIInv, [EnvelopeNext]_envelopeVars
      PROVE  /\ EnvelopeIInv'
             /\ [/\ level' < level => key = 1 /\ stage \in {"attack", "release"}
                 /\ level' > level => stage # "attack"]_envelopeVars
  <2>1. CASE Pass
    <3>1. /\ voice' = voice /\ key' = key /\ stage' = NextStage /\ level' = NextLevel
      BY <2>1 DEF Pass
    <3>2. NextStage \in Stages
      BY <1>2 DEF NextStage, EnvelopeIInv, Stages
    <3> QED BY <1>2, <3>1, <3>2, PassMovesLevel DEF EnvelopeIInv
  <2>2. ASSUME level' = level, stage' = stage, voice' \in Voices, key' \in 0 .. 1
        PROVE  /\ EnvelopeIInv'
               /\ ~(level' < level) /\ ~(level' > level)
    BY <1>2, <2>2 DEF EnvelopeIInv, Silence
  <2>3. CASE Key
    <3>1. level' = level /\ stage' = stage /\ voice' \in Voices /\ key' \in 0 .. 1
      BY <1>2, <2>3 DEF Key, EnvelopeIInv
    <3> QED BY <2>2, <3>1
  <2>4. CASE \E v \in Voices : WriteVoice(v)
    <3>1. level' = level /\ stage' = stage /\ voice' \in Voices /\ key' \in 0 .. 1
      BY <1>2, <2>4 DEF WriteVoice, EnvelopeIInv
    <3> QED BY <2>2, <3>1
  <2>5. CASE UNCHANGED envelopeVars
    <3>1. level' = level /\ stage' = stage /\ voice' \in Voices /\ key' \in 0 .. 1
      BY <1>2, <2>5 DEF envelopeVars, EnvelopeIInv
    <3> QED BY <2>2, <3>1
  <2> QED BY <1>2, <2>1, <2>3, <2>4, <2>5 DEF EnvelopeNext
<1> QED BY <1>1, <1>2

\* A slot grows louder only in an attack and quieter only outside of one (envelope()):
\* the nine bits of the level never wrap around, for all rates, however they are written
\* and the slot is keyed on the way, and whatever the timer of the chip says.
THEOREM LevelCorrect == EnvelopeSpec => LevelGoesOneWay
BY EnvelopeInductive, PTL DEF EnvelopeSpec, LevelGoesOneWay

\* And what the slot has of its state is of its kind.
THEOREM LevelTypeCorrect == EnvelopeSpec => []EnvelopeIInv
BY EnvelopeInductive, PTL DEF EnvelopeSpec
===============================================================================
