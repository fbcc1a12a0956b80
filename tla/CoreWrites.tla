------------------------------ MODULE CoreWrites ------------------------------
(***************************************************************************)
(* The register writes of the OPL3 core (sources/opl3/core/core.cc).  A    *)
(* write waits in a queue, has its address sent, then its data, reaches    *)
(* the registers at a slot time of a pass, and is read by each slot at a   *)
(* moment of its own in that pass or the next ones.  The core keeps no     *)
(* history of the registers: it has what they hold, a copy of the          *)
(* channels' registers for every slot (spread), what every slot last read  *)
(* (relatch), and when the last write came.                                *)
(*                                                                         *)
(* Time is in slot times: a pass has 36, one sample of the chip.  Only some  *)
(* slots and the channels they go by are watched.                          *)
(***************************************************************************)
EXTENDS Integers, Sequences, FiniteSets, SequencesExt

CONSTANTS Watches,    \* sets of slots, of 0..35, of which one is watched
          Writes,     \* the writes a player makes: records of address, value
          QueueSize,  \* queue_size
          AddressToData, DataToAddress   \* address_to_data, data_to_address

ASSUME CoreAssumption ==
    /\ Watches \subseteq SUBSET (0..35)
    /\ Writes \subseteq [address : 0..511, value : 0..255]
    /\ QueueSize \in Nat \ {0}
    /\ AddressToData \in Nat \ {0} /\ DataToAddress \in Nat
    /\ DataToAddress >= 70   \* no data is sent before the last has reached the registers

VARIABLES
    queue,      \* queue_: the writes that wait, and whether the address is sent
    wait,       \* queue_wait_
    next,       \* landing_next_: a write due in the next pass, or None
    registers,  \* the registers as written
    array,      \* array_bank_, array_reg_, array_value_
    copies,     \* ch_fnum_ ... second_con_: the channels' registers, by slot
    held,       \* lfnum_ ... lrhythm_after_: what each slot last read
    age, landed,\* landed_age_, landed_slot_time_
    history,    \* what slots would read of the registers of late, and since when
    chip        \* what each slot of the chip reads in the pass worked out

coreVars == <<queue, wait, next, registers, array, copies, held, age, landed, history, chip>>

None == [due |-> FALSE]
Bit(v, i) == (v \div 2^i) % 2

(***************************************************************************)
(* Where a slot is.                                                        *)
(***************************************************************************)
BankOf(s) == s \div 18
RowOf(s) == s % 18
ChannelOf(s) == BankOf(s) * 9 + (RowOf(s) \div 6) * 3 + (RowOf(s) % 3)
FirstOperator(s) == RowOf(s) % 6 < 3
ChainOf(s) == IF RowOf(s) < 12 THEN BankOf(s) * 3 + (RowOf(s) % 3) ELSE -1

\* The chain a channel is of, and whether it is its second.
ChainOfChannel(c) == IF c % 9 < 6 THEN (c \div 9) * 3 + (c % 3) ELSE -1
SecondOfChain(c) == c % 9 \in 3..5

\* The channels whose registers a watched slot goes by.
ChannelsFor(slots) ==
    LET own == {ChannelOf(s) : s \in slots}
    IN  own \cup {c - 3 : c \in {d \in own : SecondOfChain(d)}}
            \cup {c + 3 : c \in {d \in own : d % 9 < 3}}

(***************************************************************************)
(* What a slot reads, by name, and at which slot time of a pass, which for *)
(* slot 0 may be one of the pass before.                                   *)
(***************************************************************************)
ConnectionTime(s) == (IF FirstOperator(s) THEN s ELSE s - 3) - 1

ReadTime[s \in 0..35] ==
    LET chainFirst == IF ChainOf(s) < 0 THEN s ELSE BankOf(s) * 18 + (RowOf(s) % 3)
    IN  [own |-> s - 1, fnum |-> s - 1, block |-> s - 1, key |-> s - 1, pan |-> s - 1,
         con |-> ConnectionTime(s), firstCon |-> chainFirst - 1, secondCon |-> chainFirst - 1,
         fb |-> s - 4, whole |-> s, rhythmKeys |-> 12, rhythmBefore |-> s - 1, rhythm |-> s,
         rhythmAfter |-> s + 2,
         fourOp |-> IF ChainOf(s) < 0 THEN s ELSE BankOf(s) * 18 + 5 + (RowOf(s) % 3)]

\* The registers, as copied for slot s, by the names of ReadTime.
Read(r, copy, s) ==
    [own |-> r.own[s], fnum |-> copy.fnum, block |-> copy.block, key |-> copy.key,
     pan |-> copy.pan, con |-> copy.con, firstCon |-> copy.firstCon,
     secondCon |-> copy.secondCon, fb |-> copy.fb, whole |-> r.whole,
     rhythmKeys |-> r.rhythm, rhythmBefore |-> r.rhythm, rhythm |-> r.rhythm,
     rhythmAfter |-> r.rhythm, fourOp |-> r.fourOp]

Fields == {"own", "fnum", "block", "key", "pan", "con", "firstCon", "secondCon", "fb", "whole",
           "rhythmKeys", "rhythmBefore", "rhythm", "rhythmAfter", "fourOp"}

(***************************************************************************)
(* The registers.  "own" stands for the five of a slot (0x20, 0x40, 0x60,  *)
(* 0x80 and 0xe0) and "whole" for the note select and the low bits of 0xbd *)
(* that are read the same way.                                             *)
(***************************************************************************)
NoRegisters(slots) ==
    [own |-> [s \in slots |-> [g \in {1, 2, 3, 4, 7} |-> 0]],
     channel |-> [c \in ChannelsFor(slots) |-> [fnum |-> 0, block |-> 0, key |-> 0, con |-> 0,
                                      conPair |-> 0, fb |-> 0, pan |-> 3]],
     newm |-> 0, fourOp |-> 0, rhythm |-> 0,
     whole |-> [nts |-> 0, drumKeys |-> 0, dam |-> 0, dvb |-> 0]]

NoArray == [bank |-> 0, reg |-> 0, value |-> 0]

\* The slot an address from 0x20 on names in its bank, or -1.
SlotOfOffset(o) ==
    IF o % 8 > 5 \/ o > 21 THEN -1 ELSE (o \div 8) * 6 + (o % 8)

\* 0xcc to 0xce, whichever bank they are written to.
ToFirstBank(reg) == reg \in 204..206

\* The channel that a register from 0xa0 to 0xcf is of, or -1.
ChannelWritten(bank, reg) ==
    LET c == reg % 16
        decoded == IF c \in {9, 10} THEN c - 2 ELSE c
    IN  CASE ToFirstBank(reg) -> c - 9
          [] ~ToFirstBank(reg) /\ decoded <= 8 -> bank * 9 + decoded
          [] OTHER -> -1

ChannelWith(r, ch, reg, value) ==
    LET old == r.channel[ch]
    IN  CASE ToFirstBank(reg) ->
               [old EXCEPT !.conPair = value % 2, !.fb = (value \div 2) % 8]
          [] reg \div 16 = 10 -> [old EXCEPT !.fnum = (@ \div 256) * 256 + value]
          [] reg \div 16 = 11 ->
               [old EXCEPT !.fnum = (@ % 256) + (value % 4) * 256,
                           !.block = (value \div 4) % 8, !.key = Bit(value, 5)]
          [] OTHER ->
               [old EXCEPT !.con = value % 2, !.conPair = value % 2,
                           !.fb = (value \div 2) % 8,
                           !.pan = IF r.newm = 1 THEN (value \div 16) % 16 ELSE 3]

\* The registers after apply_array.
ArrayWritten(r, a) ==
    LET ch == ChannelWritten(a.bank, a.reg)
        s == a.bank * 18 + SlotOfOffset(a.reg % 32)
        group == a.reg \div 32
    IN  IF a.reg \in 160..207
        THEN IF ch \in DOMAIN r.channel
             THEN [r EXCEPT !.channel[ch] = ChannelWith(r, ch, a.reg, a.value)]
             ELSE r
        ELSE IF SlotOfOffset(a.reg % 32) >= 0 /\ s \in DOMAIN r.own /\ group \in {1, 2, 3, 4, 7}
             THEN [r EXCEPT !.own[s][group] =
                     IF group = 7 THEN a.value % (IF r.newm = 1 THEN 8 ELSE 4) ELSE a.value]
             ELSE r

\* Wrong, to try the checks: a chain's second channel keeps its old copy.
SpreadByOne(a) ==
    LET ch == ChannelWritten(a.bank, a.reg)
    IN  IF a.reg \in 160..207 /\ ch >= 0 THEN {ch} ELSE {}

\* The channels that apply_array spreads.
SpreadBy(a) ==
    LET ch == ChannelWritten(a.bank, a.reg)
    IN  IF a.reg \in 160..207 /\ ch >= 0
        THEN {ch} \cup (IF ch % 9 < 3 THEN {ch + 3} ELSE {})
        ELSE {}

\* What the channels' registers are for slot s as they stand.
CopyFor(r, s) ==
    LET ch == ChannelOf(s)
        paired == SecondOfChain(ch) /\ Bit(r.fourOp, ChainOfChannel(ch)) = 1
        by == r.channel[IF paired THEN ch - 3 ELSE ch]
        own == r.channel[ch]
        first == IF SecondOfChain(ch) THEN ch - 3 ELSE ch
    IN  [fnum |-> by.fnum, block |-> by.block, key |-> by.key,
         con |-> own.con, fb |-> own.fb, pan |-> own.pan,
         firstCon |-> IF ChainOf(s) < 0 THEN 0 ELSE r.channel[first].con,
         secondCon |-> IF ChainOf(s) < 0 THEN 0 ELSE r.channel[first + 3].conPair]

\* spread(): the slots of the channel take its copies, and those of its chain
\* the connection it gives them.
Spread(cs, r, chs) ==
    [s \in DOMAIN cs |->
       LET now == CopyFor(r, s)
           ch == ChannelOf(s)
           first == IF SecondOfChain(ch) THEN ch - 3 ELSE ch
           mine == IF ch \in chs
                   THEN [now EXCEPT !.firstCon = cs[s].firstCon, !.secondCon = cs[s].secondCon]
                   ELSE cs[s]
       IN  [mine EXCEPT !.firstCon = IF first \in chs THEN now.firstCon ELSE @,
                        !.secondCon = IF first + 3 \in chs THEN now.secondCon ELSE @]]

(***************************************************************************)
(* apply(): a write as it reaches the registers, which are [registers,     *)
(* array, copies] here.                                                    *)
(***************************************************************************)
Arrayed(c, a) ==
    LET r == ArrayWritten(c.registers, a)
    IN  [c EXCEPT !.registers = r, !.copies = Spread(@, r, SpreadBy(a))]

\* A register below 0x20.
WholeChip(c, bank, w) ==
    LET reg == w.address % 256
    IN  CASE reg = 5 /\ w.address >= 256 -> [c EXCEPT !.registers.newm = w.value % 2]
          [] reg = 4 /\ bank = 1 ->
               LET r == [c.registers EXCEPT !.fourOp = w.value % 64]
               IN  [c EXCEPT !.registers = r, !.copies = Spread(@, r, 0..17)]
          [] reg = 8 /\ bank = 0 -> [c EXCEPT !.registers.whole.nts = Bit(w.value, 6)]
          [] OTHER -> c

WithDrums(r, w) ==
    [r EXCEPT !.rhythm = Bit(w.value, 5),
              !.whole = [@ EXCEPT !.drumKeys = w.value % 32, !.dam = Bit(w.value, 7),
                                  !.dvb = Bit(w.value, 6)]]

Applied(c, w) ==
    LET reg == w.address % 256
        bank == IF c.registers.newm = 1 THEN w.address \div 256 ELSE 0
        a == [bank |-> bank, reg |-> reg, value |-> w.value]
        drums == IF reg = 189 /\ bank = 0
                 THEN [c EXCEPT !.registers = WithDrums(@, w)] ELSE c
    IN  IF reg < 32
        THEN Arrayed(WholeChip(c, bank, w), c.array)
        ELSE Arrayed([drums EXCEPT !.array = a], a)

\* What the slots of a chip with these registers read from then on.
Since(time, r) == [at |-> time, reads |-> [s \in DOMAIN r.own |-> Read(r, CopyFor(r, s), s)]]

Chip == [registers |-> registers, array |-> array, copies |-> copies]

(***************************************************************************)
(* relatch(): what each slot holds for this pass, "since" slot times after *)
(* the last write landed.                                                  *)
(***************************************************************************)
\* Wrong, to try the checks: a read in the very slot time of the write is missed.
RelatchedLate(h, c, since) ==
    [s \in DOMAIN h |->
       LET t == ReadTime[s]
           now == Read(c.registers, c.copies[s], s)
       IN  [f \in Fields |-> IF since + t[f] > 0 THEN now[f] ELSE h[s][f]]]

Relatched(h, c, since) ==
    [s \in DOMAIN h |->
       LET t == ReadTime[s]
           now == Read(c.registers, c.copies[s], s)
       IN  [f \in Fields |-> IF since + t[f] >= 0 THEN now[f] ELSE h[s][f]]]

\* The earliest slot time of a pass that anything reads a register at.
Earliest == -4

(***************************************************************************)
(* The initial state, and write(): when the queue is full the oldest write *)
(* takes effect at once.                                                   *)
(***************************************************************************)
\* The chip after reset(), or as a player then leaves it before it plays: in
\* the OPL2's mode (newm 0) or its own.
CoreStarts(newm, slots) ==
    LET r == [NoRegisters(slots) EXCEPT !.newm = newm]
    IN  /\ queue = <<>> /\ wait = 0 /\ next = None
        /\ registers = r /\ array = NoArray
        /\ copies = [s \in slots |-> CopyFor(r, s)]
        /\ held = [s \in slots |-> Read(r, CopyFor(r, s), s)]
        /\ age = -1 /\ landed = Earliest
        /\ history = <<Since(Earliest, r)>>
        /\ chip = held

CoreInit == \E slots \in Watches : CoreStarts(0, slots)

Pending(w) == [address |-> w.address, value |-> w.value, sent |-> FALSE]

Write(w) ==
    /\ Len(queue) < QueueSize
    /\ queue' = Append(queue, Pending(w))
    /\ UNCHANGED <<wait, next, registers, array, copies, held, age, landed, history, chip>>

WriteWhenFull(w) ==
    /\ Len(queue) = QueueSize
    /\ \E c \in {Applied(Chip, Head(queue))} :
           /\ registers' = c.registers /\ array' = c.array /\ copies' = c.copies
           /\ history' = <<Since(Earliest, c.registers)>>
    /\ age' = 0 /\ landed' = Earliest
    /\ queue' = Append(Tail(queue), Pending(w))
    /\ UNCHANGED <<wait, next, held, chip>>

(***************************************************************************)
(* schedule_writes(): the queue over one sample from slot time t on.       *)
(***************************************************************************)
Landing(p, t) ==
    [due |-> TRUE, write |-> [address |-> p.address, value |-> p.value],
     at |-> IF t < 2 THEN t + 34 ELSE t - 2]

\* When the queue may act again, after an address and after its data.
AfterAddress(t) == t + AddressToData
AfterData(t) == t + DataToAddress

Sends(q) == [q EXCEPT ![1] = [address |-> @.address, value |-> @.value, sent |-> TRUE]]

Entries == [address : 0..511, value : 0..255, sent : BOOLEAN]

\* Of a queue and the slot time.
Scheduled[x \in Seq(Entries) \X Nat] ==
    LET q == x[1]  t == x[2]
    IN  IF q = <<>> \/ t >= 36
        THEN [queue |-> q, wait |-> IF t > 36 THEN t - 36 ELSE 0, now |-> None, next |-> None]
        ELSE IF ~Head(q).sent
             THEN Scheduled[<<Sends(q), AfterAddress(t)>>]
             ELSE LET rest == Scheduled[<<Tail(q), AfterData(t)>>]
                      sent == Landing(Head(q), t)
                  IN  IF t < 2
                      THEN IF rest.now.due THEN rest ELSE [rest EXCEPT !.now = sent]
                      ELSE IF rest.next.due THEN rest ELSE [rest EXCEPT !.next = sent]

(***************************************************************************)
(* generate(): the writes of the sample, what the slots read, and the      *)
(* pass.  The history is told by slot times of the pass worked out, and    *)
(* moved to the next one at its end.                                       *)
(***************************************************************************)
\* What slot s of the chip reads: each register as it stood at the time.
ChipReads(h, s) ==
    LET t == ReadTime[s]
        last(time) == CHOOSE k \in DOMAIN h :
                        h[k].at <= time /\ (k = Len(h) \/ h[k + 1].at > time)
    IN  [f \in Fields |-> h[last(t[f])].reads[s][f]]

\* The registers that some slot may read yet, after a pass.
Recent(h) ==
    LET moved == [k \in DOMAIN h |-> [h[k] EXCEPT !.at = @ - 36]]
        first == Max({k \in DOMAIN moved : moved[k].at <= Earliest} \cup {1})
        kept == SubSeq(moved, first, Len(moved))
    IN  [kept EXCEPT ![1].at = Earliest]

\* What is left to read of the last write: its age, -1 when nothing is.
AgeRead == IF 36 * age + Earliest >= landed THEN -1 ELSE age

\* What the slots hold once the last write is read as far as this pass reads it.
Late == IF age >= 0 THEN Relatched(held, Chip, 36 * age - landed) ELSE held

\* A pass with the write "due", or without, that leaves c, and the history it goes by.
OnePass(scheduled, due, c, was) ==
    /\ queue' = scheduled.queue /\ wait' = scheduled.wait /\ next' = scheduled.next
    /\ registers' = c.registers /\ array' = c.array /\ copies' = c.copies
    /\ held' = IF due.due THEN Relatched(Late, c, -due.at) ELSE Late
    /\ age' = IF due.due THEN 1
              ELSE IF age >= 0 /\ AgeRead >= 0 THEN age + 1 ELSE -1
    /\ landed' = IF due.due THEN due.at ELSE landed
    /\ chip' = [s \in DOMAIN chip |-> ChipReads(was, s)]
    /\ history' = Recent(was)

Generate ==
    LET scheduled == Scheduled[<<queue, wait>>]
    IN  \E due \in {IF scheduled.now.due THEN scheduled.now ELSE next} :
        \E c \in {IF due.due THEN Applied(Chip, due.write) ELSE Chip} :
        \E was \in {IF due.due THEN Append(history, Since(due.at, c.registers)) ELSE history} :
            OnePass(scheduled, due, c, was)

CoreNext ==
    \/ \E w \in Writes : Write(w) \/ WriteWhenFull(w)
    \/ Generate

CoreSpec == CoreInit /\ [][CoreNext]_coreVars

(***************************************************************************)
(* refresh_routing(): how a slot that read h is modulated (0 by nothing, 1 *)
(* by the slot a stage before, 2 by its own feedback) and how loud it is   *)
(* heard; and derive()'s key.                                              *)
(***************************************************************************)
InChain(h, s) == ChainOf(s) >= 0 /\ Bit(h.fourOp, ChainOf(s)) = 1
\* Wrong, to try the checks: the first connection is not looked at.
SecondPairs(h) == h.secondCon = 1
TwoPairs(h) == h.firstCon = 0 /\ h.secondCon = 1
Drum(s) == s \in 12..17

\* The slot as one of a pair, and as one of the four A, B, C, D of a chain.
PairRouting(h, s) ==
    [modulation |-> IF FirstOperator(s) THEN 2 ELSE 1 - h.con,
     weight |-> IF FirstOperator(s) THEN h.con ELSE 1]

ChainRouting(h, s) ==
    LET pair == PairRouting(h, s)
        cHeard == ~TwoPairs(h) /\ h.con = 1
    IN  CASE RowOf(s) < 3 -> pair
          [] RowOf(s) \in 3..5 -> [pair EXCEPT !.weight = IF TwoPairs(h) THEN 1 ELSE 0]
          [] RowOf(s) \in 6..8 -> [modulation |-> IF TwoPairs(h) THEN 0 ELSE 1,
                                   weight |-> IF cHeard THEN 1 ELSE 0]
          [] OTHER -> [pair EXCEPT !.modulation = IF cHeard THEN 0 ELSE 1]

Routing(h, s) ==
    LET plain == IF InChain(h, s) THEN ChainRouting(h, s) ELSE PairRouting(h, s)
        alone == Drum(s) /\ s \notin {12, 15} /\ h.rhythmBefore = 1
    IN  [modulation |-> IF alone THEN 0 ELSE plain.modulation,
         weight |-> IF Drum(s) /\ h.rhythmAfter = 1
                    THEN (IF s = 12 THEN 0 ELSE 2) ELSE plain.weight]

DrumKeyBit(s) ==
    IF Drum(s) THEN <<16, 1, 4, 16, 8, 2>>[s - 11] ELSE 0

KeyOn(h, s) ==
    \/ h.key = 1
    \/ /\ h.rhythmKeys = 1 /\ Drum(s)
       /\ (h.whole.drumKeys \div DrumKeyBit(s)) % 2 = 1

(***************************************************************************)
(* Properties.                                                             *)
(***************************************************************************)
\* The state of write(), schedule_writes() and generate() has its types; the
\* wait left to the next sample is less than a whole turn of the queue, and a
\* write is read by everything within two passes of its own.
CoreTypeOK ==
    /\ Len(queue) <= QueueSize
    /\ \A i \in DOMAIN queue : queue[i].sent => i = 1
    /\ wait \in 0..(DataToAddress + AddressToData)
    /\ age \in -1..2 /\ landed \in Earliest..35
    /\ next.due => next.at \in 0..33
    /\ Len(history) \in 1..3

\* Every slot goes by the registers as they stood at the moment the chip would
\* have read them, though relatch() knows only of the last write and when it
\* came: a write is read by every slot before the next one lands.
SlotsReadAsTheChipDoes == held = chip

\* The copies of the channels' registers that the slots read from are what the
\* registers hold: no write to a channel, to the chains or to the mode leaves a
\* slot of its chain with an old copy (spread() is called for each of them).
CopiesAreCurrent == \A s \in DOMAIN copies : copies[s] = CopyFor(registers, s)

\* A sample and the one before it send the data of one write between them: no
\* write drops another on its way to the registers, "the writes are 80 slot times
\* apart, so never both" due in one pass of generate().
OneWriteAPass ==
    Len(queue) - Len(Scheduled[<<queue, wait>>].queue) <= (IF next.due THEN 0 ELSE 1)

\* The slots of a channel go by one connection, and those of a chain by one
\* flag and one algorithm, in every pass, also in the passes in which a write
\* is read by some slots and not yet by others: a modulator is never both
\* heard by itself and taken as modulation, or neither.
SlotsAgreeOnTheirRouting ==
    \A s \in DOMAIN held : \A t \in DOMAIN held \cap (s + 1 .. 35) :
        /\ ChannelOf(s) = ChannelOf(t) => held[s].con = held[t].con
        /\ (ChainOf(s) >= 0 /\ ChainOf(s) = ChainOf(t)) =>
              /\ held[s].firstCon = held[t].firstCon
              /\ held[s].secondCon = held[t].secondCon
              /\ held[s].fourOp = held[t].fourOp

\* The four ways the YMF262 joins the slots A, B, C and D of a chain, by the
\* connections of its two channels: what modulates each, and which are heard.
Algorithm(first, second) ==
    CASE first = 0 /\ second = 0 -> [modulation |-> <<2, 1, 1, 1>>, weight |-> <<0, 0, 0, 1>>]
      [] first = 0 /\ second = 1 -> [modulation |-> <<2, 1, 0, 1>>, weight |-> <<0, 1, 0, 1>>]
      [] first = 1 /\ second = 0 -> [modulation |-> <<2, 0, 1, 1>>, weight |-> <<1, 0, 0, 1>>]
      [] OTHER -> [modulation |-> <<2, 0, 1, 0>>, weight |-> <<1, 0, 1, 1>>]

\* Once a chain of four has been read as it stands, refresh_routing() joins its
\* slots by one of the chip's four algorithms.
ChainsRouteByAlgorithm ==
    \A s \in {t \in DOMAIN held : RowOf(t) < 3} :
        LET chain == <<s, s + 3, s + 6, s + 9>>
            ch == ChannelOf(s)
            first == registers.channel[ch].con
            second == registers.channel[ch + 3].con
        IN  (/\ {s + 3, s + 6, s + 9} \subseteq DOMAIN held
             /\ age = -1 /\ Bit(registers.fourOp, ChainOf(s)) = 1
             /\ second = registers.channel[ch + 3].conPair)
            => /\ [i \in 1..4 |-> Routing(held[chain[i]], chain[i]).modulation]
                     = Algorithm(first, second).modulation
               /\ [i \in 1..4 |-> Routing(held[chain[i]], chain[i]).weight]
                     = Algorithm(first, second).weight

\* The routing of every pass: the slots of a channel and of a chain agree on it,
\* and a chain that is read as it stands is joined by one of the chip's algorithms.
RoutingIsByAlgorithm == SlotsAgreeOnTheirRouting /\ ChainsRouteByAlgorithm
=============================================================================
