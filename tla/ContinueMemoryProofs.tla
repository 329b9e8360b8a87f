------------------------ MODULE ContinueMemoryProofs ------------------------
(***************************************************************************)
(* Proofs about ContinueMemory, for every size of ring and reserve, set of *)
(* lengths and number of entries: unread entries are never overwritten,    *)
(* the counters agree only when everything was read, a walk by the stored  *)
(* lengths finds every unread entry, and the ring implements FifoQueue.    *)
(***************************************************************************)
EXTENDS ContinueMemory, WellFoundedInduction, TLAPS

\* The cells from position p on hold message id of length l.
EntryAt(p, id, l) ==
    /\ mem[GetContEntry(p)] = Header(AllocLen(l), l)
    /\ \A c \in 1 .. CalcAllocSize(l) : mem[GetContEntry(p) + c] = Payload(id, c)

MsgLen(m) == AllocLen(m.app_len)

\* Positions: entries follow one another without gap from 0 to tail, head is
\* at the first one that is not given back.
Chain ==
    /\ \A k \in 1 .. Len(sent) - 1 : start[k + 1] = start[k] + MsgLen(sent[k])
    /\ Len(sent) > 0 => start[Len(sent)] + MsgLen(sent[Len(sent)]) = tail
    /\ \A j, k \in 1 .. Len(sent) : j < k => start[j] + MsgLen(sent[j]) <= start[k]
    /\ \A k \in 1 .. Len(sent) : start[k] + MsgLen(sent[k]) <= tail
    /\ head = IF Freed < Len(sent) THEN start[Freed + 1] ELSE tail

\* What may be in the messages.
Messages ==
    \A k \in 1 .. Len(sent) : /\ sent[k].app_len \in Lengths
                              /\ sent[k] = Msg(k, sent[k].app_len)

\* The unread entries are in the ring.
Contents ==
    \A k \in 1 .. Len(sent) : k > Freed => EntryAt(start[k], k, sent[k].app_len)

\* The thresholds never promise more than there is.
Room == /\ tail < tail_threshold /\ tail_threshold <= head + MemorySize
        /\ head <= tail /\ head_threshold <= tail

\* The producer's entry, from TryAllocEntry until tail moves past it.
Pending ==
    /\ ppc # "idle" => plen \in Lengths
    /\ ppc \notin {"idle", "tailed"} => Len(sent) < MaxPost
    /\ ppc \in {"own", "filled", "counted"} =>
          /\ tail + AllocLen(plen) < tail_threshold
          /\ mem[GetContEntry(tail)] = Header(AllocLen(plen), plen)
    /\ ppc \in {"filled", "counted"} => EntryAt(tail, Len(sent) + 1, plen)

\* The consumer's place.
Reading ==
    /\ rcvd \in Seq(Message) /\ Len(rcvd) <= Len(sent)
    /\ cpc \in {"entry", "read", "counted"} => head < tail
    /\ cpc \in {"read", "counted"} => Len(rcvd) > 0
    /\ \A k \in 1 .. Len(rcvd) : rcvd[k] = sent[k]

Counters ==
    /\ produce_nr = CASE ppc = "counted" -> Len(sent) + 1
                      [] ppc = "tailed"  -> Len(sent) - 1
                      [] OTHER           -> Len(sent)
    /\ consume_nr = IF cpc \in {"read", "freed"} THEN Len(rcvd) - 1 ELSE Len(rcvd)
    /\ ppc = "tailed" => Len(sent) > 0
    /\ cpc \in {"read", "freed"} => Len(rcvd) > 0

\* The part of the invariant that says nothing of the producers: ContinueMemoryMP
\* has it, too.
RingTypes ==
    /\ head \in Nat /\ head_threshold \in Nat /\ consume_nr \in Nat
    /\ tail \in Nat /\ tail_threshold \in Nat
    /\ mem \in [Offsets -> Cell]
    /\ cpc \in {"idle", "entry", "read", "counted", "freed"}
    /\ sent \in Seq(Message) /\ start \in Seq(Nat) /\ Len(start) = Len(sent)
    /\ Len(rcvd) \in Nat

RingInv == RingTypes /\ Chain /\ Messages /\ Contents /\ Room /\ Reading

Inv == TypeOK /\ RingInv /\ Pending /\ Counters

-----------------------------------------------------------------------------
(* Sizes and offsets.                                                      *)

\* CalcAllocSize and AllocLen are natural numbers; an entry has its header.
LEMMA SizeOf ==
    ASSUME NEW l \in Nat
    PROVE  /\ CalcAllocSize(l) \in Nat /\ AllocLen(l) \in Nat
           /\ AllocLen(l) = CalcAllocSize(l) + 1 /\ AllocLen(l) >= 1
BY DEF CalcAllocSize, AllocLen, kAlignedSize

\* AdjustEntryLength with fewer bytes never needs more cells.
LEMMA SizeMonotone ==
    ASSUME NEW l \in Nat, NEW m \in Nat, l <= m
    PROVE  CalcAllocSize(l) <= CalcAllocSize(m) /\ AllocLen(l) <= AllocLen(m)
BY DEF CalcAllocSize, AllocLen, kAlignedSize

\* A requested length makes an entry that fits the reserve and the ring.
LEMMA LengthBounds ==
    ASSUME NEW l \in Lengths
    PROVE  /\ l \in Nat /\ l \in 0 .. 8 * ReserveSize
           /\ CalcAllocSize(l) < ReserveSize /\ AllocLen(l) < MemorySize
BY SizeAssumption DEF CalcAllocSize, AllocLen, kAlignedSize

\* GetContEntry maps a position to a cell of the ring, whole laps before it.
LEMMA OffsetOf ==
    ASSUME NEW p \in Nat
    PROVE  /\ GetContEntry(p) \in 0 .. MemorySize - 1
           /\ \E q \in Nat : p = MemorySize * q + GetContEntry(p)
<1>1. MemorySize \in Nat /\ MemorySize > 0
  BY SizeAssumption
<1>2. p % MemorySize \in 0 .. MemorySize - 1
  BY <1>1
<1>3. p \div MemorySize \in Nat
  BY <1>1, Z3
<1>4. p = MemorySize * (p \div MemorySize) + (p % MemorySize)
  BY <1>1, Z3
<1> QED BY <1>2, <1>3, <1>4 DEF GetContEntry

\* Two whole numbers of laps never differ by a part of a lap.
LEMMA Multiple ==
    ASSUME NEW m \in Nat \ {0}, NEW i \in Nat, NEW j \in Nat
    PROVE  ~(0 < m * i - m * j /\ m * i - m * j < m)
<1>1. CASE i <= j
  <2>1. PICK d \in Nat : j = i + d
    BY <1>1
  <2>2. m * j = m * i + m * d /\ m * d >= 0
    BY <2>1
  <2> QED BY <2>2
<1>2. CASE i > j
  <2>1. PICK d \in Nat : i = j + 1 + d
    <3>1. i - (j + 1) \in Nat /\ i = j + 1 + (i - (j + 1))
      BY <1>2
    <3> QED BY <3>1
  <2>2. m * i = m * j + m + m * d /\ m * d >= 0
    BY <2>1
  <2> QED BY <2>2
<1> QED BY <1>1, <1>2

\* Two cells whose positions differ by less than MemorySize are different cells,
\* wherever their entries begin and whether or not they lie in the reserve.
LEMMA NoCollision ==
    ASSUME NEW p \in Nat, NEW q \in Nat, NEW c \in Nat, NEW d \in Nat,
           p + c < q + d, q + d < p + c + MemorySize
    PROVE  GetContEntry(p) + c # GetContEntry(q) + d
<1> SUFFICES ASSUME GetContEntry(p) + c = GetContEntry(q) + d
             PROVE  FALSE
  OBVIOUS
<1> DEFINE x == GetContEntry(p)
           y == GetContEntry(q)
<1>1. x \in Nat /\ y \in Nat
  BY OffsetOf
<1>2. PICK i \in Nat : p = MemorySize * i + x
  BY OffsetOf
<1>3. PICK j \in Nat : q = MemorySize * j + y
  BY OffsetOf
<1>4. MemorySize \in Nat \ {0} /\ MemorySize * i \in Nat /\ MemorySize * j \in Nat
  BY SizeAssumption
<1> HIDE DEF x, y
<1>5. 0 < MemorySize * j - MemorySize * i /\ MemorySize * j - MemorySize * i < MemorySize
  <2>1. x + c = y + d
    BY DEF x, y
  <2> QED BY <1>1, <1>2, <1>3, <1>4, <2>1
<1> QED BY <1>4, <1>5, Multiple

\* What Msg builds, field by field.
LEMMA MessageOf ==
    ASSUME NEW k \in 1 .. MaxPost, NEW l \in Lengths
    PROVE  Msg(k, l) \in Message /\ Msg(k, l).app_len = l
<1>1. l \in 0 .. 8 * ReserveSize
  BY LengthBounds
<1>2. Msg(k, l) \in Message
  BY <1>1 DEF Message
<1> QED BY <1>2 DEF Msg

\* Headers and payload cells are cells.
LEMMA CellTypes ==
    /\ \A l, m \in Nat : Header(l, m) \in Cell
    /\ \A i, c \in Nat : Payload(i, c) \in Cell
BY DEF Header, Payload, Cell

\* An entry read back from the ring is the message put there.
LEMMA EntryIsMsg ==
    ASSUME NEW p \in Nat, NEW id \in Nat, NEW l \in Nat, EntryAt(p, id, l)
    PROVE  MsgAt(p) = Msg(id, l)
<1>1. mem[GetContEntry(p)].app_len = l
  BY DEF EntryAt, Header
<1>2. [c \in 1 .. CalcAllocSize(l) |-> mem[GetContEntry(p) + c]]
        = [c \in 1 .. CalcAllocSize(l) |-> Payload(id, c)]
  BY DEF EntryAt
<1> QED BY <1>1, <1>2 DEF MsgAt, Msg

-----------------------------------------------------------------------------
(* The inductive invariant.                                                *)

\* The ring ContinueMemory::Create makes satisfies the invariant.
LEMMA InitInv == Init => Inv
<1> SUFFICES ASSUME Init PROVE Inv
  OBVIOUS
<1>1. TypeOK
  <2>1. mem \in [Offsets -> Cell]
    BY CellTypes DEF Init
  <2>2. sent \in Seq(Message) /\ start \in Seq(Nat) /\ Len(start) = Len(sent) /\ Len(rcvd) \in Nat
    BY DEF Init
  <2> QED BY <2>1, <2>2, SizeAssumption DEF Init, TypeOK
<1>2. Chain /\ Messages /\ Contents
  BY DEF Init, Chain, Messages, Contents, Freed
<1>3. Room /\ Pending /\ Counters
  BY SizeAssumption DEF Init, Room, Pending, Counters
<1>4. Reading
  BY DEF Init, Reading
<1>5. RingTypes
  BY <1>1 DEF TypeOK, RingTypes
<1> QED BY <1>1, <1>2, <1>3, <1>4, <1>5 DEF Inv, RingInv

\* No more entries are given back than were posted.
LEMMA FreedType == ASSUME RingInv PROVE Freed \in Nat /\ Freed <= Len(sent) /\ Len(sent) \in Nat
BY DEF RingInv, RingTypes, Reading, Freed

\* An unread entry lies between head and tail.
LEMMA UnreadPlace ==
    ASSUME RingInv, NEW k \in 1 .. Len(sent), k > Freed
    PROVE  /\ start[k] \in Nat /\ sent[k].app_len \in Lengths /\ MsgLen(sent[k]) \in Nat
           /\ MsgLen(sent[k]) = CalcAllocSize(sent[k].app_len) + 1
           /\ head <= start[k] /\ start[k] + MsgLen(sent[k]) <= tail
<1> USE FreedType
<1>1. start[k] \in Nat /\ start[Freed + 1] \in Nat
  BY DEF RingInv, RingTypes
<1>2. \A j \in 1 .. Len(sent) : /\ MsgLen(sent[j]) \in Nat
                                /\ MsgLen(sent[j]) = CalcAllocSize(sent[j].app_len) + 1
                                /\ sent[j].app_len \in Lengths
  BY LengthBounds, SizeOf DEF RingInv, Messages, MsgLen
<1>3. head = start[Freed + 1]
  BY DEF RingInv, Chain
<1>4. head <= start[k]
  <2>1. CASE k = Freed + 1
    BY <1>1, <1>3, <2>1
  <2>2. CASE k > Freed + 1
    <3>1. Freed + 1 \in 1 .. Len(sent)
      BY <2>2
    <3>2. start[Freed + 1] + MsgLen(sent[Freed + 1]) <= start[k]
      BY <2>2, <3>1 DEF RingInv, Chain
    <3> QED BY <1>1, <1>2, <1>3, <3>1, <3>2
  <2> QED BY <2>1, <2>2
<1> QED BY <1>1, <1>2, <1>4 DEF RingInv, Chain

\* Writing n cells at position b, less than a lap away, does not change an entry at
\* position a that ends before b or begins after b + n.
LEMMA EntryKept ==
    ASSUME NEW a \in Nat, NEW b \in Nat, NEW n \in Nat, NEW l \in Lengths,
           \/ a + AllocLen(l) <= b /\ b + n <= a + MemorySize
           \/ b + n <= a /\ a + AllocLen(l) <= b + MemorySize,
           \A o \in Offsets : \/ mem'[o] = mem[o]
                             \/ \E d \in 0 .. n - 1 : o = GetContEntry(b) + d
    PROVE  /\ mem'[GetContEntry(a)] = mem[GetContEntry(a)]
           /\ \A c \in 1 .. CalcAllocSize(l) : mem'[GetContEntry(a) + c] = mem[GetContEntry(a) + c]
<1> DEFINE e == GetContEntry(a)
<1>1. /\ MemorySize \in Nat /\ ReserveSize \in Nat /\ l \in Nat
      /\ CalcAllocSize(l) \in Nat /\ CalcAllocSize(l) < ReserveSize
      /\ AllocLen(l) = CalcAllocSize(l) + 1
  BY LengthBounds, SizeOf, SizeAssumption
<1>2. e \in 0 .. MemorySize - 1
  BY OffsetOf
<1>3. ASSUME NEW c \in 0 .. CalcAllocSize(l)
      PROVE  mem'[e + c] = mem[e + c]
  <2>1. e + c \in Offsets
    BY <1>1, <1>2 DEF Offsets
  <2>2. ASSUME NEW d \in 0 .. n - 1
        PROVE  e + c # GetContEntry(b) + d
    <3>1. c \in Nat /\ d \in Nat
      BY <1>1
    <3>2. CASE a + AllocLen(l) <= b /\ b + n <= a + MemorySize
      <4>1. a + c < b + d /\ b + d < a + c + MemorySize
        BY <1>1, <3>1, <3>2
      <4> QED BY <3>1, <4>1, NoCollision
    <3>3. CASE b + n <= a /\ a + AllocLen(l) <= b + MemorySize
      <4>1. b + d < a + c /\ a + c < b + d + MemorySize
        BY <1>1, <3>1, <3>3
      <4> QED BY <3>1, <4>1, NoCollision
    <3> QED BY <3>2, <3>3
  <2> QED BY <2>1, <2>2
<1>4. mem'[e] = mem[e]
  <2>1. mem'[e + 0] = mem[e + 0]
    BY <1>1, <1>3
  <2> HIDE DEF e
  <2>2. e + 0 = e
    BY <1>2
  <2> QED BY <2>1, <2>2
<1>5. \A c \in 1 .. CalcAllocSize(l) : mem'[e + c] = mem[e + c]
  BY <1>1, <1>3
<1> QED BY <1>4, <1>5

\* Writing behind tail, in cells a producer may use, changes no unread entry.
LEMMA ContentsKept ==
    ASSUME RingInv, UNCHANGED <<sent, start, cpc, rcvd>>,
           NEW b \in Nat, NEW n \in Nat, tail <= b, b + n <= head + MemorySize,
           \A o \in Offsets : \/ mem'[o] = mem[o]
                             \/ \E d \in 0 .. n - 1 : o = GetContEntry(b) + d
    PROVE  Contents'
<1> SUFFICES ASSUME NEW k \in 1 .. Len(sent), k > Freed
             PROVE  EntryAt(start[k], k, sent[k].app_len)'
  BY DEF Contents, Freed
<1>1. /\ start[k] \in Nat /\ sent[k].app_len \in Lengths /\ MsgLen(sent[k]) \in Nat
      /\ head <= start[k] /\ start[k] + AllocLen(sent[k].app_len) <= tail
  BY UnreadPlace DEF MsgLen
<1>2. head \in Nat /\ tail \in Nat /\ MemorySize \in Nat /\ AllocLen(sent[k].app_len) \in Nat
  BY <1>1, SizeAssumption DEF RingInv, RingTypes, MsgLen
<1>3. /\ start[k] + AllocLen(sent[k].app_len) <= b
      /\ b + n <= start[k] + MemorySize
  BY <1>1, <1>2
<1>4. /\ mem'[GetContEntry(start[k])] = mem[GetContEntry(start[k])]
      /\ \A c \in 1 .. CalcAllocSize(sent[k].app_len) :
             mem'[GetContEntry(start[k]) + c] = mem[GetContEntry(start[k]) + c]
  BY <1>1, <1>3, EntryKept
<1>5. EntryAt(start[k], k, sent[k].app_len)
  BY DEF RingInv, Contents
<1> QED BY <1>4, <1>5 DEF EntryAt

\* Each part of the invariant depends on a few variables only.
LEMMA RingFrames ==
    ASSUME RingInv
    PROVE  /\ UNCHANGED <<sent, start, tail, head, cpc, rcvd>> => Chain'
           /\ UNCHANGED sent => Messages'
           /\ UNCHANGED <<sent, start, mem, cpc, rcvd>> => Contents'
           /\ UNCHANGED <<tail, tail_threshold, head, head_threshold>> => Room'
           /\ UNCHANGED <<rcvd, sent, cpc, head, tail>> => Reading'
<1>1. UNCHANGED <<sent, start, tail, head, cpc, rcvd>> => Chain'
  BY DEF RingInv, Chain, Freed, MsgLen
<1>2. UNCHANGED sent => Messages'
  BY DEF RingInv, Messages
<1>3. UNCHANGED <<sent, start, mem, cpc, rcvd>> => Contents'
  BY DEF RingInv, Contents, Freed, EntryAt
<1>4. UNCHANGED <<tail, tail_threshold, head, head_threshold>> => Room'
  BY DEF RingInv, Room
<1>5. UNCHANGED <<rcvd, sent, cpc, head, tail>> => Reading'
  BY DEF RingInv, Reading
<1> QED BY <1>1, <1>2, <1>3, <1>4, <1>5

\* The same with the producer's part.
LEMMA Frames ==
    ASSUME Inv
    PROVE  /\ UNCHANGED <<sent, start, tail, head, cpc, rcvd>> => Chain'
           /\ UNCHANGED sent => Messages'
           /\ UNCHANGED <<sent, start, mem, cpc, rcvd>> => Contents'
           /\ UNCHANGED <<tail, tail_threshold, head, head_threshold>> => Room'
           /\ UNCHANGED <<rcvd, sent, cpc, head, tail>> => Reading'
           /\ UNCHANGED <<ppc, plen, sent, tail, tail_threshold, mem>> => Pending'
           /\ UNCHANGED <<produce_nr, ppc, sent, consume_nr, cpc, rcvd>> => Counters'
           /\ TypeOK' => RingTypes'
<1>1. UNCHANGED <<ppc, plen, sent, tail, tail_threshold, mem>> => Pending'
  BY DEF Inv, Pending, EntryAt
<1>2. UNCHANGED <<produce_nr, ppc, sent, consume_nr, cpc, rcvd>> => Counters'
  BY DEF Inv, Counters
<1>3. TypeOK' => RingTypes'
  BY DEF TypeOK, RingTypes
<1> QED BY <1>1, <1>2, <1>3, RingFrames DEF Inv

\* Steps that write neither mem nor a history.
LEMMA CallAllocInv ==
    ASSUME Inv, NEW l \in Lengths, NEW mode \in {"alloc", "try"}, CallAlloc(l, mode)
    PROVE  Inv'
<1> USE DEF CallAlloc, consumerVars
<1>1. TypeOK'
  BY LengthBounds DEF Inv, RingInv, TypeOK
<1>2. Pending'
  BY DEF Pending
<1>3. Counters'
  BY DEF Inv, RingInv, Counters
<1> QED BY <1>1, <1>2, <1>3, Frames DEF Inv, RingInv

\* The entry at tail begins in the ring, and the threshold is at most a lap ahead
\* of head.
LEMMA TailOffset ==
    ASSUME Inv
    PROVE  /\ tail \in Nat /\ head \in Nat /\ MemorySize \in Nat /\ ReserveSize \in Nat
           /\ GetContEntry(tail) \in 0 .. MemorySize - 1 /\ GetContEntry(tail) \in Offsets
           /\ tail_threshold \in Nat /\ tail_threshold <= head + MemorySize
<1>1. /\ tail \in Nat /\ head \in Nat /\ MemorySize \in Nat /\ ReserveSize \in Nat
      /\ tail_threshold \in Nat /\ tail_threshold <= head + MemorySize
  BY SizeAssumption DEF Inv, RingInv, TypeOK, Room
<1>2. GetContEntry(tail) \in 0 .. MemorySize - 1
  BY <1>1, OffsetOf
<1>3. GetContEntry(tail) \in Offsets
  BY <1>1, <1>2 DEF Offsets
<1> QED BY <1>1, <1>2, <1>3

\* The threshold TryAllocEntry compares with never exceeds head + memory_size_,
\* whether it is the cached one or a fresh one.
LEMMA TailThresholdBound ==
    ASSUME Inv
    PROVE  TailThreshold \in Nat /\ TailThreshold <= head + MemorySize /\ tail < TailThreshold
<1>1. head \in Nat /\ tail \in Nat /\ tail_threshold \in Nat /\ MemorySize \in Nat
  BY SizeAssumption DEF Inv, RingInv, TypeOK
<1>2. tail < tail_threshold /\ tail_threshold <= head + MemorySize
  BY DEF Inv, RingInv, Room
<1> QED BY <1>1, <1>2 DEF TailThreshold

\* A successful TryAllocEntry writes a header into free cells only.
LEMMA TryAllocEntryInv == ASSUME Inv, TryAllocEntry PROVE Inv'
<1> USE DEF TryAllocEntry, consumerVars
<1> DEFINE e == GetContEntry(tail)
<1>1. /\ plen \in Lengths /\ plen \in Nat /\ Len(sent) < MaxPost
      /\ AllocLen(plen) \in Nat /\ AllocLen(plen) >= 1
  BY LengthBounds, SizeOf DEF Inv, RingInv, Pending
<1>2. /\ tail \in Nat /\ head \in Nat /\ e \in 0 .. MemorySize - 1 /\ e \in Offsets
      /\ MemorySize \in Nat
  BY TailOffset
<1>3. /\ tail_threshold' \in Nat /\ tail_threshold' <= head + MemorySize
      /\ tail < tail_threshold' /\ tail + AllocLen(plen) < tail_threshold'
  BY TailThresholdBound
<1>4. mem' \in [Offsets -> Cell] /\ mem'[e] = Header(AllocLen(plen), plen)
  BY <1>1, <1>2, CellTypes DEF Inv, RingInv, TypeOK
<1>5. TypeOK'
  BY <1>3, <1>4 DEF Inv, RingInv, TypeOK
<1>6. Contents'
  <2>1. \A o \in Offsets : \/ mem'[o] = mem[o]
                           \/ \E d \in 0 .. 1 - 1 : o = GetContEntry(tail) + d
    BY <1>2 DEF Inv, RingInv, TypeOK
  <2>2. tail + 1 <= head + MemorySize
    BY <1>1, <1>2, <1>3
  <2>3. RingInv /\ tail <= tail
    BY TailOffset DEF Inv
  <2> QED BY <1>2, <2>1, <2>2, <2>3, ContentsKept
<1>7. Room'
  BY <1>3 DEF Inv, RingInv, Room
<1>8. Pending'
  BY <1>1, <1>3, <1>4 DEF Pending
<1>9. Counters'
  BY DEF Inv, RingInv, Counters
<1> QED BY <1>5, <1>6, <1>7, <1>8, <1>9, Frames DEF Inv, RingInv

\* A failed TryAllocEntry moves the cached threshold only.
LEMMA AllocWouldblockInv == ASSUME Inv, AllocWouldblock PROVE Inv'
<1> USE DEF AllocWouldblock, consumerVars
<1>1. /\ tail_threshold' \in Nat /\ tail_threshold' <= head + MemorySize
      /\ tail < tail_threshold'
  BY TailThresholdBound
<1>2. TypeOK'
  BY <1>1 DEF Inv, RingInv, TypeOK
<1>3. Room'
  BY <1>1 DEF Inv, RingInv, Room
<1>4. Pending'
  BY DEF Inv, RingInv, Pending
<1>5. Counters'
  BY DEF Inv, RingInv, Counters
<1> QED BY <1>2, <1>3, <1>4, <1>5, Frames DEF Inv, RingInv

\* AdjustEntryLength rewrites the header of the entry the producer owns.
LEMMA AdjustEntryLengthInv ==
    ASSUME Inv, NEW l \in Lengths, AdjustEntryLength(l)
    PROVE  Inv'
<1> USE DEF AdjustEntryLength, consumerVars
<1> DEFINE e == GetContEntry(tail)
<1>1. /\ plen \in Lengths /\ Len(sent) < MaxPost
      /\ tail + AllocLen(plen) < tail_threshold
      /\ mem[e] = Header(AllocLen(plen), plen)
      /\ ppc = "filled" => EntryAt(tail, Len(sent) + 1, plen)
  BY DEF Inv, RingInv, Pending
<1>2. l \in Nat /\ plen \in Nat /\ l <= plen
  BY <1>1, LengthBounds DEF Header
<1>3. /\ AllocLen(l) <= AllocLen(plen) /\ CalcAllocSize(l) <= CalcAllocSize(plen)
      /\ AllocLen(l) \in Nat /\ AllocLen(plen) \in Nat /\ AllocLen(plen) >= 1
      /\ CalcAllocSize(l) \in Nat /\ CalcAllocSize(plen) \in Nat
  BY <1>2, SizeOf, SizeMonotone
<1>4. /\ tail \in Nat /\ head \in Nat /\ e \in 0 .. MemorySize - 1 /\ e \in Offsets
      /\ MemorySize \in Nat /\ tail_threshold \in Nat /\ tail_threshold <= head + MemorySize
  BY TailOffset
<1>5. mem' \in [Offsets -> Cell] /\ mem'[e] = Header(AllocLen(l), l)
  BY <1>2, <1>3, <1>4, CellTypes DEF Inv, RingInv, TypeOK
<1>6. TypeOK'
  BY <1>2, <1>5 DEF Inv, RingInv, TypeOK
<1>7. Contents'
  <2>1. \A o \in Offsets : \/ mem'[o] = mem[o]
                           \/ \E d \in 0 .. 1 - 1 : o = GetContEntry(tail) + d
    BY <1>4 DEF Inv, RingInv, TypeOK
  <2>2. tail + 1 <= head + MemorySize
    BY <1>1, <1>3, <1>4
  <2>3. RingInv /\ tail <= tail
    BY TailOffset DEF Inv
  <2> QED BY <1>4, <2>1, <2>2, <2>3, ContentsKept
<1>8. tail + AllocLen(l) < tail_threshold
  BY <1>1, <1>3, <1>4
<1>9. ppc = "filled" => EntryAt(tail, Len(sent) + 1, l)'
  <2> SUFFICES ASSUME ppc = "filled" PROVE EntryAt(tail, Len(sent) + 1, l)'
    OBVIOUS
  <2>1. ASSUME NEW c \in 1 .. CalcAllocSize(l)
        PROVE  mem'[e + c] = Payload(Len(sent) + 1, c)
    <3>1. c \in 1 .. CalcAllocSize(plen)
      BY <1>3
    <3>2. mem[e + c] = Payload(Len(sent) + 1, c)
      BY <1>1, <3>1 DEF EntryAt
    <3>3. e + c # e
      BY <1>3, <1>4
    <3>4. e + c \in Offsets
      <4>1. CalcAllocSize(plen) < ReserveSize /\ ReserveSize \in Nat
        BY <1>1, LengthBounds, SizeAssumption
      <4> QED BY <1>3, <1>4, <3>1, <4>1 DEF Offsets
    <3> QED BY <3>2, <3>3, <3>4 DEF Inv, RingInv, TypeOK
  <2> QED BY <1>5, <2>1 DEF EntryAt
<1>10. Pending'
  BY <1>1, <1>5, <1>8, <1>9 DEF Pending, EntryAt
<1> QED BY <1>6, <1>7, <1>10, Frames DEF Inv, RingInv

\* The payload copy stays in the producer's cells.
LEMMA FillEntryInv == ASSUME Inv, FillEntry PROVE Inv'
<1> USE DEF FillEntry, consumerVars
<1> DEFINE e == GetContEntry(tail)
           n == CalcAllocSize(plen)
<1>1. /\ plen \in Lengths /\ Len(sent) < MaxPost
      /\ tail + AllocLen(plen) < tail_threshold
      /\ mem[e] = Header(AllocLen(plen), plen)
  BY DEF Inv, RingInv, Pending
<1>2. n \in Nat /\ AllocLen(plen) = n + 1 /\ n < ReserveSize
  BY <1>1, LengthBounds, SizeOf
<1>3. /\ tail \in Nat /\ head \in Nat /\ MemorySize \in Nat /\ ReserveSize \in Nat
      /\ e \in 0 .. MemorySize - 1 /\ e \in Offsets
      /\ tail_threshold \in Nat /\ tail_threshold <= head + MemorySize
  BY TailOffset
<1> HIDE DEF e, n
<1>4. mem' = [o \in Offsets |-> IF o \in e + 1 .. e + n
                               THEN Payload(Len(sent) + 1, o - e) ELSE mem[o]]
  BY DEF e, n
<1>5. mem' \in [Offsets -> Cell]
  <2>1. ASSUME NEW o \in Offsets
        PROVE  (IF o \in e + 1 .. e + n THEN Payload(Len(sent) + 1, o - e) ELSE mem[o]) \in Cell
    <3>1. CASE o \in e + 1 .. e + n
      <4>1. o - e \in Nat /\ Len(sent) + 1 \in Nat
        BY <1>2, <1>3, <3>1, FreedType
      <4> QED BY <3>1, <4>1, CellTypes
    <3>2. CASE o \notin e + 1 .. e + n
      BY <3>2 DEF Inv, RingInv, TypeOK
    <3> QED BY <3>1, <3>2
  <2> QED BY <1>4, <2>1
<1>6. TypeOK'
  BY <1>5 DEF Inv, RingInv, TypeOK
<1>7. Contents'
  <2>1. ASSUME NEW o \in Offsets
        PROVE  \/ mem'[o] = mem[o]
               \/ \E d \in 0 .. (n + 1) - 1 : o = GetContEntry(tail) + d
    <3>1. CASE o \in e + 1 .. e + n
      <4>1. o - e \in 0 .. (n + 1) - 1 /\ o = e + (o - e)
        BY <1>2, <1>3, <3>1
      <4> QED BY <4>1 DEF e
    <3>2. CASE o \notin e + 1 .. e + n
      BY <1>4, <3>2
    <3> QED BY <3>1, <3>2
  <2>2. tail + (n + 1) <= head + MemorySize /\ n + 1 \in Nat
    BY <1>1, <1>2, <1>3
  <2>3. RingInv /\ tail <= tail
    BY TailOffset DEF Inv
  <2> QED BY <1>3, <2>1, <2>2, <2>3, ContentsKept
<1>8. mem'[e] = mem[e]
  BY <1>2, <1>3, <1>4
<1>9. ASSUME NEW c \in 1 .. n
      PROVE  mem'[e + c] = Payload(Len(sent) + 1, c)
  <2>1. e + c \in Offsets /\ e + c \in e + 1 .. e + n /\ (e + c) - e = c
    BY <1>2, <1>3 DEF Offsets
  <2> QED BY <1>4, <2>1
<1>10. Pending'
  BY <1>1, <1>8, <1>9 DEF Pending, EntryAt, e, n
<1>11. Counters'
  BY DEF Inv, RingInv, Counters
<1> QED BY <1>6, <1>7, <1>10, <1>11, Frames DEF Inv, RingInv

\* PostEntry's ++produce_nr keeps the counters within one of the histories.
LEMMA PostCountInv == ASSUME Inv, PostCount PROVE Inv'
<1> USE DEF PostCount, consumerVars
<1>1. TypeOK'
  BY DEF Inv, RingInv, TypeOK
<1>2. Pending'
  BY DEF Inv, RingInv, Pending, EntryAt
<1>3. Counters'
  BY FreedType DEF Inv, RingInv, Counters
<1> QED BY <1>1, <1>2, <1>3, Frames DEF Inv, RingInv

\* The indices of a sequence of length n + 1, or n: the earlier ones and the last.
LEMMA LastIndex ==
    ASSUME NEW n \in Nat
    PROVE  /\ \A k \in 1 .. n + 1 : k \in 1 .. n \/ k = n + 1
           /\ \A k \in 1 .. n : k \in 1 .. n - 1 \/ k = n
OBVIOUS

\* PostEntry's move of tail turns the written entry into the last unread one.
LEMMA RingPost ==
    ASSUME RingInv, NEW l \in Lengths, Len(sent) < MaxPost,
           tail + AllocLen(l) < tail_threshold, EntryAt(tail, Len(sent) + 1, l),
           tail' = tail + AllocLen(l), start' = Append(start, tail),
           sent' = Append(sent, Msg(Len(sent) + 1, l)),
           UNCHANGED <<consumerVars, tail_threshold, mem>>
    PROVE  RingInv' /\ Len(sent') = Len(sent) + 1
<1> USE DEF consumerVars
<1> DEFINE n == Len(sent)
           m == Msg(n + 1, l)
<1>1. l \in Nat /\ n < MaxPost /\ tail + AllocLen(l) < tail_threshold /\ EntryAt(tail, n + 1, l)
  BY LengthBounds
<1>2. /\ tail \in Nat /\ head \in Nat /\ AllocLen(l) \in Nat /\ AllocLen(l) >= 1
      /\ n \in Nat /\ Freed \in Nat /\ Freed <= n /\ head_threshold \in Nat
      /\ tail_threshold \in Nat /\ MaxPost \in Nat
  <2>1. AllocLen(l) \in Nat /\ AllocLen(l) >= 1
    BY <1>1, SizeOf
  <2> QED BY <2>1, FreedType, SizeAssumption DEF RingInv, RingTypes
<1>3. m \in Message /\ m.app_len = l
  <2>1. n + 1 \in 1 .. MaxPost
    BY <1>1, <1>2
  <2> QED BY <1>1, <2>1, MessageOf
<1>4. tail' = tail + AllocLen(l)
  OBVIOUS
<1>5. sent \in Seq(Message) /\ start \in Seq(Nat) /\ Len(start) = n
  BY DEF RingInv, RingTypes
<1>6. sent' = Append(sent, m) /\ start' = Append(start, tail)
  OBVIOUS
<1> HIDE DEF m
<1>7. /\ sent' \in Seq(Message) /\ start' \in Seq(Nat) /\ Len(sent') = n + 1 /\ Len(start') = n + 1
      /\ sent'[n + 1] = m /\ start'[n + 1] = tail
      /\ \A k \in 1 .. n : sent'[k] = sent[k] /\ start'[k] = start[k]
  BY <1>2, <1>3, <1>5, <1>6
<1>8. Freed' = Freed
  BY DEF Freed
<1>9. /\ \A k \in 1 .. n : /\ MsgLen(sent'[k]) = MsgLen(sent[k])
                           /\ start[k] \in Nat /\ MsgLen(sent[k]) \in Nat
      /\ MsgLen(sent'[n + 1]) = AllocLen(l)
  <2>1. \A k \in 1 .. n : MsgLen(sent[k]) \in Nat
    BY LengthBounds, SizeOf DEF RingInv, Messages, MsgLen
  <2> QED BY <1>3, <1>5, <1>7, <2>1 DEF MsgLen
<1>chain. /\ \A k \in 1 .. n - 1 : start[k + 1] = start[k] + MsgLen(sent[k])
          /\ n > 0 => start[n] + MsgLen(sent[n]) = tail
          /\ \A j, k \in 1 .. n : j < k => start[j] + MsgLen(sent[j]) <= start[k]
          /\ \A k \in 1 .. n : start[k] + MsgLen(sent[k]) <= tail
          /\ head = IF Freed < n THEN start[Freed + 1] ELSE tail
  BY DEF RingInv, Chain
<1>10. RingTypes'
  BY <1>2, <1>4, <1>7 DEF RingInv, RingTypes
<1>11. Chain'
  <2> HIDE DEF n
  <2>1. ASSUME NEW k \in 1 .. n
        PROVE  start'[k + 1] = start'[k] + MsgLen(sent'[k])
    <3>1. CASE k < n
      <4>1. k \in 1 .. n /\ k \in 1 .. n - 1 /\ k + 1 \in 1 .. n
        BY <1>2, <3>1
      <4>2. start[k + 1] = start[k] + MsgLen(sent[k])
        BY <1>chain, <4>1
      <4> QED BY <1>7, <1>9, <4>1, <4>2
    <3>2. CASE k = n
      BY <1>2, <1>7, <1>9, <3>2, <1>chain
    <3>3. k < n \/ k = n
      BY <1>2
    <3> QED BY <3>1, <3>2, <3>3
  <2>2. ASSUME NEW j \in 1 .. n + 1, NEW k \in 1 .. n + 1, j < k
        PROVE  start'[j] + MsgLen(sent'[j]) <= start'[k]
    <3>1. CASE k \in 1 .. n
      BY <1>2, <1>7, <1>9, <2>2, <3>1, <1>chain
    <3>2. CASE k = n + 1
      BY <1>2, <1>7, <1>9, <2>2, <3>2, <1>chain
    <3> QED BY <1>2, <3>1, <3>2, LastIndex
  <2>3. ASSUME NEW k \in 1 .. n + 1
        PROVE  start'[k] + MsgLen(sent'[k]) <= tail'
    <3>1. CASE k \in 1 .. n
      <4>1. start[k] + MsgLen(sent[k]) <= tail /\ start[k] \in Nat /\ MsgLen(sent[k]) \in Nat
        BY <1>9, <1>chain, <3>1
      <4>2. start'[k] = start[k] /\ MsgLen(sent'[k]) = MsgLen(sent[k])
        BY <1>7, <1>9, <3>1
      <4> QED BY ONLY <1>2, <1>4, <4>1, <4>2
    <3>2. CASE k = n + 1
      BY <1>2, <1>4, <1>7, <1>9, <3>2
    <3> QED BY <1>2, <3>1, <3>2, LastIndex
  <2>4. start'[n + 1] + MsgLen(sent'[n + 1]) = tail'
    BY <1>2, <1>4, <1>7, <1>9
  <2>5. head = start'[Freed + 1] /\ Freed < n + 1
    <3>1. CASE Freed < n
      BY <1>2, <1>7, <3>1, <1>chain
    <3>2. CASE Freed = n
      BY <1>2, <1>7, <3>2, <1>chain
    <3>3. Freed < n \/ Freed = n
      BY <1>2
    <3> QED BY <3>1, <3>2, <3>3
  <2>6. (n + 1) - 1 = n /\ n + 1 > 0
    BY <1>2
  <2> QED BY <1>7, <1>8, <2>1, <2>2, <2>3, <2>4, <2>5, <2>6 DEF Chain
<1>12. Messages'
  <2>1. ASSUME NEW k \in 1 .. n + 1
        PROVE  sent'[k].app_len \in Lengths /\ sent'[k] = Msg(k, sent'[k].app_len)
    <3>1. CASE k \in 1 .. n
      BY <1>7, <3>1 DEF RingInv, Messages
    <3>2. CASE k = n + 1
      BY <1>1, <1>3, <1>7, <3>2 DEF m
    <3> QED BY <1>2, <3>1, <3>2, LastIndex
  <2> QED BY <1>7, <2>1 DEF Messages
<1>13. Contents'
  <2>1. ASSUME NEW k \in 1 .. n + 1, k > Freed
        PROVE  EntryAt(start'[k], k, sent'[k].app_len)
    <3>1. CASE k \in 1 .. n
      BY <1>7, <2>1, <3>1 DEF RingInv, Contents
    <3>2. CASE k = n + 1
      BY <1>1, <1>3, <1>7, <3>2
    <3> QED BY <1>2, <3>1, <3>2, LastIndex
  <2> QED BY <1>7, <1>8, <2>1 DEF Contents, EntryAt
<1>14. Room'
  BY <1>1, <1>2, <1>4 DEF RingInv, Room
<1>15. Reading'
  <2>1. rcvd \in Seq(Message) /\ Len(rcvd) <= n /\ Len(rcvd) \in Nat
    BY DEF RingInv, Reading
  <2>2. \A k \in 1 .. Len(rcvd) : rcvd[k] = sent'[k]
    BY <1>2, <1>7, <2>1 DEF RingInv, Reading
  <2>3. cpc \in {"entry", "read", "counted"} => head < tail'
    BY <1>2, <1>4 DEF RingInv, Reading
  <2> QED BY <1>2, <1>7, <2>1, <2>2, <2>3 DEF RingInv, Reading
<1> QED BY <1>7, <1>10, <1>11, <1>12, <1>13, <1>14, <1>15 DEF RingInv

\* The same with the producer's part.
LEMMA PostTailInv == ASSUME Inv, PostTail PROVE Inv'
<1> USE DEF PostTail, consumerVars
<1>1. /\ plen \in Lengths /\ Len(sent) < MaxPost /\ tail + AllocLen(plen) < tail_threshold
      /\ mem[GetContEntry(tail)] = Header(AllocLen(plen), plen)
      /\ EntryAt(tail, Len(sent) + 1, plen)
  BY DEF Inv, Pending
<1>2. tail' = tail + AllocLen(plen)
  BY <1>1 DEF Header
<1>3. RingInv' /\ Len(sent') = Len(sent) + 1
  BY <1>1, <1>2, RingPost DEF Inv
<1>4. TypeOK'
  BY <1>3 DEF Inv, TypeOK, RingInv, RingTypes
<1>5. Pending'
  BY <1>1 DEF Inv, Pending
<1>6. Counters'
  <2>1. Len(sent) \in Nat
    BY FreedType DEF Inv
  <2> QED BY <1>3, <2>1 DEF Inv, Counters
<1> QED BY <1>3, <1>4, <1>5, <1>6 DEF Inv

\* The entry at head, while the consumer has one.
LEMMA HeadEntry ==
    ASSUME RingInv, head < tail
    PROVE  /\ Freed < Len(sent) /\ head = start[Freed + 1]
           /\ EntryAt(head, Freed + 1, sent[Freed + 1].app_len)
           /\ sent[Freed + 1].app_len \in Lengths
           /\ sent[Freed + 1] = Msg(Freed + 1, sent[Freed + 1].app_len)
<1>1. head \in Nat /\ tail \in Nat /\ Freed \in Nat /\ Len(sent) \in Nat
  BY FreedType DEF RingInv, RingTypes
<1>2. Freed < Len(sent) /\ head = start[Freed + 1]
  BY <1>1 DEF RingInv, Chain
<1>3. Freed + 1 \in 1 .. Len(sent) /\ Freed + 1 > Freed
  BY <1>1, <1>2
<1>4. EntryAt(start[Freed + 1], Freed + 1, sent[Freed + 1].app_len)
  BY <1>3 DEF RingInv, Contents
<1>5. /\ sent[Freed + 1].app_len \in Lengths
      /\ sent[Freed + 1] = Msg(Freed + 1, sent[Freed + 1].app_len)
  BY <1>3 DEF RingInv, Messages
<1> QED BY <1>2, <1>4, <1>5

\* What the consumer reads is the next message of the queue.
LEMMA ReadsNext ==
    ASSUME RingInv, cpc = "entry"
    PROVE  /\ Len(rcvd) \in Nat /\ Len(rcvd) < Len(sent) /\ Freed = Len(rcvd)
           /\ MsgAt(head) = sent[Len(rcvd) + 1] /\ sent[Len(rcvd) + 1] \in Message
<1>1. Freed = Len(rcvd) /\ head < tail /\ head \in Nat /\ Len(rcvd) \in Nat
  BY DEF Freed, RingInv, RingTypes, Reading
<1>2. /\ Freed < Len(sent)
      /\ EntryAt(head, Freed + 1, sent[Freed + 1].app_len)
      /\ sent[Freed + 1].app_len \in Lengths
      /\ sent[Freed + 1] = Msg(Freed + 1, sent[Freed + 1].app_len)
  BY <1>1, HeadEntry
<1>3. MsgAt(head) = Msg(Freed + 1, sent[Freed + 1].app_len)
  <2>1. Freed + 1 \in Nat /\ sent[Freed + 1].app_len \in Nat
    BY <1>1, <1>2, LengthBounds
  <2> QED BY <1>1, <1>2, <2>1, EntryIsMsg
<1>4. sent[Freed + 1] \in Message
  BY <1>1, <1>2 DEF RingInv, RingTypes
<1> QED BY <1>1, <1>2, <1>3, <1>4

\* TryWaitEntry never lets the cached threshold pass tail.
LEMMA RingTryWait == ASSUME RingInv, TryWaitEntry PROVE RingInv'
<1> USE DEF TryWaitEntry, producerVars
<1>1. head \in Nat /\ tail \in Nat /\ head_threshold \in Nat /\ head_threshold <= tail /\ cpc = "idle"
  BY DEF RingInv, RingTypes, Room
<1>2. /\ head_threshold' \in Nat /\ head_threshold' <= tail
      /\ cpc' = "entry" => head < tail
      /\ cpc' \in {"idle", "entry"}
  BY <1>1
<1>3. Freed' = Freed
  BY <1>1, <1>2 DEF Freed
<1>4. RingTypes'
  BY <1>2 DEF RingInv, RingTypes
<1>5. Chain'
  BY <1>3 DEF RingInv, Chain
<1>6. Contents'
  BY <1>3 DEF RingInv, Contents, EntryAt
<1>7. Room'
  BY <1>2 DEF RingInv, Room
<1>8. Reading'
  BY <1>2 DEF RingInv, Reading
<1> QED BY <1>4, <1>5, <1>6, <1>7, <1>8, RingFrames DEF RingInv

\* The same with the producer's part.
LEMMA TryWaitEntryInv == ASSUME Inv, TryWaitEntry PROVE Inv'
<1> USE DEF TryWaitEntry, producerVars
<1>1. RingInv'
  BY RingTryWait DEF Inv
<1>2. TypeOK'
  BY <1>1 DEF Inv, RingInv, RingTypes, TypeOK
<1>3. Counters'
  BY <1>1, FreedType DEF Inv, Counters, RingInv, RingTypes, Reading
<1> QED BY <1>1, <1>2, <1>3, Frames DEF Inv

\* Reading the entry at head extends the received messages by the next one sent.
LEMMA RingRead == ASSUME RingInv, ReadEntry PROVE RingInv'
<1> USE DEF ReadEntry, producerVars
<1> DEFINE n == Len(rcvd)
<1>1. /\ n \in Nat /\ n < Len(sent) /\ Freed = n
      /\ MsgAt(head) = sent[n + 1] /\ sent[n + 1] \in Message
  BY ReadsNext
<1>2. rcvd \in Seq(Message) /\ Len(sent) \in Nat /\ head < tail
  BY FreedType DEF RingInv, Reading
<1>3. rcvd' = Append(rcvd, sent[n + 1]) /\ cpc' = "read"
  BY <1>1
<1>4. /\ rcvd' \in Seq(Message) /\ Len(rcvd') = n + 1 /\ rcvd'[n + 1] = sent[n + 1]
      /\ \A k \in 1 .. n : rcvd'[k] = rcvd[k]
  BY <1>1, <1>2, <1>3
<1>5. Freed' = Freed
  BY <1>1, <1>3, <1>4 DEF Freed
<1>6. RingTypes'
  BY <1>1, <1>3, <1>4 DEF RingInv, RingTypes
<1>7. Chain'
  BY <1>5 DEF RingInv, Chain
<1>8. Contents'
  BY <1>5 DEF RingInv, Contents, EntryAt
<1>9. Reading'
  <2>1. \A k \in 1 .. n + 1 : rcvd'[k] = sent[k]
    BY <1>1, <1>4, LastIndex DEF RingInv, Reading
  <2> QED BY <1>1, <1>2, <1>3, <1>4, <2>1 DEF Reading
<1> QED BY <1>6, <1>7, <1>8, <1>9, RingFrames DEF RingInv

\* The same with the producer's part.
LEMMA ReadEntryInv == ASSUME Inv, ReadEntry PROVE Inv'
<1> USE DEF ReadEntry, producerVars
<1>1. RingInv'
  BY RingRead DEF Inv
<1>2. TypeOK'
  BY <1>1 DEF Inv, RingInv, RingTypes, TypeOK
<1>3. Counters'
  BY <1>1, ReadsNext DEF Inv, Counters, RingInv, RingTypes, Reading
<1> QED BY <1>1, <1>2, <1>3, Frames DEF Inv

\* FreeEntry's ++consume_nr keeps the counters within one of the histories.
LEMMA RingFreeCount == ASSUME RingInv, FreeCount PROVE RingInv'
<1> USE DEF FreeCount, producerVars
<1>1. Freed' = Freed
  BY DEF Freed
<1>2. RingTypes'
  BY DEF RingInv, RingTypes
<1>3. Chain'
  BY <1>1 DEF RingInv, Chain
<1>4. Contents'
  BY <1>1 DEF RingInv, Contents, EntryAt
<1>5. Reading'
  BY DEF RingInv, Reading
<1> QED BY <1>2, <1>3, <1>4, <1>5, RingFrames DEF RingInv

\* The same with the producer's part.
LEMMA FreeCountInv == ASSUME Inv, FreeCount PROVE Inv'
<1> USE DEF FreeCount, producerVars
<1>1. RingInv'
  BY RingFreeCount DEF Inv
<1>2. TypeOK'
  BY <1>1 DEF Inv, RingInv, RingTypes, TypeOK
<1>3. Counters'
  BY <1>1, FreedType DEF Inv, Counters, RingInv, RingTypes, Reading
<1> QED BY <1>1, <1>2, <1>3, Frames DEF Inv

\* FreeEntry's move of head goes to the start of the next unread entry.
LEMMA RingFreeHead == ASSUME RingInv, FreeHead PROVE RingInv'
<1> USE DEF FreeHead, producerVars
<1> DEFINE f == Freed
           l == sent[f + 1].app_len
<1>1. head < tail /\ Len(rcvd) > 0 /\ Len(rcvd) \in Nat /\ f = Len(rcvd) - 1
  BY DEF RingInv, Reading, Freed
<1>2. f < Len(sent) /\ head = start[f + 1] /\ EntryAt(head, f + 1, l) /\ l \in Lengths
  BY <1>1, HeadEntry
<1>3. AllocLen(l) \in Nat /\ AllocLen(l) >= 1
  <2> HIDE DEF l
  <2>1. l \in Nat
    BY <1>2, LengthBounds
  <2> QED BY <2>1, SizeOf
<1>4. head' = head + AllocLen(l)
  BY <1>2 DEF EntryAt, Header
<1>5. Freed' = f + 1 /\ f \in Nat /\ Len(sent) \in Nat
  BY <1>1, FreedType DEF Freed
<1>6. start[f + 1] + MsgLen(sent[f + 1]) <= tail /\ head \in Nat /\ tail \in Nat
  <2>1. f + 1 \in 1 .. Len(sent)
    BY <1>2, <1>5
  <2> QED BY <2>1 DEF RingInv, Chain, RingTypes
<1>7. head' <= tail /\ head <= head' /\ head' \in Nat
  BY <1>2, <1>3, <1>4, <1>6 DEF MsgLen
<1>8. RingTypes'
  BY <1>7 DEF RingInv, RingTypes
<1>9. head' = IF f + 1 < Len(sent) THEN start[f + 2] ELSE tail
  <2>1. CASE f + 1 < Len(sent)
    <3>1. f + 1 \in 1 .. Len(sent) - 1 /\ (f + 1) + 1 = f + 2
      BY <1>5, <2>1
    <3>2. start[f + 2] = start[f + 1] + MsgLen(sent[f + 1])
      BY <3>1 DEF RingInv, Chain
    <3> QED BY <1>2, <1>4, <2>1, <3>2 DEF MsgLen
  <2>2. CASE ~(f + 1 < Len(sent))
    <3>1. f + 1 = Len(sent) /\ Len(sent) > 0
      BY <1>2, <1>5, <2>2
    <3>2. start[f + 1] + MsgLen(sent[f + 1]) = tail
      BY <3>1 DEF RingInv, Chain
    <3> QED BY <1>2, <1>4, <2>2, <3>2 DEF MsgLen
  <2> QED BY <2>1, <2>2
<1>10. Chain'
  <2>1. Freed' + 1 = f + 2
    BY <1>5
  <2> QED BY <1>5, <1>9, <2>1 DEF RingInv, Chain
<1>11. Contents'
  BY <1>5 DEF RingInv, Contents, EntryAt
<1>12. Room'
  BY <1>6, <1>7, SizeAssumption DEF RingInv, Room, RingTypes
<1>13. Reading'
  BY DEF RingInv, Reading
<1> QED BY <1>8, <1>10, <1>11, <1>12, <1>13, RingFrames DEF RingInv

\* The same with the producer's part.
LEMMA FreeHeadInv == ASSUME Inv, FreeHead PROVE Inv'
<1> USE DEF FreeHead, producerVars
<1>1. RingInv'
  BY RingFreeHead DEF Inv
<1>2. TypeOK'
  BY <1>1 DEF Inv, RingInv, RingTypes, TypeOK
<1>3. Counters'
  BY <1>1, FreedType DEF Inv, Counters, RingInv, RingTypes, Reading
<1> QED BY <1>1, <1>2, <1>3, Frames DEF Inv

\* Foreach moves the cached threshold to tail and nothing else.
LEMMA ForeachInv == ASSUME Inv, Foreach PROVE Inv'
<1> USE DEF Foreach, producerVars
<1>1. TypeOK'
  BY DEF Inv, RingInv, TypeOK
<1>2. Room'
  BY DEF Inv, RingInv, Room, TypeOK
<1> QED BY <1>1, <1>2, Frames DEF Inv, RingInv

\* Every step of producer, consumer or set_release_alert preserves the invariant.
LEMMA InvStep == ASSUME Inv, [Next]_vars PROVE Inv'
<1>1. CASE set_release_alert
  <2>1. TypeOK'
    BY <1>1 DEF Inv, RingInv, TypeOK, set_release_alert, consumerVars, producerVars
  <2> QED BY <1>1, <2>1, Frames DEF Inv, RingInv, set_release_alert, consumerVars, producerVars
<1>2. CASE UNCHANGED vars
  <2>1. TypeOK'
    BY <1>2 DEF Inv, RingInv, TypeOK, vars, consumerVars, producerVars
  <2> QED BY <1>2, <2>1, Frames DEF Inv, RingInv, vars, consumerVars, producerVars
<1> QED
  BY <1>1, <1>2, CallAllocInv, TryAllocEntryInv, AllocWouldblockInv, AdjustEntryLengthInv,
     FillEntryInv, PostCountInv, PostTailInv, TryWaitEntryInv, ReadEntryInv, FreeCountInv,
     FreeHeadInv, ForeachInv
  DEF Next, Producer, ProducerCall, ProducerStep, Consumer, ConsumerStep

-----------------------------------------------------------------------------
(* The walk of Foreach.  Its cursor is a recursive function: that there is *)
(* one, and what it is, takes induction.  NatInduction has an operator for *)
(* a parameter, which the provers cannot instantiate; with a set in its    *)
(* place the step is an ordinary one.                                      *)

\* A set of natural numbers that is not empty has a least one.
LEMMA LeastNumber ==
    ASSUME NEW T, T \subseteq Nat, T # {}
    PROVE  \E m \in T : \A k \in T : m <= k
<1>1. PICK R : R = OpToRel(<, Nat)
  OBVIOUS
<1>2. IsWellFoundedOn(R, Nat)
  BY <1>1, NatLessThanWellFounded
<1>3. \A x, y \in Nat : <<x, y>> \in R <=> x < y
  BY <1>1 DEF OpToRel
<1>4. PICK m \in T : \A y \in T : ~(<<y, m>> \in R)
  BY <1>2, WFMin
<1>5. \A k \in T : m <= k
  <2>1. ASSUME NEW k \in T PROVE m <= k
    <3>1. k \in Nat /\ m \in Nat /\ ~(k < m)
      BY <1>3, <1>4
    <3> QED BY <3>1
  <2> QED BY <2>1
<1> QED BY <1>5

\* Induction, over a set: the least number outside it would have a predecessor in it.
LEMMA SetInduction ==
    ASSUME NEW S, 0 \in S, \A n \in Nat : n \in S => n + 1 \in S
    PROVE  \A n \in Nat : n \in S
<1> SUFFICES ASSUME ~(\A n \in Nat : n \in S) PROVE FALSE
  OBVIOUS
<1>1. PICK m \in Nat \ S : \A k \in Nat \ S : m <= k
  <2>1. Nat \ S \subseteq Nat /\ Nat \ S # {}
    OBVIOUS
  <2> QED BY <2>1, LeastNumber
<1>2. m # 0 /\ m - 1 \in Nat
  BY <1>1
<1>3. m - 1 \in S
  BY <1>1, <1>2
<1> QED BY <1>1, <1>2, <1>3

\* g holds the first n + 1 values that F gives, beginning with a.
Prefix(n, g, a, F, V) == /\ g \in [0 .. n -> V] /\ g[0] = a
                         /\ \A i \in 0 .. n : i < n => g[i + 1] = F[g[i]]

\* There are first values for every n ...
LEMMA PrefixExists ==
    ASSUME NEW V, NEW a \in V, NEW F \in [V -> V]
    PROVE  \A n \in Nat : \E g : Prefix(n, g, a, F, V)
<1> DEFINE S == {n \in Nat : \E g : Prefix(n, g, a, F, V)}
<1>1. 0 \in S
  <2>1. Prefix(0, [i \in 0 .. 0 |-> a], a, F, V)
    BY DEF Prefix
  <2> QED BY <2>1
<1>2. ASSUME NEW n \in Nat, n \in S PROVE n + 1 \in S
  <2>1. PICK g : Prefix(n, g, a, F, V)
    BY <1>2
  <2> DEFINE h == [i \in 0 .. n + 1 |-> IF i <= n THEN g[i] ELSE F[g[n]]]
  <2>2. \A i \in 0 .. n : g[i] \in V /\ i \in 0 .. n + 1 /\ h[i] = g[i]
    BY <2>1 DEF Prefix
  <2>3. n \in 0 .. n /\ n + 1 \in 0 .. n + 1 /\ 0 \in 0 .. n /\ h[n + 1] = F[g[n]] /\ F[g[n]] \in V
    BY <2>1 DEF Prefix
  <2>4. \A i \in 0 .. n + 1 : i \in 0 .. n \/ i = n + 1
    OBVIOUS
  <2>5. h \in [0 .. n + 1 -> V]
    BY <2>2, <2>3, <2>4
  <2>6. h[0] = a
    BY <2>1, <2>2, <2>3 DEF Prefix
  <2>7. ASSUME NEW i \in 0 .. n + 1, i < n + 1 PROVE h[i + 1] = F[h[i]]
    <3>1. i \in 0 .. n
      BY <2>7
    <3>2. CASE i < n
      <4>1. i + 1 \in 0 .. n
        BY <3>2
      <4> QED BY <2>1, <2>2, <3>1, <3>2, <4>1 DEF Prefix
    <3>3. CASE i = n
      BY <2>2, <2>3, <3>1, <3>3
    <3> QED BY <3>1, <3>2, <3>3
  <2> HIDE DEF h
  <2>8. Prefix(n + 1, h, a, F, V)
    BY <2>5, <2>6, <2>7 DEF Prefix
  <2> QED BY <2>8
<1> HIDE DEF S
<1>3. \A n \in Nat : n \in S
  BY <1>1, <1>2, SetInduction
<1> QED BY <1>3 DEF S

\* ... and they do not depend on how far one goes.
LEMMA PrefixUnique ==
    ASSUME NEW V, NEW a \in V, NEW F \in [V -> V], NEW m \in Nat, NEW n \in Nat, m <= n,
           NEW g, NEW h, Prefix(m, g, a, F, V), Prefix(n, h, a, F, V)
    PROVE  \A i \in 0 .. m : g[i] = h[i]
<1> DEFINE S == {i \in Nat : i <= m => g[i] = h[i]}
<1>1. 0 \in S
  BY DEF Prefix
<1>2. ASSUME NEW i \in Nat, i \in S PROVE i + 1 \in S
  <2>1. CASE i + 1 <= m
    <3>1. i \in 0 .. m /\ i \in 0 .. n /\ i < m /\ i < n /\ g[i] = h[i]
      BY <1>2, <2>1
    <3>2. g[i + 1] = F[g[i]] /\ h[i + 1] = F[h[i]]
      BY <3>1 DEF Prefix
    <3> QED BY <3>1, <3>2
  <2>2. CASE ~(i + 1 <= m)
    BY <2>2
  <2> QED BY <2>1, <2>2
<1> HIDE DEF S
<1>3. \A i \in Nat : i \in S
  BY <1>1, <1>2, SetInduction
<1> QED BY <1>3 DEF S

\* So there is a function that applies F again and again, beginning with a.
LEMMA Iterates ==
    ASSUME NEW V, NEW a \in V, NEW F \in [V -> V]
    PROVE  \E f \in [Nat -> V] : f[0] = a /\ \A n \in Nat : f[n + 1] = F[f[n]]
<1> DEFINE P(n) == CHOOSE g : Prefix(n, g, a, F, V)
           f == [n \in Nat |-> P(n)[n]]
<1>1. \A n \in Nat : Prefix(n, P(n), a, F, V)
  BY PrefixExists
<1> HIDE DEF P
<1>2. f \in [Nat -> V]
  <2>1. ASSUME NEW n \in Nat PROVE P(n)[n] \in V
    <3>1. n \in 0 .. n
      OBVIOUS
    <3> QED BY <1>1, <3>1 DEF Prefix
  <2> QED BY <2>1
<1>3. f[0] = a
  BY <1>1 DEF Prefix
<1>4. ASSUME NEW n \in Nat PROVE f[n + 1] = F[f[n]]
  <2>1. n \in 0 .. n /\ n \in 0 .. n + 1 /\ n < n + 1 /\ n + 1 \in Nat /\ n <= n + 1
    OBVIOUS
  <2>2. PICK g : g = P(n) /\ Prefix(n, g, a, F, V)
    BY <1>1
  <2>3. PICK h : h = P(n + 1) /\ Prefix(n + 1, h, a, F, V)
    BY <1>1, <2>1
  <2>4. h[n + 1] = F[h[n]]
    BY <2>1, <2>3 DEF Prefix
  <2>5. g[n] = h[n]
    BY <2>1, <2>2, <2>3, PrefixUnique
  <2> QED BY <2>1, <2>2, <2>3, <2>4, <2>5
<1> HIDE DEF f
<1> QED BY <1>2, <1>3, <1>4

\* The cursor goes from one position to the next by the length it finds there.
LEMMA CursorStep ==
    ASSUME RingTypes
    PROVE  /\ Cursor[0] = head
           /\ \A n \in Nat : Cursor[n + 1] = Cursor[n] + mem[GetContEntry(Cursor[n])].len
<1> DEFINE F == [p \in Nat |-> p + mem[GetContEntry(p)].len]
           Step(f) == [n \in Nat |-> IF n = 0 THEN head
                                     ELSE f[n - 1] + mem[GetContEntry(f[n - 1])].len]
<1>1. F \in [Nat -> Nat]
  <2>1. ASSUME NEW p \in Nat PROVE p + mem[GetContEntry(p)].len \in Nat
    <3>1. GetContEntry(p) \in Offsets
      BY SizeAssumption, OffsetOf DEF Offsets
    <3>2. mem[GetContEntry(p)].len \in Nat
      BY <3>1 DEF RingTypes, Cell
    <3> QED BY <3>2
  <2> QED BY <2>1
<1>2. \A p \in Nat : F[p] = p + mem[GetContEntry(p)].len
  OBVIOUS
<1> HIDE DEF F
<1>3. PICK f \in [Nat -> Nat] : f[0] = head /\ \A n \in Nat : f[n + 1] = F[f[n]]
  <2>1. PICK V : V = Nat
    OBVIOUS
  <2>2. PICK a \in V : a = head
    BY <2>1 DEF RingTypes
  <2>3. PICK G \in [V -> V] : G = F
    BY <1>1, <2>1
  <2>4. \E f \in [Nat -> V] : f[0] = a /\ \A n \in Nat : f[n + 1] = G[f[n]]
    BY Iterates
  <2> QED BY <2>1, <2>2, <2>3, <2>4
<1>4. f = Step(f)
  <2>1. ASSUME NEW n \in Nat PROVE f[n] = Step(f)[n]
    <3>1. CASE n = 0
      BY <1>3, <3>1
    <3>2. CASE n # 0
      <4>1. n - 1 \in Nat /\ (n - 1) + 1 = n
        BY <3>2
      <4>2. f[n] = F[f[n - 1]] /\ f[n - 1] \in Nat
        BY <1>3, <4>1
      <4> QED BY <1>2, <3>2, <4>2
    <3> QED BY <3>1, <3>2
  <2> QED BY <2>1
<1>5. Cursor = Step(Cursor)
  <2>1. Cursor = CHOOSE c : c = Step(c)
    BY DEF Cursor
  <2> HIDE DEF Step
  <2> QED BY <1>4, <2>1
<1>6. Cursor[0] = head
  BY <1>5
<1>7. ASSUME NEW n \in Nat PROVE Cursor[n + 1] = Cursor[n] + mem[GetContEntry(Cursor[n])].len
  <2>1. n + 1 \in Nat /\ n + 1 # 0 /\ (n + 1) - 1 = n
    OBVIOUS
  <2>2. Cursor[n + 1] = Step(Cursor)[n + 1]
    BY <1>5
  <2> HIDE DEF Cursor
  <2> QED BY <2>1, <2>2
<1> QED BY <1>6, <1>7

\* Foreach's walk, from what is known of the ring.
LEMMA WalkOfRing == ASSUME RingInv PROVE WalkVisitsUnread
<1>1. /\ Len(sent) \in Nat /\ Freed \in Int /\ Freed >= 0 /\ Freed <= Len(sent) /\ tail \in Nat
      /\ RingTypes /\ \A k \in 1 .. Len(sent) : start[k] \in Nat
  BY DEF RingInv, RingTypes, Reading, Freed
<1>2. PICK d \in Nat : d = Len(sent) - Freed
  <2>1. Len(sent) - Freed \in Nat
    BY <1>1
  <2> QED BY <2>1
<1> DEFINE S == {n \in Nat : n <= d => Cursor[n] = IF n < d THEN start[Freed + n + 1] ELSE tail}
<1>3. 0 \in S
  <2>1. Cursor[0] = head
    BY <1>1, CursorStep
  <2>2. head = IF 0 < d THEN start[Freed + 1] ELSE tail
    BY <1>1, <1>2 DEF RingInv, Chain
  <2>3. Freed + 0 + 1 = Freed + 1
    BY <1>1
  <2> QED BY <2>1, <2>2, <2>3
<1>4. ASSUME NEW n \in Nat, n \in S PROVE n + 1 \in S
  <2>1. CASE n + 1 <= d
    <3>1. PICK k \in 1 .. Len(sent) : k = Freed + n + 1 /\ k > Freed
      BY <1>1, <1>2, <2>1
    <3>2. Cursor[n] = start[k]
      BY <1>4, <2>1, <3>1
    <3>3. Cursor[n + 1] = start[k] + mem[GetContEntry(start[k])].len
      BY <1>1, <3>2, CursorStep
    <3>4. mem[GetContEntry(start[k])].len = MsgLen(sent[k])
      <4>1. mem[GetContEntry(start[k])] = Header(AllocLen(sent[k].app_len), sent[k].app_len)
        BY <3>1 DEF RingInv, Contents, EntryAt
      <4> QED BY <4>1 DEF Header, MsgLen
    <3>5. start[k] + MsgLen(sent[k]) = IF k < Len(sent) THEN start[k + 1] ELSE tail
      BY <1>1, <3>1 DEF RingInv, Chain
    <3>6. (n + 1 < d <=> k < Len(sent)) /\ Freed + (n + 1) + 1 = k + 1
      BY <1>1, <1>2, <3>1
    <3>7. Cursor[n + 1] = IF n + 1 < d THEN start[Freed + (n + 1) + 1] ELSE tail
      BY <3>3, <3>4, <3>5, <3>6
    <3> QED BY <3>7
  <2>2. CASE ~(n + 1 <= d)
    BY <2>2
  <2> QED BY <2>1, <2>2
<1> HIDE DEF S
<1>5. \A n \in Nat : n \in S
  BY <1>3, <1>4, SetInduction
<1>6. \A n \in Nat : n <= d => Cursor[n] = IF n < d THEN start[Freed + n + 1] ELSE tail
  BY <1>5 DEF S
<1>7. ASSUME NEW n \in 1 .. Len(sent) - Freed PROVE Cursor[n - 1] = start[Freed + n]
  <2>1. n - 1 \in Nat /\ n - 1 < d /\ n - 1 <= d /\ Freed + (n - 1) + 1 = Freed + n
    BY <1>1, <1>2
  <2> QED BY <1>6, <2>1
<1>8. Cursor[d] = tail
  BY <1>6
<1> QED BY <1>2, <1>7, <1>8 DEF WalkVisitsUnread

-----------------------------------------------------------------------------
(* The theorems.                                                           *)

\* The inductive invariant holds of the ring for every ring size, reserve size and
\* set of entry lengths that satisfy SizeAssumption.
THEOREM InvHolds == Spec => []Inv
BY InitInv, InvStep, PTL DEF Spec

\* TypeOK for every instance: offsets stay within the mapped area, reserve
\* included, and the positions never become negative.
THEOREM TypeCorrect == Spec => []TypeOK
<1>1. Inv => TypeOK
  BY DEF Inv, RingInv
<1> QED BY <1>1, InvHolds, PTL

\* What is in the ring between head and tail are the messages as they were filled in.
LEMMA IntactRing == RingInv => EntriesIntact
<1> SUFFICES ASSUME RingInv, NEW k \in Freed + 1 .. Len(sent)
             PROVE  MsgAt(start[k]) = sent[k]
  BY DEF EntriesIntact
<1>1. k \in 1 .. Len(sent) /\ k > Freed
  BY FreedType
<1>2. /\ EntryAt(start[k], k, sent[k].app_len) /\ sent[k] = Msg(k, sent[k].app_len)
      /\ start[k] \in Nat /\ sent[k].app_len \in Nat
  BY <1>1, UnreadPlace, LengthBounds DEF RingInv, Contents, Messages
<1>3. k \in Nat
  BY <1>1
<1> QED BY <1>2, <1>3, EntryIsMsg

\* EntriesIntact for every instance: as long as the longest entry fits the
\* reserve and is shorter than the ring, no allocation or payload copy touches an
\* entry the consumer may still read.
THEOREM EntriesIntactHolds == Spec => []EntriesIntact
<1>1. Inv => EntriesIntact
  BY IntactRing DEF Inv
<1> QED BY <1>1, InvHolds, PTL

\* ConsumeComplete for every instance: although each counter is updated apart
\* from the position it goes with, in either order, they agree between calls only
\* when the consumer has read everything.
THEOREM ConsumeCompleteHolds == Spec => []ConsumeComplete
<1>1. Inv => ConsumeComplete
  <2> SUFFICES ASSUME Inv, ppc = "idle", produce_nr = consume_nr
               PROVE  rcvd = sent
    BY DEF ConsumeComplete
  <2>1. Len(rcvd) \in Nat /\ Len(sent) \in Nat /\ Len(rcvd) <= Len(sent)
    BY FreedType DEF Inv, RingInv, Reading
  <2>2. Len(rcvd) = Len(sent)
    BY <2>1 DEF Inv, RingInv, Counters
  <2>3. /\ rcvd \in Seq(Message) /\ sent \in Seq(Message)
        /\ \A k \in 1 .. Len(rcvd) : rcvd[k] = sent[k]
    BY DEF Inv, RingInv, Reading, TypeOK
  <2> QED BY <2>2, <2>3
<1> QED BY <1>1, InvHolds, PTL

\* A walk by the stored lengths visits every unread entry where it was posted, and
\* ends at tail: Foreach sees what the consumer will see.
THEOREM WalkIsRight == Spec => []WalkVisitsUnread
<1>1. Inv => WalkVisitsUnread
  BY WalkOfRing DEF Inv
<1> QED BY <1>1, InvHolds, PTL

\* ImplementsFifo for every instance: PostTail is the abstract Send, ReadEntry
\* the abstract Receive, and every other step of the ring is invisible.
THEOREM FifoRefinement == Spec => ImplementsFifo
<1>1. Init => Queue!Init
  BY DEF Init, Queue!Init
<1>2. Inv /\ [Next]_vars => [Queue!Next]_<<sent, rcvd>>
  <2> SUFFICES ASSUME Inv, [Next]_vars
               PROVE  Queue!Next \/ UNCHANGED <<sent, rcvd>>
    OBVIOUS
  <2>1. CASE PostTail
    <3>1. plen \in Lengths /\ Len(sent) < MaxPost /\ Len(sent) \in Nat
      BY <2>1, FreedType DEF PostTail, Inv, Pending
    <3>2. Len(sent) + 1 \in 1 .. MaxPost
      BY <3>1, SizeAssumption
    <3>3. Msg(Len(sent) + 1, plen) \in Message
      BY <3>1, <3>2, MessageOf
    <3> QED BY <2>1, <3>3 DEF PostTail, consumerVars, Queue!Next, Queue!Send
  <2>2. CASE ReadEntry
    BY <2>2, ReadsNext DEF Inv, ReadEntry, producerVars, Queue!Next, Queue!Receive
  <2>3. CASE UNCHANGED vars
    BY <2>3 DEF vars, consumerVars, producerVars
  <2>4. CASE set_release_alert
    BY <2>4 DEF set_release_alert, consumerVars, producerVars
  <2>5. CASE \/ ProducerCall \/ TryAllocEntry \/ AllocWouldblock \/ FillEntry \/ PostCount
             \/ \E l \in Lengths : AdjustEntryLength(l)
    BY <2>5 DEF ProducerCall, CallAlloc, TryAllocEntry, AllocWouldblock, FillEntry,
                PostCount, AdjustEntryLength, consumerVars
  <2>6. CASE TryWaitEntry \/ FreeCount \/ FreeHead \/ Foreach
    BY <2>6 DEF TryWaitEntry, FreeCount, FreeHead, Foreach, producerVars
  <2> QED BY <2>1, <2>2, <2>3, <2>4, <2>5, <2>6
          DEF Next, Producer, ProducerStep, Consumer, ConsumerStep
<1> QED BY <1>1, <1>2, InvHolds, PTL DEF Spec, ImplementsFifo, Queue!Spec
=============================================================================
