----------------------- MODULE ContinueMemoryMPProofs -----------------------
(***************************************************************************)
(* Proofs about ContinueMemoryMP, for any number of producers and every    *)
(* size of ring and reserve: entries held at the same time are disjoint,   *)
(* they are published in the order they were handed out, what is published *)
(* is never overwritten, and the ring still implements FifoQueue.          *)
(*                                                                         *)
(* The argument: entries in the hands of producers follow one another      *)
(* without gap from tail to reserved_tail, in the order of their numbers   *)
(* (LineInv).  All of them are within one lap, so the comparison of        *)
(* addresses in PostEntryThreadSafe lets the first one pass only.  What    *)
(* becomes of a published entry is the invariant RingInv of one producer.  *)
(***************************************************************************)
EXTENDS ContinueMemoryMP, ContinueMemoryProofs

-----------------------------------------------------------------------------
(* The inductive invariant.                                                *)

ProducerSteps == {"idle", "alloc", "try", "own", "filled", "loaded", "counted"}

MPTypes ==
    /\ ppc \in [Producers -> ProducerSteps] /\ plen \in [Producers -> Nat]
    /\ pos \in [Producers -> Nat] /\ pid \in [Producers -> Nat] /\ nr \in [Producers -> Nat]
    /\ reserved_tail \in Nat /\ allocs \in 0 .. MaxPost

\* A held entry lies between tail and reserved_tail and is as its producer left it.
HeldInv ==
    \A p \in Producers :
        /\ ppc[p] # "idle" => plen[p] \in Lengths
        /\ Holding(p) => /\ tail <= pos[p] /\ pos[p] + AllocLen(plen[p]) <= reserved_tail
                         /\ Len(sent) < pid[p] /\ pid[p] <= allocs
                         /\ mem[GetContEntry(pos[p])] = Header(AllocLen(plen[p]), plen[p])
        /\ ppc[p] \in {"filled", "loaded", "counted"} => EntryAt(pos[p], pid[p], plen[p])

\* Held entries are ordered by their numbers.
OrderInv ==
    \A p, q \in Producers : Holding(p) /\ Holding(q) =>
        /\ pid[p] = pid[q] => p = q
        /\ pid[p] < pid[q] => pos[p] + AllocLen(plen[p]) <= pos[q]

\* They follow one another without gap.
LineInv ==
    /\ Len(sent) <= allocs /\ tail <= reserved_tail /\ reserved_tail < tail_threshold
    /\ allocs = Len(sent) => tail = reserved_tail
    /\ \A n \in Len(sent) + 1 .. allocs : \E p \in Producers : Holding(p) /\ pid[p] = n
    /\ \A p \in Producers : Holding(p) =>
           /\ pid[p] = Len(sent) + 1 => pos[p] = tail
           /\ pid[p] = allocs => pos[p] + AllocLen(plen[p]) = reserved_tail
    /\ \A p, q \in Producers : Holding(p) /\ Holding(q) /\ pid[q] = pid[p] + 1 =>
           pos[q] = pos[p] + AllocLen(plen[p])

MPInv == RingInv /\ MPTypes /\ HeldInv /\ OrderInv /\ LineInv

-----------------------------------------------------------------------------
(* Positions.                                                              *)

\* The cursors, which also bound what is in use to one lap.
LEMMA RingBounds ==
    ASSUME MPInv
    PROVE  /\ head \in Nat /\ tail \in Nat /\ reserved_tail \in Nat /\ tail_threshold \in Nat
           /\ MemorySize \in Nat /\ MemorySize > 0 /\ ReserveSize \in Nat
           /\ head <= tail /\ tail <= reserved_tail /\ reserved_tail < tail_threshold
           /\ tail_threshold <= head + MemorySize
           /\ Len(sent) \in Nat /\ allocs \in Nat /\ Len(sent) <= allocs
           /\ MaxPost \in Nat /\ allocs <= MaxPost
<1>1. RingTypes /\ Room
  BY DEF MPInv, RingInv
<1>2. Len(sent) \in Nat
  BY FreedType DEF MPInv
<1> QED BY <1>1, <1>2, SizeAssumption DEF MPInv, MPTypes, LineInv, RingTypes, Room

\* Where a held entry is.
LEMMA HeldPlace ==
    ASSUME MPInv, NEW p \in Producers, Holding(p)
    PROVE  /\ plen[p] \in Lengths /\ plen[p] \in Nat /\ pos[p] \in Nat /\ pid[p] \in Nat
           /\ AllocLen(plen[p]) \in Nat /\ AllocLen(plen[p]) >= 1
           /\ AllocLen(plen[p]) = CalcAllocSize(plen[p]) + 1
           /\ CalcAllocSize(plen[p]) \in Nat /\ CalcAllocSize(plen[p]) < ReserveSize
           /\ tail <= pos[p] /\ pos[p] + AllocLen(plen[p]) <= reserved_tail
           /\ pos[p] + AllocLen(plen[p]) < head + MemorySize
           /\ Len(sent) < pid[p] /\ pid[p] <= allocs
           /\ mem[GetContEntry(pos[p])] = Header(AllocLen(plen[p]), plen[p])
           /\ GetContEntry(pos[p]) \in 0 .. MemorySize - 1 /\ GetContEntry(pos[p]) \in Offsets
<1>1. pos[p] \in Nat /\ pid[p] \in Nat
  BY DEF MPInv, MPTypes
<1>2. plen[p] \in Lengths
  BY DEF MPInv, HeldInv, Holding
<1>3. /\ plen[p] \in Nat /\ AllocLen(plen[p]) \in Nat /\ AllocLen(plen[p]) >= 1
      /\ AllocLen(plen[p]) = CalcAllocSize(plen[p]) + 1
      /\ CalcAllocSize(plen[p]) \in Nat /\ CalcAllocSize(plen[p]) < ReserveSize
  BY <1>2, LengthBounds, SizeOf
<1>4. /\ tail <= pos[p] /\ pos[p] + AllocLen(plen[p]) <= reserved_tail
      /\ Len(sent) < pid[p] /\ pid[p] <= allocs
      /\ mem[GetContEntry(pos[p])] = Header(AllocLen(plen[p]), plen[p])
  BY DEF MPInv, HeldInv
<1>5. pos[p] + AllocLen(plen[p]) < head + MemorySize
  BY <1>1, <1>3, <1>4, RingBounds
<1>6. GetContEntry(pos[p]) \in 0 .. MemorySize - 1
  BY <1>1, OffsetOf
<1>7. GetContEntry(pos[p]) \in Offsets
  BY <1>6, RingBounds DEF Offsets
<1> QED BY <1>1, <1>2, <1>3, <1>4, <1>5, <1>6, <1>7

\* Two held entries are apart.
LEMMA HeldApart ==
    ASSUME MPInv, NEW p \in Producers, NEW q \in Producers, p # q, Holding(p), Holding(q)
    PROVE  \/ pos[p] + AllocLen(plen[p]) <= pos[q]
           \/ pos[q] + AllocLen(plen[q]) <= pos[p]
<1>1. pid[p] \in Nat /\ pid[q] \in Nat
  BY HeldPlace
<1>2. pid[p] # pid[q]
  BY DEF MPInv, OrderInv
<1>3. pid[p] < pid[q] \/ pid[q] < pid[p]
  BY <1>1, <1>2
<1> QED BY <1>3 DEF MPInv, OrderInv

\* The address in PostEntryThreadSafe tells whose turn it is: within one lap the
\* addresses of two positions are the same only if the positions are, and the entry
\* at tail is the next one in the order of allocation.
LEMMA FirstInLine ==
    ASSUME MPInv, NEW p \in Producers, Holding(p), GetContEntry(tail) = GetContEntry(pos[p])
    PROVE  pos[p] = tail /\ pid[p] = Len(sent) + 1
<1>1. /\ tail \in Nat /\ head \in Nat /\ head <= tail /\ MemorySize \in Nat /\ Len(sent) \in Nat
      /\ allocs \in Nat /\ Len(sent) <= allocs
  BY RingBounds
<1>2. /\ pos[p] \in Nat /\ pid[p] \in Nat /\ tail <= pos[p] /\ AllocLen(plen[p]) \in Nat
      /\ pos[p] + AllocLen(plen[p]) < head + MemorySize /\ AllocLen(plen[p]) >= 1
      /\ Len(sent) < pid[p] /\ pid[p] <= allocs
  BY HeldPlace
<1>3. pos[p] = tail
  <2> SUFFICES ASSUME pos[p] # tail PROVE FALSE
    OBVIOUS
  <2>1. tail + 0 < pos[p] + 0 /\ pos[p] + 0 < tail + 0 + MemorySize /\ 0 \in Nat
    BY <1>1, <1>2
  <2>2. GetContEntry(tail) + 0 # GetContEntry(pos[p]) + 0
    BY <1>1, <1>2, <2>1, NoCollision
  <2> QED BY <2>2
<1>4. pid[p] = Len(sent) + 1
  <2> SUFFICES ASSUME pid[p] # Len(sent) + 1 PROVE FALSE
    OBVIOUS
  <2>1. Len(sent) + 1 \in Len(sent) + 1 .. allocs /\ Len(sent) + 1 < pid[p]
    BY <1>1, <1>2
  <2>2. PICK q \in Producers : Holding(q) /\ pid[q] = Len(sent) + 1
    BY <2>1 DEF MPInv, LineInv
  <2>3. pos[q] = tail /\ AllocLen(plen[q]) \in Nat /\ AllocLen(plen[q]) >= 1
    BY <2>2, HeldPlace DEF MPInv, LineInv
  <2>4. pos[q] + AllocLen(plen[q]) <= pos[p]
    BY <2>1, <2>2 DEF MPInv, OrderInv
  <2> QED BY <1>1, <1>3, <2>3, <2>4
<1> QED BY <1>3, <1>4

\* The threshold of the locked section never exceeds head + memory_size_.
LEMMA LockedThresholdBound ==
    ASSUME MPInv, NEW p \in Producers
    PROVE  /\ LockedTailThreshold(p) \in Nat /\ LockedTailThreshold(p) <= head + MemorySize
           /\ reserved_tail < LockedTailThreshold(p)
BY RingBounds DEF LockedTailThreshold

\* The producers' parts, where nothing of theirs changes but one producer's step
\* outside an entry or inside one.
LEMMA HeldFrame ==
    ASSUME MPInv, UNCHANGED <<tail, mem, sent, plen, pos, pid, reserved_tail, allocs>>,
           LineInv => reserved_tail < tail_threshold',
           \A p \in Producers :
               /\ Holding(p)' <=> Holding(p)
               /\ ppc'[p] # "idle" => ppc[p] # "idle"
               /\ ppc'[p] \in {"filled", "loaded", "counted"} =>
                      ppc[p] \in {"filled", "loaded", "counted"}
    PROVE  HeldInv' /\ OrderInv' /\ LineInv'
<1>1. HeldInv'
  BY DEF MPInv, HeldInv, EntryAt
<1>2. OrderInv'
  BY DEF MPInv, OrderInv
<1>3. LineInv'
  BY DEF MPInv, LineInv
<1> QED BY <1>1, <1>2, <1>3

-----------------------------------------------------------------------------
(* Every action preserves the invariant.                                   *)

\* The ring ContinueMemory::Create makes, with nobody in a call.
LEMMA MPInitInv == MPInit => MPInv
<1> SUFFICES ASSUME MPInit PROVE MPInv
  OBVIOUS
<1> USE DEF MPInit
<1>1. RingTypes
  <2>1. mem \in [Offsets -> Cell]
    BY CellTypes
  <2>2. sent \in Seq(Message) /\ start \in Seq(Nat) /\ Len(start) = Len(sent) /\ Len(rcvd) \in Nat
    OBVIOUS
  <2> QED BY <2>1, <2>2, SizeAssumption DEF RingTypes
<1>2. Chain /\ Messages /\ Contents
  BY DEF Chain, Messages, Contents, Freed
<1>3. Room /\ Reading
  BY SizeAssumption DEF Room, Reading
<1>4. MPTypes
  BY SizeAssumption DEF MPTypes, ProducerSteps
<1>5. \A p \in Producers : ppc[p] = "idle" /\ ~Holding(p)
  BY DEF Holding
<1>6. HeldInv /\ OrderInv
  BY <1>5 DEF HeldInv, OrderInv
<1>7. LineInv
  BY <1>5, SizeAssumption DEF LineInv
<1> QED BY <1>1, <1>2, <1>3, <1>4, <1>6, <1>7 DEF MPInv, RingInv

\* A call of LockAllocEntry or of TryLockAllocEntry begins.
LEMMA CallLockAllocInv ==
    ASSUME MPInv, NEW p \in Producers, NEW l \in Lengths, NEW mode \in {"alloc", "try"},
           CallLockAlloc(p, l, mode)
    PROVE  MPInv'
<1> USE DEF CallLockAlloc, consumerVars, mpVars
<1>1. RingInv'
  <2>1. RingTypes'
    BY DEF MPInv, RingInv, RingTypes
  <2> QED BY <2>1, RingFrames DEF MPInv, RingInv
<1>2. MPTypes'
  BY LengthBounds DEF MPInv, MPTypes, ProducerSteps
<1>3. /\ \A q \in Producers : q # p => ppc'[q] = ppc[q] /\ plen'[q] = plen[q]
      /\ ppc'[p] = mode /\ plen'[p] = l /\ ~Holding(p) /\ ~Holding(p)'
  BY DEF MPInv, MPTypes, Holding
<1>4. \A q \in Producers : Holding(q)' => q # p /\ Holding(q)
  BY <1>3 DEF Holding
<1>5. \A q \in Producers : Holding(q) => q # p /\ Holding(q)'
  BY <1>3 DEF Holding
<1>6. HeldInv'
  BY <1>3, <1>4 DEF MPInv, HeldInv, EntryAt
<1>7. OrderInv'
  BY <1>3, <1>4 DEF MPInv, OrderInv
<1>8. LineInv'
  <2>1. \A n \in Len(sent) + 1 .. allocs : \E q \in Producers : Holding(q)' /\ pid[q] = n
    BY <1>5 DEF MPInv, LineInv
  <2> QED BY <1>3, <1>4, <2>1 DEF MPInv, LineInv
<1> QED BY <1>1, <1>2, <1>6, <1>7, <1>8 DEF MPInv

\* The locked section finds no room: it moves the cached threshold only.
LEMMA LockAllocWouldblockInv ==
    ASSUME MPInv, NEW p \in Producers, LockAllocWouldblock(p)
    PROVE  MPInv'
<1> USE DEF LockAllocWouldblock, consumerVars, mpVars
<1>1. /\ tail_threshold' \in Nat /\ tail_threshold' <= head + MemorySize
      /\ reserved_tail < tail_threshold' /\ tail < tail_threshold'
  BY LockedThresholdBound, RingBounds
<1>2. RingInv'
  <2>1. RingTypes'
    BY <1>1 DEF MPInv, RingInv, RingTypes
  <2>2. Room'
    BY <1>1 DEF MPInv, RingInv, Room
  <2> QED BY <2>1, <2>2, RingFrames DEF MPInv, RingInv
<1>3. MPTypes'
  BY DEF MPInv, MPTypes, ProducerSteps
<1>4. \A q \in Producers : ppc'[q] = ppc[q] \/ (ppc[q] \in {"alloc", "try"} /\ ppc'[q] = "idle")
  BY DEF MPInv, MPTypes
<1>5. HeldInv' /\ OrderInv' /\ LineInv'
  <2>1. \A q \in Producers :
            /\ Holding(q)' <=> Holding(q)
            /\ ppc'[q] # "idle" => ppc[q] # "idle"
            /\ ppc'[q] \in {"filled", "loaded", "counted"} =>
                   ppc[q] \in {"filled", "loaded", "counted"}
    BY <1>4 DEF Holding
  <2> QED BY <1>1, <2>1, HeldFrame
<1> QED BY <1>2, <1>3, <1>5 DEF MPInv

\* The locked section hands out the cells at reserved_tail: no published entry and no
\* held one reaches them.
LEMMA TryLockAllocEntryInv ==
    ASSUME MPInv, NEW p \in Producers, TryLockAllocEntry(p)
    PROVE  MPInv'
<1> USE DEF TryLockAllocEntry, consumerVars
<1>0. PICK b \in Nat, l \in Nat, a \in Nat : b = reserved_tail /\ l = plen[p] /\ a = allocs
  BY RingBounds DEF MPInv, MPTypes
<1> DEFINE e == GetContEntry(b)
<1>1. /\ l \in Lengths /\ AllocLen(l) \in Nat /\ AllocLen(l) >= 1 /\ ~Holding(p)
  <2>1. l \in Lengths /\ ~Holding(p)
    BY <1>0 DEF MPInv, HeldInv, Holding
  <2> QED BY <2>1, SizeOf
<1>2. /\ tail_threshold' \in Nat /\ tail_threshold' <= head + MemorySize
      /\ b + AllocLen(l) < tail_threshold'
  BY <1>0, LockedThresholdBound
<1>3. /\ mem' = [mem EXCEPT ![e] = Header(AllocLen(l), l)] /\ reserved_tail' = b + AllocLen(l)
      /\ pos' = [pos EXCEPT ![p] = b] /\ pid' = [pid EXCEPT ![p] = a + 1] /\ allocs' = a + 1
      /\ ppc' = [ppc EXCEPT ![p] = "own"] /\ plen' = plen /\ a < MaxPost
      /\ UNCHANGED <<tail, sent, start, head, head_threshold, consume_nr, cpc, rcvd, nr>>
  BY <1>0
<1> HIDE DEF TryLockAllocEntry
<1>4. /\ e \in 0 .. MemorySize - 1 /\ e \in Offsets
  <2>1. e \in 0 .. MemorySize - 1
    BY OffsetOf
  <2> QED BY <2>1, RingBounds DEF Offsets
<1>5. mem' \in [Offsets -> Cell] /\ mem'[e] = Header(AllocLen(l), l)
  <2>1. mem \in [Offsets -> Cell] /\ Header(AllocLen(l), l) \in Cell
    BY <1>1, CellTypes DEF MPInv, RingInv, RingTypes
  <2> QED BY <1>3, <1>4, <2>1
<1>6. \A o \in Offsets : \/ mem'[o] = mem[o]
                         \/ \E d \in 0 .. 1 - 1 : o = GetContEntry(b) + d
  <2>1. \A o \in Offsets : o # e => mem'[o] = mem[o]
    BY <1>3 DEF MPInv, RingInv, RingTypes
  <2>2. e = GetContEntry(b) + 0 /\ 0 \in 0 .. 1 - 1
    BY <1>4
  <2> QED BY <2>1, <2>2
<1>7. /\ \A q \in Producers : q # p => /\ ppc'[q] = ppc[q] /\ pos'[q] = pos[q] /\ pid'[q] = pid[q]
                                       /\ Holding(q)' <=> Holding(q)
      /\ ppc'[p] = "own" /\ pos'[p] = b /\ pid'[p] = a + 1 /\ Holding(p)'
  BY <1>3 DEF MPInv, MPTypes, Holding
<1>8. RingInv'
  <2>1. RingTypes'
    BY <1>2, <1>3, <1>5 DEF MPInv, RingInv, RingTypes
  <2>2. Contents'
    <3>1. tail <= b /\ b + 1 <= head + MemorySize /\ 1 \in Nat
      BY <1>0, <1>1, <1>2, RingBounds
    <3> QED BY <1>3, <1>6, <3>1, ContentsKept DEF MPInv
  <2>3. Room'
    BY <1>0, <1>1, <1>2, <1>3, RingBounds DEF MPInv, RingInv, Room
  <2> QED BY <1>3, <2>1, <2>2, <2>3, RingFrames DEF MPInv, RingInv
<1>9. MPTypes'
  BY <1>1, <1>3, SizeAssumption DEF MPInv, MPTypes, ProducerSteps
<1>10. HeldInv'
  <2> SUFFICES ASSUME NEW q \in Producers
               PROVE  /\ ppc'[q] # "idle" => plen[q] \in Lengths
                      /\ Holding(q)' =>
                             /\ tail <= pos'[q] /\ pos'[q] + AllocLen(plen[q]) <= reserved_tail'
                             /\ Len(sent) < pid'[q] /\ pid'[q] <= allocs'
                             /\ mem'[GetContEntry(pos'[q])] = Header(AllocLen(plen[q]), plen[q])
                      /\ ppc'[q] \in {"filled", "loaded", "counted"} =>
                             EntryAt(pos[q], pid[q], plen[q])' /\ q # p
    BY <1>3, <1>7 DEF HeldInv, EntryAt
  <2>1. CASE q = p
    BY <1>0, <1>1, <1>3, <1>5, <1>7, <2>1, RingBounds
  <2>2. CASE q # p /\ ~Holding(q)
    BY <1>7, <2>2 DEF MPInv, HeldInv, Holding
  <2>3. CASE q # p /\ Holding(q)
    <3>1. /\ plen[q] \in Lengths /\ pos[q] \in Nat /\ AllocLen(plen[q]) \in Nat
          /\ tail <= pos[q] /\ pos[q] + AllocLen(plen[q]) <= b /\ Len(sent) < pid[q]
          /\ pid[q] <= a /\ pid[q] \in Nat
          /\ mem[GetContEntry(pos[q])] = Header(AllocLen(plen[q]), plen[q])
      BY <1>0, <2>3, HeldPlace
    <3>2. pos[q] + AllocLen(plen[q]) <= b /\ b + 1 <= pos[q] + MemorySize /\ 1 \in Nat
      BY <1>0, <1>1, <1>2, <3>1, RingBounds
    <3>3. /\ mem'[GetContEntry(pos[q])] = mem[GetContEntry(pos[q])]
          /\ \A c \in 1 .. CalcAllocSize(plen[q]) :
                 mem'[GetContEntry(pos[q]) + c] = mem[GetContEntry(pos[q]) + c]
      BY <1>6, <3>1, <3>2, EntryKept
    <3>4. ppc[q] \in {"filled", "loaded", "counted"} => EntryAt(pos[q], pid[q], plen[q])
      BY DEF MPInv, HeldInv
    <3>5. pos[q] + AllocLen(plen[q]) <= reserved_tail' /\ pid[q] <= allocs'
      BY <1>1, <1>3, <3>1
    <3>6. ppc'[q] \in {"filled", "loaded", "counted"} => EntryAt(pos[q], pid[q], plen[q])'
      BY <1>3, <1>7, <2>3, <3>3, <3>4 DEF EntryAt
    <3> QED BY <1>7, <2>3, <3>1, <3>3, <3>5, <3>6
  <2> QED BY <2>1, <2>2, <2>3
<1>11. \A q \in Producers : Holding(q) => /\ q # p /\ pid[q] \in Nat /\ pid[q] <= a /\ pos[q] \in Nat
                                          /\ pos[q] + AllocLen(plen[q]) <= b
                                          /\ Len(sent) < pid[q] /\ Holding(q)'
  BY <1>0, <1>1, <1>7, HeldPlace
<1>12. OrderInv'
  <2> SUFFICES ASSUME NEW q \in Producers, NEW r \in Producers, Holding(q)', Holding(r)'
               PROVE  /\ pid'[q] = pid'[r] => q = r
                      /\ pid'[q] < pid'[r] => pos'[q] + AllocLen(plen[q]) <= pos'[r]
    BY <1>3 DEF OrderInv
  <2>1. CASE q # p /\ r # p
    BY <1>7, <2>1 DEF MPInv, OrderInv
  <2>2. CASE q # p /\ r = p
    BY <1>7, <1>11, <2>2
  <2>3. CASE q = p /\ r # p
    BY <1>7, <1>11, <2>3
  <2>4. CASE q = p /\ r = p
    BY <1>7, <2>4
  <2> QED BY <2>1, <2>2, <2>3, <2>4
<1>13. LineInv'
  <2>1. /\ Len(sent) \in Nat /\ Len(sent) <= a /\ tail <= b /\ tail \in Nat
        /\ (a = Len(sent) => tail = b)
    BY <1>0, RingBounds DEF MPInv, LineInv
  <2>2. ASSUME NEW n \in Len(sent) + 1 .. a + 1
        PROVE  \E q \in Producers : Holding(q)' /\ pid'[q] = n
    <3>1. CASE n = a + 1
      BY <1>7, <3>1
    <3>2. CASE n # a + 1
      <4>1. n \in Len(sent) + 1 .. allocs
        BY <1>0, <2>1, <3>2
      <4>2. PICK q \in Producers : Holding(q) /\ pid[q] = n
        BY <4>1 DEF MPInv, LineInv
      <4> QED BY <1>7, <1>11, <4>2
    <3> QED BY <3>1, <3>2
  <2>3. ASSUME NEW q \in Producers, Holding(q)'
        PROVE  /\ pid'[q] = Len(sent) + 1 => pos'[q] = tail
               /\ pid'[q] = a + 1 => pos'[q] + AllocLen(plen[q]) = reserved_tail'
    <3>1. CASE q = p
      BY <1>0, <1>3, <1>7, <2>1, <3>1
    <3>2. CASE q # p
      <4>1. Holding(q) /\ pos'[q] = pos[q] /\ pid'[q] = pid[q]
        BY <1>7, <2>3, <3>2
      <4>2. pid[q] # a + 1
        BY <1>11, <4>1
      <4> QED BY <4>1, <4>2 DEF MPInv, LineInv
    <3> QED BY <3>1, <3>2
  <2>4. ASSUME NEW q \in Producers, NEW r \in Producers, Holding(q)', Holding(r)',
               pid'[r] = pid'[q] + 1
        PROVE  pos'[r] = pos'[q] + AllocLen(plen[q])
    <3>1. CASE q # p /\ r # p
      BY <1>7, <2>4, <3>1 DEF MPInv, LineInv
    <3>2. CASE q # p /\ r = p
      <4>1. Holding(q) /\ pid[q] = allocs /\ pos'[q] = pos[q] /\ pos'[r] = reserved_tail
        BY <1>0, <1>7, <1>11, <2>4, <3>2
      <4> QED BY <4>1 DEF MPInv, LineInv
    <3>3. CASE q = p
      BY <1>7, <1>11, <2>4, <3>3
    <3> QED BY <3>1, <3>2, <3>3
  <2>5. /\ Len(sent) <= a + 1 /\ tail <= b + AllocLen(l) /\ a + 1 # Len(sent)
    BY <1>1, <2>1
  <2> QED BY <1>2, <1>3, <2>2, <2>3, <2>4, <2>5 DEF LineInv
<1> QED BY <1>8, <1>9, <1>10, <1>12, <1>13 DEF MPInv

\* The payload copy stays in the cells of the entry it is for.
LEMMA FillLockedEntryInv ==
    ASSUME MPInv, NEW p \in Producers, FillLockedEntry(p)
    PROVE  MPInv'
<1> USE DEF FillLockedEntry, consumerVars, mpVars
<1>h. Holding(p)
  BY DEF Holding
<1>0. PICK b \in Nat, n \in Nat, id \in Nat :
          b = pos[p] /\ n = CalcAllocSize(plen[p]) /\ id = pid[p]
  BY <1>h, HeldPlace
<1>m. PICK m \in Nat : m = n + 1
  BY <1>0
<1>p. PICK e \in 0 .. MemorySize - 1 : e = GetContEntry(b)
  BY <1>0, <1>h, HeldPlace
<1>1. /\ plen[p] \in Lengths /\ AllocLen(plen[p]) = n + 1 /\ n < ReserveSize
      /\ tail <= b /\ b + (n + 1) <= reserved_tail /\ b + (n + 1) < head + MemorySize
      /\ mem[e] = Header(AllocLen(plen[p]), plen[p]) /\ e \in Offsets
  BY <1>0, <1>h, <1>p, HeldPlace
<1>2. /\ mem' = [o \in Offsets |-> IF o \in e + 1 .. e + n THEN Payload(id, o - e) ELSE mem[o]]
      /\ ppc' = [ppc EXCEPT ![p] = "filled"]
      /\ UNCHANGED <<tail, tail_threshold, sent, start, head, head_threshold, consume_nr, cpc,
                     rcvd, plen, pos, pid, nr, reserved_tail, allocs>>
  BY <1>0, <1>p
<1> HIDE DEF FillLockedEntry
<1>3. mem \in [Offsets -> Cell] /\ MemorySize \in Nat /\ ReserveSize \in Nat
  BY SizeAssumption DEF MPInv, RingInv, RingTypes
<1>4. mem' \in [Offsets -> Cell]
  <2>1. ASSUME NEW o \in Offsets
        PROVE  (IF o \in e + 1 .. e + n THEN Payload(id, o - e) ELSE mem[o]) \in Cell
    <3>1. CASE o \in e + 1 .. e + n
      <4>1. o - e \in Nat
        BY <1>3, <3>1
      <4> QED BY <3>1, <4>1, CellTypes
    <3>2. CASE o \notin e + 1 .. e + n
      BY <1>3, <3>2
    <3> QED BY <3>1, <3>2
  <2> QED BY <1>2, <2>1
<1>5. ASSUME NEW o \in Offsets
      PROVE  mem'[o] = mem[o] \/ \E d \in 0 .. m - 1 : o = GetContEntry(b) + d
  <2>1. CASE o \in e + 1 .. e + n
    <3>1. o - e \in 0 .. m - 1 /\ o = e + (o - e)
      BY <1>3, <1>m, <2>1
    <3> QED BY <1>p, <3>1
  <2>2. CASE o \notin e + 1 .. e + n
    BY <1>2, <2>2
  <2> QED BY <2>1, <2>2
<1>6. mem'[e] = mem[e]
  BY <1>1, <1>2, <1>3
<1>7. ASSUME NEW c \in 1 .. n
      PROVE  mem'[e + c] = Payload(id, c)
  <2>1. e + c \in Offsets /\ e + c \in e + 1 .. e + n /\ (e + c) - e = c
    BY <1>1, <1>3 DEF Offsets
  <2> QED BY <1>2, <2>1
<1>8. /\ \A q \in Producers : q # p => ppc'[q] = ppc[q]
      /\ ppc'[p] = "filled" /\ \A q \in Producers : Holding(q)' <=> Holding(q)
  BY <1>h, <1>2 DEF MPInv, MPTypes, Holding
<1>9. RingInv'
  <2>1. RingTypes'
    BY <1>2, <1>4 DEF MPInv, RingInv, RingTypes
  <2>2. Contents'
    <3>1. b + m <= head + MemorySize /\ tail <= b
      BY <1>1, <1>m, RingBounds
    <3> QED BY <1>m, <1>2, <1>5, <3>1, ContentsKept DEF MPInv
  <2> QED BY <1>2, <2>1, <2>2, RingFrames DEF MPInv, RingInv
<1>10. MPTypes'
  BY <1>2 DEF MPInv, MPTypes, ProducerSteps
<1>11. ASSUME NEW q \in Producers, q # p, Holding(q)
       PROVE  /\ mem'[GetContEntry(pos[q])] = mem[GetContEntry(pos[q])]
              /\ \A c \in 1 .. CalcAllocSize(plen[q]) :
                     mem'[GetContEntry(pos[q]) + c] = mem[GetContEntry(pos[q]) + c]
  <2>1. /\ plen[q] \in Lengths /\ pos[q] \in Nat /\ AllocLen(plen[q]) \in Nat
        /\ tail <= pos[q] /\ pos[q] + AllocLen(plen[q]) < head + MemorySize
    BY <1>11, HeldPlace
  <2>2. pos[q] + AllocLen(plen[q]) <= b \/ b + (n + 1) <= pos[q]
    BY <1>h, <1>0, <1>1, <1>11, HeldApart
  <2>3. PICK a \in Nat, k \in Nat : a = pos[q] /\ k = AllocLen(plen[q])
    BY <2>1
  <2>4. /\ head \in Nat /\ tail \in Nat /\ MemorySize \in Nat /\ head <= tail /\ tail <= b
        /\ b + m < head + MemorySize
    BY <1>1, <1>m, RingBounds
  <2>5. \/ a + k <= b /\ b + m <= a + MemorySize
        \/ b + m <= a /\ a + k <= b + MemorySize
    <3>1. tail <= a /\ a + k < head + MemorySize /\ (a + k <= b \/ b + m <= a)
      BY <1>m, <2>1, <2>2, <2>3
    <3> QED BY <1>0, <1>m, <2>3, <2>4, <3>1
  <2> QED BY <1>0, <1>m, <1>5, <2>1, <2>3, <2>5, EntryKept
<1>12. HeldInv'
  <2> SUFFICES ASSUME NEW q \in Producers
               PROVE  /\ ppc'[q] # "idle" => plen[q] \in Lengths
                      /\ Holding(q) =>
                             mem'[GetContEntry(pos[q])] = Header(AllocLen(plen[q]), plen[q])
                      /\ ppc'[q] \in {"filled", "loaded", "counted"} =>
                             EntryAt(pos[q], pid[q], plen[q])'
    BY <1>2, <1>8 DEF MPInv, HeldInv
  <2>1. CASE q = p
    <3>1. EntryAt(pos[p], pid[p], plen[p])'
      BY <1>0, <1>p, <1>1, <1>2, <1>6, <1>7 DEF EntryAt
    <3> QED BY <1>0, <1>p, <1>1, <1>6, <2>1, <3>1
  <2>2. CASE q # p /\ ~Holding(q)
    BY <1>8, <2>2 DEF MPInv, HeldInv, Holding
  <2>3. CASE q # p /\ Holding(q)
    <3>1. ppc'[q] \in {"filled", "loaded", "counted"} => EntryAt(pos[q], pid[q], plen[q])
      BY <1>8, <2>3 DEF MPInv, HeldInv
    <3>2. ppc'[q] \in {"filled", "loaded", "counted"} => EntryAt(pos[q], pid[q], plen[q])'
      BY <1>2, <1>11, <2>3, <3>1 DEF EntryAt
    <3> QED BY <1>11, <2>3, <3>2, HeldPlace
  <2> QED BY <2>1, <2>2, <2>3
<1>13. OrderInv' /\ LineInv'
  BY <1>2, <1>8 DEF MPInv, OrderInv, LineInv
<1> QED BY <1>9, <1>10, <1>12, <1>13 DEF MPInv

\* ++produce_nr, whatever it loses, touches neither the ring nor an entry.
LEMMA ProduceNrInv ==
    ASSUME MPInv, NEW p \in Producers, LoadProduceNr(p) \/ StoreProduceNr(p),
           produce_nr \in Nat
    PROVE  MPInv' /\ produce_nr' \in Nat
<1> USE DEF LoadProduceNr, StoreProduceNr, consumerVars, mpVars
<1>1. RingInv'
  <2>1. RingTypes'
    BY DEF MPInv, RingInv, RingTypes
  <2> QED BY <2>1, RingFrames DEF MPInv, RingInv
<1>2. MPTypes' /\ produce_nr' \in Nat
  BY DEF MPInv, MPTypes, ProducerSteps
<1>3. HeldInv' /\ OrderInv' /\ LineInv'
  <2>1. \A q \in Producers :
            /\ Holding(q)' <=> Holding(q)
            /\ ppc'[q] # "idle" => ppc[q] # "idle"
            /\ ppc'[q] \in {"filled", "loaded", "counted"} =>
                   ppc[q] \in {"filled", "loaded", "counted"}
    BY DEF MPInv, MPTypes, Holding
  <2>2. LineInv => reserved_tail < tail_threshold'
    BY DEF LineInv
  <2>3. UNCHANGED <<tail, mem, sent, plen, pos, pid, reserved_tail, allocs>>
    OBVIOUS
  <2> QED BY <2>1, <2>2, <2>3, HeldFrame
<1> QED BY <1>1, <1>2, <1>3 DEF MPInv

\* The entry that is published is the first in line; the next one begins at the new tail.
LEMMA PostEntryThreadSafeInv ==
    ASSUME MPInv, NEW p \in Producers, PostEntryThreadSafe(p)
    PROVE  MPInv'
<1> USE DEF PostEntryThreadSafe, consumerVars, mpVars
<1>h. Holding(p)
  BY DEF Holding
<1>0. pos[p] = tail /\ pid[p] = Len(sent) + 1
  BY <1>h, FirstInLine
<1>p. PICK n \in Nat, l \in Lengths, t \in Nat : n = Len(sent) /\ l = plen[p] /\ t = tail
  BY <1>h, HeldPlace, RingBounds
<1>1. /\ AllocLen(l) \in Nat /\ AllocLen(l) >= 1 /\ EntryAt(tail, n + 1, l)
      /\ t + AllocLen(l) <= reserved_tail /\ n < allocs
      /\ mem[GetContEntry(tail)] = Header(AllocLen(l), l)
  <2>1. EntryAt(pos[p], pid[p], plen[p])
    BY DEF MPInv, HeldInv
  <2>2. EntryAt(tail, n + 1, l)
    BY <1>0, <1>p, <2>1
  <2>3. /\ AllocLen(l) \in Nat /\ AllocLen(l) >= 1
        /\ mem[GetContEntry(tail)] = Header(AllocLen(l), l)
    BY <1>h, <1>0, <1>p, HeldPlace
  <2>4. t + AllocLen(l) <= reserved_tail /\ Len(sent) < pid[p] /\ pid[p] <= allocs
    BY <1>h, <1>0, <1>p, HeldPlace
  <2>5. n < allocs
    BY <1>0, <1>p, <2>4, RingBounds
  <2> QED BY <2>2, <2>3, <2>4, <2>5
<1>2. /\ tail' = t + AllocLen(l) /\ sent' = Append(sent, Msg(n + 1, l))
      /\ start' = Append(start, tail) /\ ppc' = [ppc EXCEPT ![p] = "idle"]
      /\ UNCHANGED <<consumerVars, tail_threshold, mem, plen, mpVars>>
  BY <1>0, <1>p, <1>1 DEF Header
<1> HIDE DEF PostEntryThreadSafe
<1>3. tail + AllocLen(l) < tail_threshold /\ Len(sent) < MaxPost
  BY <1>p, <1>1, RingBounds
<1>4. RingInv' /\ Len(sent') = n + 1
  BY <1>p, <1>1, <1>2, <1>3, RingPost DEF MPInv
<1>5. MPTypes'
  BY <1>2 DEF MPInv, MPTypes, ProducerSteps
<1>6. /\ \A q \in Producers : q # p => ppc'[q] = ppc[q] /\ (Holding(q)' <=> Holding(q))
      /\ ppc'[p] = "idle" /\ ~Holding(p)'
  BY <1>2 DEF MPInv, MPTypes, Holding
<1>7. ASSUME NEW q \in Producers, Holding(q)'
      PROVE  /\ q # p /\ Holding(q) /\ ppc'[q] = ppc[q] /\ pid[q] \in Nat /\ pos[q] \in Nat
             /\ n + 1 < pid[q] /\ t + AllocLen(l) <= pos[q]
  <2>1. q # p /\ Holding(q) /\ ppc'[q] = ppc[q]
    BY <1>6, <1>7
  <2>2. pid[q] \in Nat /\ pos[q] \in Nat /\ n < pid[q]
    BY <1>p, <2>1, HeldPlace
  <2>3. pid[q] # pid[p]
    BY <1>h, <2>1 DEF MPInv, OrderInv
  <2>4. n + 1 < pid[q] /\ pid[p] < pid[q]
    BY <1>0, <1>p, <2>2, <2>3
  <2>5. pos[p] + AllocLen(plen[p]) <= pos[q]
    BY <1>h, <2>1, <2>4 DEF MPInv, OrderInv
  <2> QED BY <1>0, <1>p, <2>1, <2>2, <2>4, <2>5
<1>8. HeldInv'
  <2> SUFFICES ASSUME NEW q \in Producers
               PROVE  /\ ppc'[q] # "idle" => plen[q] \in Lengths
                      /\ Holding(q)' =>
                             /\ tail' <= pos[q] /\ pos[q] + AllocLen(plen[q]) <= reserved_tail
                             /\ Len(sent') < pid[q] /\ pid[q] <= allocs
                             /\ mem[GetContEntry(pos[q])] = Header(AllocLen(plen[q]), plen[q])
                      /\ ppc'[q] \in {"filled", "loaded", "counted"} =>
                             EntryAt(pos[q], pid[q], plen[q])
    BY <1>2 DEF HeldInv, EntryAt
  <2>1. CASE q = p
    BY <1>6, <2>1
  <2>2. CASE q # p
    BY <1>2, <1>4, <1>6, <1>7, <2>2 DEF MPInv, HeldInv
  <2> QED BY <2>1, <2>2
<1>9. OrderInv'
  BY <1>2, <1>7 DEF MPInv, OrderInv
<1>10. LineInv'
  <2>1. \A m \in n + 2 .. allocs : \E q \in Producers : Holding(q)' /\ pid[q] = m
    <3> TAKE m \in n + 2 .. allocs
    <3>1. m \in Len(sent) + 1 .. allocs /\ m # n + 1
      BY <1>p, RingBounds
    <3>2. PICK q \in Producers : Holding(q) /\ pid[q] = m
      BY <3>1 DEF MPInv, LineInv
    <3>3. q # p
      BY <1>0, <1>p, <3>1, <3>2
    <3> QED BY <1>6, <3>2, <3>3
  <2>2. ASSUME NEW q \in Producers, Holding(q)'
        PROVE  /\ pid[q] = n + 2 => pos[q] = tail'
               /\ pid[q] = allocs => pos[q] + AllocLen(plen[q]) = reserved_tail
    <3>1. Holding(q)
      BY <1>7, <2>2
    <3>2. pid[q] = n + 2 => pid[q] = pid[p] + 1
      BY <1>0, <1>p
    <3> QED BY <1>h, <1>0, <1>p, <1>2, <3>1, <3>2 DEF MPInv, LineInv
  <2>3. \A q, r \in Producers : Holding(q)' /\ Holding(r)' /\ pid[r] = pid[q] + 1 =>
            pos[r] = pos[q] + AllocLen(plen[q])
    BY <1>7 DEF MPInv, LineInv
  <2>4. allocs = n + 1 => tail' = reserved_tail
    <3>1. allocs = n + 1 => pid[p] = allocs
      BY <1>0, <1>p
    <3> QED BY <1>h, <1>0, <1>p, <1>2, <3>1 DEF MPInv, LineInv
  <2>5. n + 1 <= allocs /\ tail' <= reserved_tail /\ (n + 1) + 1 = n + 2
    BY <1>1, <1>2, RingBounds
  <2>6. reserved_tail < tail_threshold
    BY RingBounds
  <2> QED BY <1>2, <1>4, <2>1, <2>2, <2>3, <2>4, <2>5, <2>6 DEF LineInv
<1> QED BY <1>4, <1>5, <1>8, <1>9, <1>10 DEF MPInv

\* The consumer works on the published part of the ring only.
LEMMA MPConsumerInv ==
    ASSUME MPInv, MPConsumer
    PROVE  MPInv'
<1>1. ConsumerStep /\ UNCHANGED <<producerVars, mem, mpVars>>
  BY DEF MPConsumer, ConsumerStep, TryWaitEntry, ReadEntry, FreeCount, FreeHead
<1>2. RingInv'
  BY <1>1, RingTryWait, RingRead, RingFreeCount, RingFreeHead DEF MPInv, ConsumerStep
<1>3. MPTypes'
  BY <1>1 DEF MPInv, MPTypes, producerVars, mpVars
<1>4. HeldInv' /\ OrderInv' /\ LineInv'
  BY <1>1, HeldFrame DEF producerVars, mpVars, Holding, LineInv
<1> QED BY <1>2, <1>3, <1>4 DEF MPInv

\* Steps that leave the ring and the producers as they are.
LEMMA MPQuietInv ==
    ASSUME MPInv, UNCHANGED <<consumerVars, producerVars, mem, mpVars>>
    PROVE  MPInv'
<1> USE DEF consumerVars, producerVars, mpVars
<1>1. RingInv'
  <2>1. RingTypes'
    BY DEF MPInv, RingInv, RingTypes
  <2> QED BY <2>1, RingFrames DEF MPInv, RingInv
<1>2. MPTypes'
  BY DEF MPInv, MPTypes
<1>3. HeldInv' /\ OrderInv' /\ LineInv'
  BY HeldFrame DEF Holding, LineInv
<1> QED BY <1>1, <1>2, <1>3 DEF MPInv

\* Every step of a producer, of the consumer or of set_release_alert preserves the
\* invariant; ++produce_nr keeps produce_nr a number.
LEMMA MPInvStep ==
    ASSUME MPInv, produce_nr \in Nat, [MPNext]_mpAll
    PROVE  MPInv' /\ produce_nr' \in Nat
<1>1. CASE MPConsumer
  BY <1>1, MPConsumerInv DEF MPConsumer, ConsumerStep, TryWaitEntry, ReadEntry, FreeCount, FreeHead,
                             producerVars
<1>2. CASE (set_release_alert /\ UNCHANGED mpVars) \/ UNCHANGED mpAll
  BY <1>2, MPQuietInv DEF set_release_alert, mpAll, vars, producerVars
<1>3. ASSUME NEW p \in Producers, LockedProducer(p)
      PROVE  MPInv' /\ produce_nr' \in Nat
  <2>1. ASSUME NEW l \in Lengths, NEW mode \in {"alloc", "try"}, CallLockAlloc(p, l, mode)
        PROVE  MPInv' /\ produce_nr' \in Nat
    BY <2>1, CallLockAllocInv DEF CallLockAlloc
  <2>2. CASE TryLockAllocEntry(p)
    BY <2>2, TryLockAllocEntryInv DEF TryLockAllocEntry
  <2>3. CASE LockAllocWouldblock(p)
    BY <2>3, LockAllocWouldblockInv DEF LockAllocWouldblock
  <2>4. CASE FillLockedEntry(p)
    BY <2>4, FillLockedEntryInv DEF FillLockedEntry
  <2>5. CASE LoadProduceNr(p) \/ StoreProduceNr(p)
    BY <2>5, ProduceNrInv
  <2>6. CASE PostEntryThreadSafe(p)
    BY <2>6, PostEntryThreadSafeInv DEF PostEntryThreadSafe
  <2> QED BY <1>3, <2>1, <2>2, <2>3, <2>4, <2>5, <2>6 DEF LockedProducer, LockedProducerStep
<1> QED BY <1>1, <1>2, <1>3 DEF MPNext

-----------------------------------------------------------------------------
(* The theorems.                                                           *)

\* The inductive invariant holds for any number of producers.
THEOREM MPInvariance == MPSpec => []MPInv
<1> DEFINE I == MPInv /\ produce_nr \in Nat
<1>1. MPInit => I
  BY MPInitInv DEF MPInit
<1>2. I /\ [MPNext]_mpAll => I'
  BY MPInvStep
<1>3. I => MPInv
  OBVIOUS
<1> QED BY <1>1, <1>2, <1>3, PTL DEF MPSpec

\* HeldEntriesDisjoint for every instance: the entries LockAllocEntry has handed out
\* and nobody has posted yet share no cell, and none reaches what is published.
THEOREM HeldDisjoint == MPSpec => []HeldEntriesDisjoint
<1>1. MPInv => HeldEntriesDisjoint
  <2> SUFFICES ASSUME MPInv PROVE HeldEntriesDisjoint
    OBVIOUS
  <2>1. \A p \in Producers :
            Holding(p) => tail <= pos[p] /\ pos[p] + AllocLen(plen[p]) <= reserved_tail
    BY HeldPlace
  <2> QED BY <2>1, HeldApart DEF HeldEntriesDisjoint
<1> QED BY <1>1, MPInvariance, PTL

\* PublishedInAllocationOrder for every instance: PostEntryThreadSafe, which compares
\* addresses only, publishes entries in the order they were handed out.
THEOREM PublishedInOrder == MPSpec => []PublishedInAllocationOrder
<1>1. MPInv => PublishedInAllocationOrder
  BY DEF MPInv, RingInv, Messages, PublishedInAllocationOrder
<1> QED BY <1>1, MPInvariance, PTL

\* EntriesIntact with several producers, for every instance: no allocation or payload
\* copy of any producer touches an entry the consumer may still read.
THEOREM MPEntriesIntact == MPSpec => []EntriesIntact
<1>1. MPInv => EntriesIntact
  BY IntactRing DEF MPInv
<1> QED BY <1>1, MPInvariance, PTL

\* WalkVisitsUnread with several producers, for every instance: a walk by the stored
\* lengths meets the published entries only, never one that a producer still holds.
THEOREM MPWalkIsRight == MPSpec => []WalkVisitsUnread
<1>1. MPInv => WalkVisitsUnread
  BY WalkOfRing DEF MPInv
<1> QED BY <1>1, MPInvariance, PTL

\* ImplementsFifo with several producers, for every instance: PostEntryThreadSafe is
\* the abstract Send, ReadEntry the abstract Receive.
THEOREM MPFifoRefinement == MPSpec => ImplementsFifo
<1>1. MPInit => Queue!Init
  BY DEF MPInit, Queue!Init
<1>2. MPInv /\ [MPNext]_mpAll => [Queue!Next]_<<sent, rcvd>>
  <2> SUFFICES ASSUME MPInv, [MPNext]_mpAll
               PROVE  Queue!Next \/ UNCHANGED <<sent, rcvd>>
    OBVIOUS
  <2>1. ASSUME NEW p \in Producers, PostEntryThreadSafe(p)
        PROVE  Queue!Next
    <3>1. Holding(p) /\ GetContEntry(tail) = GetContEntry(pos[p])
      BY <2>1 DEF PostEntryThreadSafe, Holding
    <3>2. plen[p] \in Lengths /\ pid[p] \in 1 .. MaxPost
      BY <3>1, HeldPlace, RingBounds
    <3>3. Msg(pid[p], plen[p]) \in Message
      BY <3>2, MessageOf
    <3> QED BY <2>1, <3>3 DEF PostEntryThreadSafe, consumerVars, Queue!Next, Queue!Send
  <2>2. CASE ReadEntry
    BY <2>2, ReadsNext DEF MPInv, ReadEntry, producerVars, Queue!Next, Queue!Receive
  <2>3. CASE MPConsumer /\ ~ReadEntry
    BY <2>3 DEF MPConsumer, ConsumerStep, TryWaitEntry, FreeCount, FreeHead, producerVars
  <2>4. CASE set_release_alert \/ UNCHANGED mpAll
    BY <2>4 DEF set_release_alert, mpAll, vars, consumerVars, producerVars
  <2>5. ASSUME NEW p \in Producers, LockedProducer(p), ~PostEntryThreadSafe(p)
        PROVE  UNCHANGED <<sent, rcvd>>
    BY <2>5 DEF LockedProducer, LockedProducerStep, CallLockAlloc, TryLockAllocEntry,
                LockAllocWouldblock, FillLockedEntry, LoadProduceNr, StoreProduceNr, consumerVars
  <2> QED BY <2>1, <2>2, <2>3, <2>4, <2>5 DEF MPNext
<1> QED BY <1>1, <1>2, MPInvariance, PTL DEF MPSpec, ImplementsFifo, Queue!Spec
=============================================================================
