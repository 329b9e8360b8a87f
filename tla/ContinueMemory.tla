--------------------------- MODULE ContinueMemory ---------------------------
(***************************************************************************)
(* adk::ContinueMemory, the variable-length ring in shared memory that    *)
(* carries every message between a sharding agent and its proxies, with   *)
(* one producer and one consumer.                                         *)
(*                                                                         *)
(* head and tail are monotonic positions; the entry at position p starts  *)
(* at offset p mod MemorySize and is contiguous: an entry that begins     *)
(* near the end of the ring runs on into ReserveSize extra cells instead  *)
(* of wrapping.  The unit of position, offset and entry length is one     *)
(* 8-byte cell (kAlignedSize, the size of ContEntry and the granularity   *)
(* CalcAllocSize rounds to); application lengths are in bytes.            *)
(*                                                                         *)
(* The barrier in PostEntry and FreeEntry orders the payload accesses     *)
(* before the two updates that follow it, and leaves those two unordered: *)
(* each of the two orders is a behaviour.                                 *)
(***************************************************************************)
EXTENDS Integers, Sequences

CONSTANTS MemorySize,    \* memory_size_, in cells
          ReserveSize,   \* reserve_size_, in cells
          Lengths,       \* application lengths the producer asks for, in bytes
          MaxPost        \* bound: entries posted in a behaviour

kAlignedSize == 8

CalcAllocSize(length) == (length + (kAlignedSize - 1)) \div kAlignedSize

AllocLen(length) == 1 + CalcAllocSize(length)

\* The reserve holds the longest entry (the assert of TryAllocEntry), and an
\* entry can only ever be allocated if it is shorter than the ring.
ASSUME SizeAssumption ==
    /\ MemorySize \in Nat \ {0}
    /\ ReserveSize \in Nat
    /\ Lengths \subseteq Nat
    /\ MaxPost \in Nat
    /\ \A l \in Lengths : AllocLen(l) <= ReserveSize /\ AllocLen(l) < MemorySize

VARIABLES
    head, head_threshold, consume_nr,          \* the consumer's header fields
    tail, tail_threshold, produce_nr,          \* the producer's header fields
    release_alert,                             \* set by whoever shuts the ring
    mem,                                       \* the entry area, by cell offset
    ppc, plen,                                 \* producer: step, current app_len
    cpc,                                       \* consumer: step
    sent, start, rcvd                          \* histories: see below

(***************************************************************************)
(* sent[k] is the k-th posted message, start[k] the position it was posted *)
(* at, rcvd[k] the k-th message as the consumer read it from mem.          *)
(***************************************************************************)
consumerVars == <<head, head_threshold, consume_nr, cpc, rcvd>>
producerVars == <<tail, tail_threshold, produce_nr, ppc, plen, sent, start>>
vars == <<consumerVars, producerVars, release_alert, mem>>

Header(len, app_len) == [len |-> len, app_len |-> app_len, id |-> 0, part |-> 0]
Payload(id, part)    == [len |-> 0, app_len |-> 0, id |-> id, part |-> part]
Cell == [len : Nat, app_len : Nat, id : Nat, part : Nat]

Offsets == 0 .. MemorySize + ReserveSize - 1

GetContEntry(pos) == pos % MemorySize

\* Message id with application length length: what the producer fills in.
Msg(id, length) ==
    [app_len |-> length,
     data    |-> [c \in 1 .. CalcAllocSize(length) |-> Payload(id, c)]]

\* The message found in mem at position pos.
MsgAt(pos) ==
    LET e == GetContEntry(pos)
    IN  [app_len |-> mem[e].app_len,
         data    |-> [c \in 1 .. CalcAllocSize(mem[e].app_len) |-> mem[e + c]]]

Message == {Msg(id, l) : id \in 1 .. MaxPost, l \in 0 .. 8 * ReserveSize}

Init ==
    /\ head = 0 /\ head_threshold = 0 /\ consume_nr = 0
    /\ tail = 0 /\ tail_threshold = MemorySize /\ produce_nr = 0
    /\ release_alert = FALSE
    /\ mem = [o \in Offsets |-> Header(0, 0)]
    /\ ppc = "idle" /\ plen = 0 /\ cpc = "idle"
    /\ sent = << >> /\ start = << >> /\ rcvd = << >>

-----------------------------------------------------------------------------
(* The producer.                                                           *)

\* A call of AllocEntry (blocking) or TryAllocEntry for length bytes.
CallAlloc(length, mode) ==
    /\ ppc = "idle" /\ Len(sent) < MaxPost
    /\ ppc' = mode /\ plen' = length
    /\ UNCHANGED <<consumerVars, tail, tail_threshold, produce_nr, sent, start,
                   release_alert, mem>>

\* Mutant: the reserve area taken for more ring.
TailThresholdWithReserve ==
    IF tail + AllocLen(plen) >= tail_threshold THEN head + MemorySize + ReserveSize
                                               ELSE tail_threshold

\* Mutant: the cached threshold never refreshed.
TailThresholdStale == tail_threshold

\* The threshold TryAllocEntry compares with: the cached one while it suffices.
TailThreshold ==
    IF tail + AllocLen(plen) >= tail_threshold THEN head + MemorySize
                                               ELSE tail_threshold

\* TryAllocEntry succeeds: the entry's header is written at tail.
TryAllocEntry ==
    /\ ppc \in {"alloc", "try"}
    /\ tail_threshold' = TailThreshold
    /\ tail + AllocLen(plen) < tail_threshold'
    /\ mem' = [mem EXCEPT ![GetContEntry(tail)] = Header(AllocLen(plen), plen)]
    /\ ppc' = "own"
    /\ UNCHANGED <<consumerVars, tail, produce_nr, plen, sent, start, release_alert>>

\* TryAllocEntry returns kWouldblock.  AllocEntry then tries again, unless
\* release_alert_ is set; a plain TryAllocEntry returns to its caller.
AllocWouldblock ==
    /\ ppc \in {"alloc", "try"}
    /\ tail_threshold' = TailThreshold
    /\ tail + AllocLen(plen) >= tail_threshold'
    /\ ppc' = IF ppc = "try" \/ release_alert THEN "idle" ELSE ppc
    /\ UNCHANGED <<consumerVars, tail, produce_nr, plen, sent, start, release_alert, mem>>

\* AdjustEntryLength: the producer turns out to need fewer bytes.
AdjustEntryLength(length) ==
    /\ ppc \in {"own", "filled"} /\ length <= mem[GetContEntry(tail)].app_len
    /\ mem' = [mem EXCEPT ![GetContEntry(tail)] = Header(AllocLen(length), length)]
    /\ plen' = length
    /\ UNCHANGED <<consumerVars, tail, tail_threshold, produce_nr, ppc, sent, start,
                   release_alert>>

\* The memcpy of the payload into the entry's buffer.
FillEntry ==
    LET e == GetContEntry(tail)
        n == CalcAllocSize(plen)
    IN  /\ ppc = "own"
        /\ mem' = [o \in Offsets |-> IF o \in e + 1 .. e + n
                                     THEN Payload(Len(sent) + 1, o - e)
                                     ELSE mem[o]]
        /\ ppc' = "filled"
        /\ UNCHANGED <<consumerVars, tail, tail_threshold, produce_nr, plen, sent,
                       start, release_alert>>

\* PostEntry: ++produce_nr ...
PostCount ==
    /\ ppc \in {"filled", "tailed"}
    /\ produce_nr' = produce_nr + 1
    /\ ppc' = IF ppc = "filled" THEN "counted" ELSE "idle"
    /\ UNCHANGED <<consumerVars, tail, tail_threshold, plen, sent, start,
                   release_alert, mem>>

\* Mutant: the header cell not counted.
PostTailPayloadOnly ==
    /\ ppc \in {"filled", "counted"}
    /\ tail' = tail + CalcAllocSize(plen)
    /\ sent' = Append(sent, Msg(Len(sent) + 1, plen))
    /\ start' = Append(start, tail)
    /\ ppc' = IF ppc = "filled" THEN "tailed" ELSE "idle"
    /\ UNCHANGED <<consumerVars, tail_threshold, produce_nr, plen, release_alert, mem>>

\* ... and tail += usage_len(), which publishes the entry.
PostTail ==
    /\ ppc \in {"filled", "counted"}
    /\ tail' = tail + mem[GetContEntry(tail)].len
    /\ sent' = Append(sent, Msg(Len(sent) + 1, plen))
    /\ start' = Append(start, tail)
    /\ ppc' = IF ppc = "filled" THEN "tailed" ELSE "idle"
    /\ UNCHANGED <<consumerVars, tail_threshold, produce_nr, plen, release_alert, mem>>

-----------------------------------------------------------------------------
(* The consumer.                                                           *)

\* Mutant: the entry is counted as consumed when it is handed out.
TryWaitEntryCounts ==
    /\ cpc = "idle"
    /\ head_threshold' = IF head >= head_threshold THEN tail ELSE head_threshold
    /\ cpc' = IF head >= head_threshold' THEN "idle" ELSE "entry"
    /\ consume_nr' = IF cpc' = "entry" THEN consume_nr + 1 ELSE consume_nr
    /\ UNCHANGED <<producerVars, head, rcvd, release_alert, mem>>

\* Mutant: the cached threshold never refreshed.
TryWaitEntryStale ==
    /\ cpc = "idle"
    /\ cpc' = IF head >= head_threshold THEN "idle" ELSE "entry"
    /\ UNCHANGED <<producerVars, head, head_threshold, consume_nr, rcvd, release_alert, mem>>

\* Mutant: the threshold is one short of tail.
TryWaitEntryOneShort ==
    /\ cpc = "idle"
    /\ head_threshold' = IF head >= head_threshold THEN tail - 1 ELSE head_threshold
    /\ cpc' = IF head >= head_threshold' THEN "idle" ELSE "entry"
    /\ UNCHANGED <<producerVars, head, consume_nr, rcvd, release_alert, mem>>

\* TryWaitEntry, the step of WaitEntry's loop too: it finds an entry, or it
\* leaves the refreshed threshold behind.
TryWaitEntry ==
    /\ cpc = "idle"
    /\ head_threshold' = IF head >= head_threshold THEN tail ELSE head_threshold
    /\ cpc' = IF head >= head_threshold' THEN "idle" ELSE "entry"
    /\ UNCHANGED <<producerVars, head, consume_nr, rcvd, release_alert, mem>>

\* The application reads the entry it was handed.
ReadEntry ==
    /\ cpc = "entry"
    /\ rcvd' = Append(rcvd, MsgAt(head))
    /\ cpc' = "read"
    /\ UNCHANGED <<producerVars, head, head_threshold, consume_nr, release_alert, mem>>

\* FreeEntry: ++consume_nr ...
FreeCount ==
    /\ cpc \in {"read", "freed"}
    /\ consume_nr' = consume_nr + 1
    /\ cpc' = IF cpc = "read" THEN "counted" ELSE "idle"
    /\ UNCHANGED <<producerVars, head, head_threshold, rcvd, release_alert, mem>>

\* Mutant: the header cell not counted.
FreeHeadPayloadOnly ==
    /\ cpc \in {"read", "counted"}
    /\ head' = head + CalcAllocSize(mem[GetContEntry(head)].app_len)
    /\ cpc' = IF cpc = "read" THEN "freed" ELSE "idle"
    /\ UNCHANGED <<producerVars, head_threshold, consume_nr, rcvd, release_alert, mem>>

\* ... and head += usage_len(), which gives the cells back.
FreeHead ==
    /\ cpc \in {"read", "counted"}
    /\ head' = head + mem[GetContEntry(head)].len
    /\ cpc' = IF cpc = "read" THEN "freed" ELSE "idle"
    /\ UNCHANGED <<producerVars, head_threshold, consume_nr, rcvd, release_alert, mem>>

\* Foreach on the consumer's side: it visits the entries up to tail without
\* consuming them, and moves the cached threshold.
Foreach ==
    /\ cpc = "idle"
    /\ head_threshold' = tail
    /\ UNCHANGED <<producerVars, head, consume_nr, cpc, rcvd, release_alert, mem>>

set_release_alert ==
    /\ ~release_alert /\ release_alert' = TRUE
    /\ UNCHANGED <<consumerVars, producerVars, mem>>

-----------------------------------------------------------------------------
ProducerCall == \E l \in Lengths, mode \in {"alloc", "try"} : CallAlloc(l, mode)

ProducerStep == \/ TryAllocEntry
                \/ AllocWouldblock
                \/ FillEntry
                \/ PostCount
                \/ PostTail

Producer == \/ ProducerCall
            \/ ProducerStep
            \/ \E l \in Lengths : AdjustEntryLength(l)

ConsumerStep == TryWaitEntry \/ ReadEntry \/ FreeCount \/ FreeHead

Consumer == ConsumerStep \/ Foreach

Next == Producer \/ Consumer \/ set_release_alert

Spec == Init /\ [][Next]_vars

\* Both sides are threads that keep running: the producer finishes the call it
\* is in, the consumer polls for ever.
FairSpec == Spec /\ WF_vars(ProducerStep) /\ WF_vars(ConsumerStep)

-----------------------------------------------------------------------------
(* Properties.                                                             *)

\* Positions and counters of the ring header are unsigned, and every cell written
\* lies in the mapped area, reserve included.
TypeOK ==
    /\ head \in Nat /\ head_threshold \in Nat /\ consume_nr \in Nat
    /\ tail \in Nat /\ tail_threshold \in Nat /\ produce_nr \in Nat
    /\ release_alert \in BOOLEAN
    /\ mem \in [Offsets -> Cell]
    /\ ppc \in {"idle", "alloc", "try", "own", "filled", "counted", "tailed"}
    /\ plen \in Nat
    /\ cpc \in {"idle", "entry", "read", "counted", "freed"}
    /\ sent \in Seq(Message) /\ start \in Seq(Nat) /\ Len(start) = Len(sent)
    /\ Len(rcvd) \in Nat

\* The number of entries whose cells have been given back.
Freed == IF cpc \in {"read", "counted"} THEN Len(rcvd) - 1 ELSE Len(rcvd)

\* Every entry that is posted and not yet given back is in the ring exactly as
\* the producer filled it: no later TryAllocEntry or payload copy, in the ring
\* or in the reserve area behind it, touches a cell the consumer may read.
EntriesIntact == \A k \in Freed + 1 .. Len(sent) : MsgAt(start[k]) = sent[k]

\* The ring is a FIFO queue of messages.
Queue == INSTANCE FifoQueue

\* Whatever the interleaving of TryAllocEntry/PostEntry and
\* TryWaitEntry/FreeEntry, the consumer reads the messages that were posted,
\* in that order, each once, with the content they were posted with.
ImplementsFifo == Queue!Spec

\* What ShardingAgent::WaitConsumeComplete relies on: when the producer is
\* between calls and the two counters agree, every posted entry has been read.
ConsumeComplete == ppc = "idle" /\ produce_nr = consume_nr => rcvd = sent

\* The position Foreach's cursor has after n entries.
Cursor[n \in Nat] ==
    IF n = 0 THEN head
             ELSE Cursor[n - 1] + mem[GetContEntry(Cursor[n - 1])].len

\* A walk by the lengths stored in the ring, as Foreach does it, visits every
\* unread entry at the position it was posted at and ends exactly at tail.
WalkVisitsUnread ==
    /\ \A n \in 1 .. Len(sent) - Freed : Cursor[n - 1] = start[Freed + n]
    /\ Cursor[Len(sent) - Freed] = tail

\* AllocEntry does not block for ever while the consumer keeps polling.
AllocTerminates == ppc = "alloc" ~> ppc # "alloc"

\* Every posted entry is eventually read.
PostedIsRead == \A k \in 1 .. MaxPost : Len(sent) >= k ~> Len(rcvd) >= k
=============================================================================
