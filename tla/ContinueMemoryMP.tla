-------------------------- MODULE ContinueMemoryMP --------------------------
(***************************************************************************)
(* ContinueMemory with several producers: LockAllocEntry hands out        *)
(* entries from reserved_tail under a spin lock, PostEntryThreadSafe      *)
(* publishes them in the order of their positions by waiting for tail to  *)
(* reach its own entry.  The consumer is that of ContinueMemory, whose    *)
(* ppc and plen are functions of the producer here.                       *)
(***************************************************************************)
EXTENDS ContinueMemory

CONSTANT Producers

VARIABLES reserved_tail,
          pos,      \* per producer: position of the entry it was handed
          pid,      \* per producer: number of that entry, in allocation order
          nr,       \* per producer: its copy of produce_nr inside ++produce_nr
          allocs    \* entries handed out so far

mpVars == <<reserved_tail, pos, pid, nr, allocs>>
mpAll  == <<vars, mpVars>>

MPInit ==
    /\ head = 0 /\ head_threshold = 0 /\ consume_nr = 0
    /\ tail = 0 /\ tail_threshold = MemorySize /\ produce_nr = 0
    /\ release_alert = FALSE
    /\ mem = [o \in Offsets |-> Header(0, 0)]
    /\ ppc = [p \in Producers |-> "idle"] /\ plen = [p \in Producers |-> 0]
    /\ cpc = "idle"
    /\ sent = << >> /\ start = << >> /\ rcvd = << >>
    /\ reserved_tail = 0 /\ allocs = 0
    /\ pos = [p \in Producers |-> 0] /\ pid = [p \in Producers |-> 0]
    /\ nr = [p \in Producers |-> 0]

CallLockAlloc(p, length, mode) ==
    /\ ppc[p] = "idle" /\ allocs < MaxPost
    /\ ppc' = [ppc EXCEPT ![p] = mode]
    /\ plen' = [plen EXCEPT ![p] = length]
    /\ UNCHANGED <<consumerVars, tail, tail_threshold, produce_nr, sent, start,
                   release_alert, mem, mpVars>>

\* Mutant: the reserve area taken for more ring.
LockedTailThresholdWithReserve(p) ==
    IF reserved_tail + AllocLen(plen[p]) >= tail_threshold
    THEN head + MemorySize + ReserveSize ELSE tail_threshold

LockedTailThreshold(p) ==
    IF reserved_tail + AllocLen(plen[p]) >= tail_threshold THEN head + MemorySize
                                                           ELSE tail_threshold

\* Mutant: reserved_tail_ is left to PostEntry.
TryLockAllocEntryNoReserve(p) ==
    /\ ppc[p] \in {"alloc", "try"} /\ allocs < MaxPost
    /\ tail_threshold' = LockedTailThreshold(p)
    /\ reserved_tail + AllocLen(plen[p]) < tail_threshold'
    /\ mem' = [mem EXCEPT ![GetContEntry(reserved_tail)] =
                               Header(AllocLen(plen[p]), plen[p])]
    /\ pos' = [pos EXCEPT ![p] = reserved_tail]
    /\ pid' = [pid EXCEPT ![p] = allocs + 1]
    /\ allocs' = allocs + 1
    /\ ppc' = [ppc EXCEPT ![p] = "own"]
    /\ UNCHANGED <<consumerVars, tail, produce_nr, plen, sent, start, release_alert, nr,
                   reserved_tail>>

\* The locked section of TryLockAllocEntryImpl when there is room.  It is one
\* step: the only value in it that others write outside the lock is head, and
\* it is read once.
TryLockAllocEntry(p) ==
    /\ ppc[p] \in {"alloc", "try"} /\ allocs < MaxPost
    /\ tail_threshold' = LockedTailThreshold(p)
    /\ reserved_tail + AllocLen(plen[p]) < tail_threshold'
    /\ mem' = [mem EXCEPT ![GetContEntry(reserved_tail)] =
                               Header(AllocLen(plen[p]), plen[p])]
    /\ reserved_tail' = reserved_tail + AllocLen(plen[p])
    /\ pos' = [pos EXCEPT ![p] = reserved_tail]
    /\ pid' = [pid EXCEPT ![p] = allocs + 1]
    /\ allocs' = allocs + 1
    /\ ppc' = [ppc EXCEPT ![p] = "own"]
    /\ UNCHANGED <<consumerVars, tail, produce_nr, plen, sent, start, release_alert, nr>>

\* ... and when there is none: LockAllocEntry retries until release_alert_.
LockAllocWouldblock(p) ==
    /\ ppc[p] \in {"alloc", "try"}
    /\ tail_threshold' = LockedTailThreshold(p)
    /\ reserved_tail + AllocLen(plen[p]) >= tail_threshold'
    /\ ppc' = [ppc EXCEPT ![p] = IF @ = "try" \/ release_alert THEN "idle" ELSE @]
    /\ UNCHANGED <<consumerVars, tail, produce_nr, plen, sent, start, release_alert,
                   mem, mpVars>>

FillLockedEntry(p) ==
    LET e == GetContEntry(pos[p])
        n == CalcAllocSize(plen[p])
    IN  /\ ppc[p] = "own"
        /\ mem' = [o \in Offsets |-> IF o \in e + 1 .. e + n
                                     THEN Payload(pid[p], o - e)
                                     ELSE mem[o]]
        /\ ppc' = [ppc EXCEPT ![p] = "filled"]
        /\ UNCHANGED <<consumerVars, tail, tail_threshold, produce_nr, plen, sent,
                       start, release_alert, mpVars>>

\* PostEntryThreadSafe: ++produce_nr is a load and a store, with no lock held.
LoadProduceNr(p) ==
    /\ ppc[p] = "filled"
    /\ nr' = [nr EXCEPT ![p] = produce_nr]
    /\ ppc' = [ppc EXCEPT ![p] = "loaded"]
    /\ UNCHANGED <<consumerVars, tail, tail_threshold, produce_nr, plen, sent, start,
                   release_alert, mem, reserved_tail, pos, pid, allocs>>

StoreProduceNr(p) ==
    /\ ppc[p] = "loaded"
    /\ produce_nr' = nr[p] + 1
    /\ ppc' = [ppc EXCEPT ![p] = "counted"]
    /\ UNCHANGED <<consumerVars, tail, tail_threshold, plen, sent, start,
                   release_alert, mem, mpVars>>

\* Mutant: no wait for the entries before this one.
PostEntryNoWait(p) ==
    /\ ppc[p] = "counted"
    /\ tail' = tail + mem[GetContEntry(pos[p])].len
    /\ sent' = Append(sent, Msg(pid[p], plen[p]))
    /\ start' = Append(start, tail)
    /\ ppc' = [ppc EXCEPT ![p] = "idle"]
    /\ UNCHANGED <<consumerVars, tail_threshold, produce_nr, plen, release_alert,
                   mem, mpVars>>

\* Mutant: an offset compared with a position.
PostEntryUnwrapped(p) == GetContEntry(tail) = pos[p] /\ PostEntryNoWait(p)

\* It waits for tail to reach its entry, comparing addresses, and publishes it.
PostEntryThreadSafe(p) ==
    /\ ppc[p] = "counted"
    /\ GetContEntry(tail) = GetContEntry(pos[p])
    /\ tail' = tail + mem[GetContEntry(pos[p])].len
    /\ sent' = Append(sent, Msg(pid[p], plen[p]))
    /\ start' = Append(start, tail)
    /\ ppc' = [ppc EXCEPT ![p] = "idle"]
    /\ UNCHANGED <<consumerVars, tail_threshold, produce_nr, plen, release_alert,
                   mem, mpVars>>

LockedProducerStep(p) == \/ TryLockAllocEntry(p)
                         \/ LockAllocWouldblock(p)
                         \/ FillLockedEntry(p)
                         \/ LoadProduceNr(p)
                         \/ StoreProduceNr(p)
                         \/ PostEntryThreadSafe(p)

LockedProducer(p) ==
    \/ \E l \in Lengths, mode \in {"alloc", "try"} : CallLockAlloc(p, l, mode)
    \/ LockedProducerStep(p)

MPConsumer == ConsumerStep /\ UNCHANGED mpVars

MPNext == \/ \E p \in Producers : LockedProducer(p)
          \/ MPConsumer
          \/ set_release_alert /\ UNCHANGED mpVars

\* Every producer thread finishes the call it is in and the consumer polls for
\* ever.  (The spin lock need not be fair: a blocked allocation succeeds once
\* the competing producers run out of room or of calls.)
MPSpec == /\ MPInit /\ [][MPNext]_mpAll
          /\ \A p \in Producers : WF_mpAll(LockedProducerStep(p))
          /\ WF_mpAll(MPConsumer)

-----------------------------------------------------------------------------
Holding(p) == ppc[p] \in {"own", "filled", "loaded", "counted"}

\* The entries producers hold at the same time occupy disjoint parts of the
\* ring, all of them between what is published and what is reserved.
HeldEntriesDisjoint ==
    /\ \A p \in Producers :
          Holding(p) => tail <= pos[p] /\ pos[p] + AllocLen(plen[p]) <= reserved_tail
    /\ \A p, q \in Producers :
          p # q /\ Holding(p) /\ Holding(q) =>
              \/ pos[p] + AllocLen(plen[p]) <= pos[q]
              \/ pos[q] + AllocLen(plen[q]) <= pos[p]

\* PostEntryThreadSafe publishes entries in the order LockAllocEntry handed
\* them out, whichever producer reaches it first.
PublishedInAllocationOrder ==
    \A k \in 1 .. Len(sent) : sent[k] = Msg(k, sent[k].app_len)

\* No producer waits for ever for its turn to publish.
HeldIsPublished == \A p \in Producers : Holding(p) ~> ~Holding(p)
=============================================================================
