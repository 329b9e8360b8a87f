----------------------------- MODULE ShmSeqLock -----------------------------
(***************************************************************************)
(* sharding::ShmSeqLock, the lock in shared memory that the shards of an  *)
(* application take in the total order of the messages they process, and  *)
(* the calls the proxy makes on it.  Every shared access of the code is a *)
(* step of its own; processes interleave freely between them.             *)
(*                                                                         *)
(* lock_sqn = n >= 0 says that n is the last released sequence number,    *)
(* lock_sqn = -n that message n holds the lock.  A message that needs no  *)
(* lock is only unlocked; an unlock that comes early is cached in         *)
(* entries[n mod QueueSize] until lock_sqn reaches n - 1.                 *)
(***************************************************************************)
EXTENDS Integers, FiniteSets

CONSTANTS Shards,      \* the proxy processes
          QueueSize,   \* queue_size_, the number of cached unlocks
          Routes,      \* sets of shards one message may be delivered to
          MaxSqn,      \* bound: messages 1 .. MaxSqn
          MaxCalls,    \* bound: Lock/UnLock calls the application makes per message
          Window       \* messages routed and not finished span at most Window
                       \* sequence numbers

ASSUME LockAssumption ==
    /\ QueueSize \in Nat \ {0} /\ MaxSqn \in Nat /\ MaxCalls \in Nat
    /\ Window \in Nat
    /\ Routes \subseteq (SUBSET Shards)

VARIABLES
    lock_sqn, prev_lock_sqn, entries,   \* the lock in shared memory
    next,                               \* the number of the agent's next message
    rx,                                 \* per shard: messages routed to it, not finished
    pc, sqn, calls,                     \* per shard: step, current message, calls made
    expect,                             \* Lock's expect_value
    target,                             \* UnLock's raised total_seq
    curr,                               \* UnLock's lock_value / TryRelease's curr_lock
    cur_val,                            \* UnlockCache's cur_val
    ret,                                \* where the running call returns to
    unlocked                            \* history: messages UnLock was called for

lockVars  == <<lock_sqn, prev_lock_sqn, entries>>
localVars == <<expect, target, curr, cur_val, ret>>
vars == <<lockVars, next, rx, pc, sqn, calls, localVars, unlocked>>

Sqn == 1 .. MaxSqn

GetIndexEntry(n) == n % QueueSize

MaxOf(a, b) == IF a >= b THEN a ELSE b

Init ==
    /\ lock_sqn = 0 /\ prev_lock_sqn = 0
    /\ entries = [i \in 0 .. QueueSize - 1 |-> 0]
    /\ next = 1
    /\ rx = [s \in Shards |-> {}]
    /\ pc = [s \in Shards |-> "idle"]
    /\ sqn = [s \in Shards |-> 0]
    /\ calls = [s \in Shards |-> 0]
    /\ expect = [s \in Shards |-> 0]
    /\ target = [s \in Shards |-> 0]
    /\ curr = [s \in Shards |-> 0]
    /\ cur_val = [s \in Shards |-> 0]
    /\ ret = [s \in Shards |-> "idle"]
    /\ unlocked = {}

-----------------------------------------------------------------------------
(* The proxy and the application.                                          *)

\* The agent routes its next message: to one shard, or to several.
Route(to) ==
    /\ next <= MaxSqn
    /\ \A s \in Shards : \A n \in rx[s] : next < n + Window
    /\ rx' = [s \in Shards |-> IF s \in to THEN rx[s] \cup {next} ELSE rx[s]]
    /\ next' = next + 1
    /\ UNCHANGED <<lockVars, pc, sqn, calls, localVars, unlocked>>

\* The proxy takes its next message and hands it to the application.
Deliver(s, n) ==
    /\ pc[s] = "idle"
    /\ n \in rx[s] /\ \A m \in rx[s] : n <= m
    /\ sqn' = [sqn EXCEPT ![s] = n]
    /\ pc' = [pc EXCEPT ![s] = "app"]
    /\ UNCHANGED <<lockVars, next, rx, calls, localVars, unlocked>>

\* The application calls Lock for its message; again, for a second section.
CallLock(s) ==
    /\ pc[s] = "app" /\ calls[s] < MaxCalls
    /\ calls' = [calls EXCEPT ![s] = @ + 1]
    /\ expect' = [expect EXCEPT ![s] = sqn[s] - 1]
    /\ pc' = [pc EXCEPT ![s] = "lock"]
    /\ UNCHANGED <<lockVars, next, rx, sqn, target, curr, cur_val, ret, unlocked>>

\* Mutant: total_seq not raised to prev_lock_sqn_.
UnLockThenOwn(s, after) ==
    /\ target' = [target EXCEPT ![s] = sqn[s]]
    /\ ret' = [ret EXCEPT ![s] = after]
    /\ unlocked' = unlocked \cup {sqn[s]}
    /\ pc' = [pc EXCEPT ![s] = "ul_cas"]
    /\ UNCHANGED <<lockVars, next, rx, sqn, expect, curr, cur_val>>

\* The call of UnLock, up to its read of prev_lock_sqn_.
UnLockThen(s, after) ==
    /\ target' = [target EXCEPT ![s] = MaxOf(sqn[s], prev_lock_sqn)]
    /\ ret' = [ret EXCEPT ![s] = after]
    /\ unlocked' = unlocked \cup {sqn[s]}
    /\ pc' = [pc EXCEPT ![s] = "ul_cas"]
    /\ UNCHANGED <<lockVars, next, rx, sqn, expect, curr, cur_val>>

\* The application calls UnLock, at the end of its section or without one.
CallUnLock(s) ==
    /\ \/ pc[s] = "cs" /\ UNCHANGED calls
       \/ pc[s] = "app" /\ calls[s] < MaxCalls
          /\ calls' = [calls EXCEPT ![s] = @ + 1]
    /\ UnLockThen(s, "app")

\* The callback returns; PollingMessage then unlocks the message in any case.
FrameworkUnLock(s) ==
    /\ pc[s] \in {"app", "cs"}
    /\ calls' = [calls EXCEPT ![s] = 0]
    /\ UnLockThen(s, "idle")

\* The running call returns; its locals are dead and forgotten.  The message is
\* done when the framework's own UnLock is over.
Return(s) ==
    /\ pc' = [pc EXCEPT ![s] = ret[s]]
    /\ IF ret[s] = "idle" THEN /\ rx' = [rx EXCEPT ![s] = @ \ {sqn[s]}]
                               /\ sqn' = [sqn EXCEPT ![s] = 0]
                          ELSE UNCHANGED <<rx, sqn>>
    /\ target' = [target EXCEPT ![s] = 0]
    /\ curr' = [curr EXCEPT ![s] = 0]
    /\ cur_val' = [cur_val EXCEPT ![s] = 0]
    /\ ret' = [ret EXCEPT ![s] = "idle"]

Goto(s, step) ==
    /\ pc' = [pc EXCEPT ![s] = step]
    /\ UNCHANGED <<rx, sqn, target, curr, cur_val, ret>>

-----------------------------------------------------------------------------
(* Lock.                                                                   *)

\* Mutant: the sign of lock_sqn, which says that it is held, ignored.
LockAcquireHeld(s) ==
    /\ pc[s] = "lock" /\ lock_sqn \in {expect[s], -expect[s]}
    /\ lock_sqn' = -sqn[s]
    /\ pc' = [pc EXCEPT ![s] = "locked"]
    /\ UNCHANGED <<prev_lock_sqn, entries, next, rx, sqn, calls, localVars, unlocked>>

\* compare_exchange of expect_value with -total_seq, and the branches on it.
LockAcquire(s) ==
    /\ pc[s] = "lock" /\ lock_sqn = expect[s]
    /\ lock_sqn' = -sqn[s]
    /\ pc' = [pc EXCEPT ![s] = "locked"]
    /\ UNCHANGED <<prev_lock_sqn, entries, next, rx, sqn, calls, localVars, unlocked>>

\* Mutant: any released number accepted as the one to start from.
LockAgainAnyReleased(s) ==
    /\ pc[s] = "lock" /\ lock_sqn # expect[s]
    /\ lock_sqn >= 0
    /\ expect' = [expect EXCEPT ![s] = lock_sqn]
    /\ UNCHANGED <<lockVars, next, rx, pc, sqn, calls, target, curr, cur_val, ret, unlocked>>

\* A released number at or above ours: this message was unlocked before.
LockAgain(s) ==
    /\ pc[s] = "lock" /\ lock_sqn # expect[s]
    /\ lock_sqn >= sqn[s]
    /\ expect' = [expect EXCEPT ![s] = lock_sqn]
    /\ UNCHANGED <<lockVars, next, rx, pc, sqn, calls, target, curr, cur_val, ret, unlocked>>

\* Mutant: a waiting Lock only spins.
LockHelpNone(s) ==
    /\ pc[s] = "lock" /\ lock_sqn # expect[s]
    /\ lock_sqn >= 0 /\ lock_sqn < sqn[s]
    /\ UNCHANGED vars

\* A released number below our predecessor: help it on.
LockHelp(s) ==
    /\ pc[s] = "lock" /\ lock_sqn # expect[s]
    /\ lock_sqn >= 0 /\ lock_sqn < sqn[s]
    /\ curr' = [curr EXCEPT ![s] = lock_sqn]
    /\ ret' = [ret EXCEPT ![s] = "lock"]
    /\ pc' = [pc EXCEPT ![s] = "tr_read"]
    /\ UNCHANGED <<lockVars, next, rx, sqn, calls, expect, target, cur_val, unlocked>>

\* Mutant: the word read back instead of the value it replaced.
LockDoneReadsBack(s) ==
    /\ pc[s] = "locked"
    /\ prev_lock_sqn' = lock_sqn
    /\ expect' = [expect EXCEPT ![s] = 0]
    /\ pc' = [pc EXCEPT ![s] = "cs"]
    /\ UNCHANGED <<lock_sqn, entries, next, rx, sqn, calls, target, curr, cur_val, ret,
                   unlocked>>

\* The stores after the loop (curr_lock_index_ is written here and never read).
LockDone(s) ==
    /\ pc[s] = "locked"
    /\ prev_lock_sqn' = expect[s]
    /\ expect' = [expect EXCEPT ![s] = 0]
    /\ pc' = [pc EXCEPT ![s] = "cs"]
    /\ UNCHANGED <<lock_sqn, entries, next, rx, sqn, calls, target, curr, cur_val, ret,
                   unlocked>>

-----------------------------------------------------------------------------
(* UnLock and UnlockCache.                                                 *)

\* The caller holds the lock: release it, then whatever is cached behind it.
UnLockRelease(s) ==
    /\ pc[s] = "ul_cas" /\ lock_sqn = -sqn[s]
    /\ lock_sqn' = target[s]
    /\ curr' = [curr EXCEPT ![s] = target[s]]
    /\ pc' = [pc EXCEPT ![s] = "tr_read"]
    /\ UNCHANGED <<prev_lock_sqn, entries, next, rx, sqn, calls, expect, target, cur_val,
                   ret, unlocked>>

\* It does not: cache the unlock.
UnLockAhead(s) ==
    /\ pc[s] = "ul_cas" /\ lock_sqn # -sqn[s]
    /\ curr' = [curr EXCEPT ![s] = lock_sqn]
    /\ pc' = [pc EXCEPT ![s] = "uc_cas"]
    /\ UNCHANGED <<lockVars, next, rx, sqn, calls, expect, target, cur_val, ret, unlocked>>

\* UnlockCache is over: UnLock goes on to TryRelease, or returns.
CacheDone(s) ==
    IF curr[s] >= 0 /\ curr[s] < target[s] THEN Goto(s, "tr_read") ELSE Return(s)

CacheEntry(s) == entries[GetIndexEntry(target[s])]

StoreCacheEntry(s) == entries' = [entries EXCEPT ![GetIndexEntry(target[s])] = target[s]]

CacheCas(s) ==
    /\ pc[s] = "uc_cas"
    /\ \/ CacheEntry(s) = 0 /\ StoreCacheEntry(s) /\ CacheDone(s)
       \/ CacheEntry(s) # 0 /\ Goto(s, "uc_read") /\ UNCHANGED entries
    /\ UNCHANGED <<lock_sqn, prev_lock_sqn, next, calls, expect, unlocked>>

\* The slot is taken: by an older number, which ours replaces, or by one that is
\* not older, and then there is nothing to do.
CacheRead(s) ==
    /\ pc[s] = "uc_read"
    /\ \/ CacheEntry(s) = 0 /\ Goto(s, "uc_cas")
       \/ /\ CacheEntry(s) > 0 /\ CacheEntry(s) < target[s]
          /\ cur_val' = [cur_val EXCEPT ![s] = CacheEntry(s)]
          /\ pc' = [pc EXCEPT ![s] = "uc_swap"]
          /\ UNCHANGED <<rx, sqn, target, curr, ret>>
       \/ CacheEntry(s) >= target[s] /\ CacheDone(s)
    /\ UNCHANGED <<lockVars, next, calls, expect, unlocked>>

CacheSwap(s) ==
    /\ pc[s] = "uc_swap"
    /\ \/ CacheEntry(s) = cur_val[s] /\ StoreCacheEntry(s) /\ CacheDone(s)
       \/ CacheEntry(s) # cur_val[s] /\ Goto(s, "uc_cas") /\ UNCHANGED entries
    /\ UNCHANGED <<lock_sqn, prev_lock_sqn, next, calls, expect, unlocked>>

-----------------------------------------------------------------------------
(* TryRelease.                                                             *)

ReleaseRead(s) ==
    /\ pc[s] = "tr_read"
    /\ IF entries[GetIndexEntry(curr[s] + 1)] = curr[s] + 1
       THEN Goto(s, "tr_cas") ELSE Return(s)
    /\ UNCHANGED <<lockVars, next, calls, expect, unlocked>>

ReleaseCas(s) ==
    /\ pc[s] = "tr_cas"
    /\ \/ /\ lock_sqn = curr[s]
          /\ lock_sqn' = curr[s] + 1
          /\ curr' = [curr EXCEPT ![s] = @ + 1]
          /\ pc' = [pc EXCEPT ![s] = "tr_clear"]
          /\ UNCHANGED <<rx, sqn, target, cur_val, ret>>
       \/ lock_sqn # curr[s] /\ Return(s) /\ UNCHANGED lock_sqn
    /\ UNCHANGED <<prev_lock_sqn, entries, next, calls, expect, unlocked>>

\* The plain store that empties the slot, after the number was released.
ReleaseClear(s) ==
    /\ pc[s] = "tr_clear"
    /\ entries' = [entries EXCEPT ![GetIndexEntry(curr[s])] = 0]
    /\ pc' = [pc EXCEPT ![s] = "tr_read"]
    /\ UNCHANGED <<lock_sqn, prev_lock_sqn, next, rx, sqn, calls, localVars, unlocked>>

-----------------------------------------------------------------------------
LockStep(s) == LockAcquire(s) \/ LockAgain(s) \/ LockHelp(s) \/ LockDone(s)

UnLockStep(s) == UnLockRelease(s) \/ UnLockAhead(s)
                 \/ CacheCas(s) \/ CacheRead(s) \/ CacheSwap(s)

ReleaseStep(s) == ReleaseRead(s) \/ ReleaseCas(s) \/ ReleaseClear(s)

\* What a shard does by itself once it has a message: the call it is in, and
\* the end of the callback.
ShardStep(s) == \/ \E n \in Sqn : Deliver(s, n)
                \/ FrameworkUnLock(s)
                \/ LockStep(s)
                \/ UnLockStep(s)
                \/ ReleaseStep(s)

Next == \/ \E to \in Routes : Route(to)
        \/ \E s \in Shards : ShardStep(s) \/ CallLock(s) \/ CallUnLock(s)

Spec == Init /\ [][Next]_vars

\* Every shard is a process that keeps running and whose callbacks return.
\* (Route needs no fairness: a message waits only for messages routed before it.)
FairSpec == Spec /\ \A s \in Shards : WF_vars(ShardStep(s))

-----------------------------------------------------------------------------
Steps == {"idle", "app", "lock", "locked", "cs", "ul_cas", "uc_cas", "uc_read",
          "uc_swap", "tr_read", "tr_cas", "tr_clear"}

\* The fields of the lock and the local values of its functions; only lock_sqn_
\* and what is read from it may be negative.
TypeOK ==
    /\ lock_sqn \in Int /\ prev_lock_sqn \in Nat
    /\ entries \in [0 .. QueueSize - 1 -> Nat]
    /\ next \in Nat /\ rx \in [Shards -> SUBSET Sqn]
    /\ pc \in [Shards -> Steps]
    /\ sqn \in [Shards -> Nat] /\ calls \in [Shards -> Nat]
    /\ expect \in [Shards -> Nat] /\ target \in [Shards -> Nat]
    /\ curr \in [Shards -> Int] /\ cur_val \in [Shards -> Nat]
    /\ ret \in [Shards -> {"idle", "app", "lock"}]
    /\ unlocked \subseteq Sqn

InSection(s) == pc[s] = "cs"

\* Two shards are never in a section guarded by the lock at the same time
\* (WorkerThread2 of test_seq_lock.cpp aborts when it sees that).
MutualExclusion ==
    \A r, s \in Shards : InSection(r) /\ InSection(s) => r = s

\* A message enters its section only after every message before it in the
\* total order has been unlocked, by its application or by the proxy.
TotalOrder ==
    \A s \in Shards : InSection(s) => 1 .. sqn[s] - 1 \subseteq unlocked

\* The last released number: while the lock is held, the one the holder found.
Released ==
    IF lock_sqn >= 0 THEN lock_sqn
    ELSE IF \E s \in Shards : pc[s] = "locked"
         THEN expect[CHOOSE s \in Shards : pc[s] = "locked"]
         ELSE prev_lock_sqn

\* A message that was unlocked may take the lock again long after its turn; the
\* lock then goes back to the number it had reached, and never to a lower one.
ReleasedNeverBack == [][Released' >= Released]_vars

\* Messages that went to no shard, so that no UnLock will ever be called for them:
\* OnMessage drops what DoRoute gives no valid shard for.
Dropped == {n \in 1 .. next - 1 : n \notin unlocked /\ \A s \in Shards : n \notin rx[s]}

\* Messages every shard is done with that were not released, are not in the cache,
\* and share their slot with another number that was unlocked: UnlockCache replaced
\* the one by the other, or TryRelease emptied the slot for the other after this one
\* was cached in it.
Forgotten ==
    {n \in 1 .. next - 1 :
        /\ n > Released /\ entries[GetIndexEntry(n)] # n
        /\ \A s \in Shards : n \notin rx[s]
        /\ \E m \in unlocked \ {n} : GetIndexEntry(m) = GetIndexEntry(n)}

\* No Lock waits for ever, as long as the cache keeps what is put in it: the messages
\* before it that needed no lock and were unlocked out of order do not stop it.  What
\* does is a message that was dropped, or one the cache has forgotten.
LockIsGranted ==
    \A s \in Shards :
        pc[s] = "lock" ~> (pc[s] = "cs" \/ \E n \in Dropped \cup Forgotten : n < sqn[s])

\* UnLock's promise to the messages that need no lock: unlocked in any order, they
\* do not keep a later Lock waiting.  Only a message that was dropped does.
UnlockedInAnyOrder ==
    \A s \in Shards :
        pc[s] = "lock" ~> (pc[s] = "cs" \/ \E n \in Dropped : n < sqn[s])
=============================================================================
