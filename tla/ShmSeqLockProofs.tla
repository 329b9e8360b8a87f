-------------------------- MODULE ShmSeqLockProofs --------------------------
(***************************************************************************)
(* Proofs about ShmSeqLock, for every number of shards, size of the cache  *)
(* of unlocks, window and bound on messages and calls: type correctness,   *)
(* total order, and, when each message goes to one shard, mutual exclusion *)
(* and that the released number never goes back.                           *)
(***************************************************************************)
EXTENDS ShmSeqLock, TLAPS

\* No message is delivered to two shards.
SingleRoutes == \A to \in Routes : \A r, s \in to : r = s

Releasing == {"tr_read", "tr_cas", "tr_clear"}

\* What the steps of one shard rest on: it works on a message of its own, and
\* TryRelease never starts from the number of a holder.
Working == \A s \in Shards : pc[s] # "idle" => sqn[s] \in rx[s]

Numbered == next >= 1 /\ \A s \in Shards : \A n \in rx[s] : n < next

FromReleased == \A s \in Shards : pc[s] \in Releasing => curr[s] >= 0

TypeInv == TypeOK /\ Working /\ Numbered /\ FromReleased

-----------------------------------------------------------------------------
\* GetIndexEntry stays within the cache.
LEMMA IndexInRange ==
    ASSUME NEW n \in Int
    PROVE  GetIndexEntry(n) \in 0 .. QueueSize - 1
BY LockAssumption DEF GetIndexEntry

\* The lock ShmSeqLock::Create makes, and idle shards, are well-typed.
LEMMA InitTypeInv == Init => TypeInv
BY LockAssumption DEF Init, TypeInv, TypeOK, Working, Numbered, FromReleased, Releasing, Sqn, Steps

\* A call returns: the part of the invariant that Return can disturb.
LEMMA ReturnTyped ==
    ASSUME TypeInv, NEW s \in Shards, pc[s] # "idle", Return(s), UNCHANGED next
    PROVE  /\ rx' \in [Shards -> SUBSET Sqn]
           /\ pc' \in [Shards -> Steps]
           /\ sqn' \in [Shards -> Nat]
           /\ target' \in [Shards -> Nat]
           /\ curr' \in [Shards -> Int] /\ cur_val' \in [Shards -> Nat]
           /\ ret' \in [Shards -> {"idle", "app", "lock"}]
           /\ Working' /\ Numbered' /\ FromReleased'
<1> USE DEF TypeInv, TypeOK
<1>1. rx' \in [Shards -> SUBSET Sqn] /\ \A r \in Shards : rx'[r] \subseteq rx[r]
  <2>1. CASE ret[s] = "idle"
    <3>1. rx' = [rx EXCEPT ![s] = @ \ {sqn[s]}]
      BY <2>1 DEF Return
    <3> QED BY <3>1
  <2>2. CASE ret[s] # "idle"
    BY <2>2 DEF Return
  <2> QED BY <2>1, <2>2
<1>2. sqn' \in [Shards -> Nat]
  <2>1. CASE ret[s] = "idle"
    <3>1. sqn' = [sqn EXCEPT ![s] = 0]
      BY <2>1 DEF Return
    <3> QED BY <3>1
  <2>2. CASE ret[s] # "idle"
    BY <2>2 DEF Return
  <2> QED BY <2>1, <2>2
<1>3. /\ pc' \in [Shards -> Steps]
      /\ target' \in [Shards -> Nat]
      /\ curr' \in [Shards -> Int] /\ cur_val' \in [Shards -> Nat]
      /\ ret' \in [Shards -> {"idle", "app", "lock"}]
  BY DEF Return, Steps
<1>4. Working'
  <2>1. CASE ret[s] = "idle"
    <3>1. /\ rx' = [rx EXCEPT ![s] = @ \ {sqn[s]}]
          /\ sqn' = [sqn EXCEPT ![s] = 0]
          /\ pc' = [pc EXCEPT ![s] = "idle"]
      BY <2>1 DEF Return
    <3> QED BY <3>1 DEF Working
  <2>2. CASE ret[s] # "idle"
    BY <2>2 DEF Return, Working
  <2> QED BY <2>1, <2>2
<1>5. Numbered'
  BY <1>1 DEF Numbered, Sqn
<1>6. FromReleased'
  BY DEF Return, FromReleased, Releasing
<1> QED BY <1>1, <1>2, <1>3, <1>4, <1>5, <1>6

\* UnlockCache ends: UnLock goes on to TryRelease or returns.
LEMMA CacheDoneTyped ==
    ASSUME TypeInv, NEW s \in Shards, pc[s] # "idle", CacheDone(s), UNCHANGED next
    PROVE  /\ rx' \in [Shards -> SUBSET Sqn]
           /\ pc' \in [Shards -> Steps]
           /\ sqn' \in [Shards -> Nat]
           /\ target' \in [Shards -> Nat]
           /\ curr' \in [Shards -> Int] /\ cur_val' \in [Shards -> Nat]
           /\ ret' \in [Shards -> {"idle", "app", "lock"}]
           /\ Working' /\ Numbered' /\ FromReleased'
<1>1. CASE curr[s] >= 0 /\ curr[s] < target[s]
  <2>1. Goto(s, "tr_read")
    BY <1>1 DEF CacheDone
  <2> QED BY <1>1, <2>1 DEF Goto, TypeInv, TypeOK, Steps, Working, Numbered, FromReleased
<1>2. CASE ~(curr[s] >= 0 /\ curr[s] < target[s])
  <2>1. Return(s)
    BY <1>2 DEF CacheDone
  <2> QED BY <2>1, ReturnTyped
<1> QED BY <1>1, <1>2

\* Every step of a shard or of the agent preserves the typing invariant.
LEMMA TypeInvStep == ASSUME TypeInv, [Next]_vars PROVE TypeInv'
<1> USE DEF TypeInv, TypeOK
<1>1. CASE \E to \in Routes : Route(to)
  <2> PICK to \in Routes : Route(to)
    BY <1>1
  <2>1. rx' \in [Shards -> SUBSET Sqn] /\ next \in Sqn
    BY LockAssumption DEF Route, Sqn, Numbered
  <2>2. Working'
    BY DEF Route, Working
  <2>3. Numbered'
    BY DEF Route, Numbered, Sqn
  <2> QED BY <2>1, <2>2, <2>3 DEF Route, Sqn, lockVars, localVars, FromReleased
<1>2. ASSUME NEW s \in Shards, NEW n \in Sqn, Deliver(s, n)
      PROVE  TypeInv'
  BY <1>2 DEF Deliver, Sqn, lockVars, localVars, Steps, Working, Numbered, FromReleased, Releasing
<1>3. ASSUME NEW s \in Shards, CallLock(s)
      PROVE  TypeInv'
  <2>1. sqn[s] \in Sqn
    BY <1>3 DEF CallLock, Working
  <2> QED BY <1>3, <2>1 DEF CallLock, Sqn, lockVars, Steps, Working, Numbered, FromReleased, Releasing
<1>4. ASSUME NEW s \in Shards, NEW after \in {"app", "idle"}, pc[s] \in {"app", "cs"},
             calls' \in [Shards -> Nat], UnLockThen(s, after)
      PROVE  TypeInv'
  <2>1. sqn[s] \in Sqn
    BY <1>4 DEF Working
  <2> QED BY <1>4, <2>1 DEF UnLockThen, MaxOf, Sqn, lockVars, Steps, Working, Numbered,
                            FromReleased, Releasing
<1>5. ASSUME NEW s \in Shards, CallUnLock(s)
      PROVE  TypeInv'
  <2>1. pc[s] \in {"app", "cs"} /\ UnLockThen(s, "app")
    BY <1>5 DEF CallUnLock
  <2>2. calls' = calls \/ calls' = [calls EXCEPT ![s] = @ + 1]
    BY <1>5 DEF CallUnLock
  <2>3. calls' \in [Shards -> Nat]
    BY <2>2
  <2> QED BY <2>1, <2>3, <1>4
<1>6. ASSUME NEW s \in Shards, FrameworkUnLock(s)
      PROVE  TypeInv'
  <2>1. pc[s] \in {"app", "cs"} /\ calls' \in [Shards -> Nat] /\ UnLockThen(s, "idle")
    BY <1>6 DEF FrameworkUnLock
  <2> QED BY <2>1, <1>4
<1>7. ASSUME NEW s \in Shards, LockAcquire(s) \/ LockAgain(s) \/ LockHelp(s) \/ LockDone(s)
      PROVE  TypeInv'
  <2>1. CASE LockAcquire(s)
    BY <2>1 DEF LockAcquire, localVars, Steps, Working, Numbered, FromReleased, Releasing
  <2>2. CASE LockAgain(s)
    BY <2>2 DEF LockAgain, lockVars, Steps, Working, Numbered, FromReleased, Releasing
  <2>3. CASE LockHelp(s)
    BY <2>3 DEF LockHelp, lockVars, Steps, Working, Numbered, FromReleased, Releasing
  <2>4. CASE LockDone(s)
    BY <2>4 DEF LockDone, Steps, Working, Numbered, FromReleased, Releasing
  <2> QED BY <1>7, <2>1, <2>2, <2>3, <2>4
<1>8. ASSUME NEW s \in Shards, UnLockRelease(s) \/ UnLockAhead(s)
      PROVE  TypeInv'
  <2>1. CASE UnLockRelease(s)
    BY <2>1 DEF UnLockRelease, Steps, Working, Numbered, FromReleased, Releasing
  <2>2. CASE UnLockAhead(s)
    BY <2>2 DEF UnLockAhead, lockVars, Steps, Working, Numbered, FromReleased, Releasing
  <2> QED BY <1>8, <2>1, <2>2
<1>9. ASSUME NEW s \in Shards, CacheCas(s)
      PROVE  TypeInv'
  <2>1. CASE CacheEntry(s) = 0 /\ StoreCacheEntry(s) /\ CacheDone(s)
    <3>1. entries' \in [0 .. QueueSize - 1 -> Nat]
      BY <2>1 DEF StoreCacheEntry
    <3> QED BY <1>9, <2>1, <3>1, CacheDoneTyped DEF CacheCas
  <2>2. CASE Goto(s, "uc_read") /\ UNCHANGED entries
    BY <1>9, <2>2 DEF CacheCas, Goto, Steps, Working, Numbered, FromReleased, Releasing
  <2> QED BY <1>9, <2>1, <2>2 DEF CacheCas
<1>10. ASSUME NEW s \in Shards, CacheRead(s)
      PROVE  TypeInv'
  <2>1. CASE Goto(s, "uc_cas")
    BY <1>10, <2>1 DEF CacheRead, Goto, lockVars, Steps, Working, Numbered, FromReleased, Releasing
  <2>2. CASE /\ CacheEntry(s) > 0 /\ CacheEntry(s) < target[s]
             /\ cur_val' = [cur_val EXCEPT ![s] = CacheEntry(s)]
             /\ pc' = [pc EXCEPT ![s] = "uc_swap"]
             /\ UNCHANGED <<rx, sqn, target, curr, ret>>
    <3>1. CacheEntry(s) \in Nat
      BY IndexInRange DEF CacheEntry
    <3> QED BY <1>10, <2>2, <3>1 DEF CacheRead, lockVars, Steps, Working, Numbered, FromReleased,
                                           Releasing
  <2>3. CASE CacheDone(s)
    BY <1>10, <2>3, CacheDoneTyped DEF CacheRead, lockVars
  <2> QED BY <1>10, <2>1, <2>2, <2>3 DEF CacheRead
<1>11. ASSUME NEW s \in Shards, CacheSwap(s)
      PROVE  TypeInv'
  <2>1. CASE StoreCacheEntry(s) /\ CacheDone(s)
    <3>1. entries' \in [0 .. QueueSize - 1 -> Nat]
      BY <2>1 DEF StoreCacheEntry
    <3> QED BY <1>11, <2>1, <3>1, CacheDoneTyped DEF CacheSwap
  <2>2. CASE Goto(s, "uc_cas") /\ UNCHANGED entries
    BY <1>11, <2>2 DEF CacheSwap, Goto, Steps, Working, Numbered, FromReleased, Releasing
  <2> QED BY <1>11, <2>1, <2>2 DEF CacheSwap
<1>12. ASSUME NEW s \in Shards, ReleaseRead(s)
      PROVE  TypeInv'
  <2>1. CASE Goto(s, "tr_cas")
    BY <1>12, <2>1 DEF ReleaseRead, Goto, lockVars, Steps, Working, Numbered, FromReleased, Releasing
  <2>2. CASE Return(s)
    BY <1>12, <2>2, ReturnTyped DEF ReleaseRead, lockVars
  <2> QED BY <1>12, <2>1, <2>2 DEF ReleaseRead
<1>13. ASSUME NEW s \in Shards, ReleaseCas(s)
      PROVE  TypeInv'
  <2>1. CASE /\ lock_sqn' = curr[s] + 1
             /\ curr' = [curr EXCEPT ![s] = @ + 1]
             /\ pc' = [pc EXCEPT ![s] = "tr_clear"]
             /\ UNCHANGED <<rx, sqn, target, cur_val, ret>>
    BY <1>13, <2>1 DEF ReleaseCas, Steps, Working, Numbered, FromReleased, Releasing
  <2>2. CASE Return(s) /\ UNCHANGED lock_sqn
    BY <1>13, <2>2, ReturnTyped DEF ReleaseCas
  <2> QED BY <1>13, <2>1, <2>2 DEF ReleaseCas
<1>14. ASSUME NEW s \in Shards, ReleaseClear(s)
      PROVE  TypeInv'
  BY <1>14 DEF ReleaseClear, localVars, Steps, Working, Numbered, FromReleased, Releasing
<1>15. CASE UNCHANGED vars
  BY <1>15 DEF vars, lockVars, localVars, Working, Numbered, FromReleased
<1> QED
  BY <1>1, <1>2, <1>3, <1>5, <1>6, <1>7, <1>8, <1>9, <1>10, <1>11, <1>12, <1>13, <1>14, <1>15
  DEF Next, ShardStep, LockStep, UnLockStep, ReleaseStep

\* TypeOK, for every instance: in particular the lock word's companions (the
\* previous number, the cached unlocks, expect_value) are never negative, so only
\* lock_sqn_ itself ever says "held".
THEOREM TypeCorrect == Spec => []TypeOK
<1>1. TypeInv => TypeOK
  BY DEF TypeInv
<1> QED BY <1>1, InitTypeInv, TypeInvStep, PTL DEF Spec

-----------------------------------------------------------------------------
(* Total order.                                                            *)

\* Everything up to the last released number is unlocked, everything before the
\* holder too.
WordOrdered == IF lock_sqn >= 0 THEN 1 .. lock_sqn \subseteq unlocked
                                ELSE 1 .. -lock_sqn - 1 \subseteq unlocked

PrevOrdered == 1 .. prev_lock_sqn \subseteq unlocked

\* Only numbers that were unlocked are in the cache.
CacheOrdered == \A i \in 0 .. QueueSize - 1 : entries[i] # 0 => entries[i] \in unlocked

\* The same of what shard s holds in its local variables.
LocalOrdered(s) ==
    /\ pc[s] \in {"idle", "app", "lock", "locked", "cs"} => ret[s] = "idle"
    /\ pc[s] = "lock" \/ ret[s] = "lock" => expect[s] >= sqn[s] - 1
    /\ pc[s] = "locked" => 1 .. expect[s] \subseteq unlocked
    /\ pc[s] \in {"locked", "cs"} => 1 .. sqn[s] - 1 \subseteq unlocked
    /\ pc[s] \in {"ul_cas", "uc_cas", "uc_read", "uc_swap"} =>
          /\ target[s] \in unlocked
          /\ target[s] = sqn[s] \/ 1 .. target[s] \subseteq unlocked
    /\ pc[s] = "tr_cas" => curr[s] + 1 \in unlocked

OrderInv == /\ WordOrdered /\ PrevOrdered /\ CacheOrdered
            /\ \A s \in Shards : LocalOrdered(s)

\* Initially nothing is released, cached or locked.
LEMMA InitOrderInv == Init => OrderInv
BY LockAssumption DEF Init, OrderInv, WordOrdered, PrevOrdered, CacheOrdered, LocalOrdered

\* A shard that takes no step keeps its part.
LEMMA OthersOrdered ==
    ASSUME TypeInv, OrderInv, NEW s \in Shards, NEW r \in Shards, r # s,
           unlocked \subseteq unlocked',
           pc'[r] = pc[r], ret'[r] = ret[r], expect'[r] = expect[r], sqn'[r] = sqn[r],
           target'[r] = target[r], curr'[r] = curr[r]
    PROVE  LocalOrdered(r)'
BY DEF OrderInv, LocalOrdered

\* A call that returns leaves every shard's local values ordered.
LEMMA ReturnOrdered ==
    ASSUME TypeInv, OrderInv, NEW s \in Shards, pc[s] # "idle", Return(s),
           UNCHANGED <<unlocked, expect>>
    PROVE  \A r \in Shards : LocalOrdered(r)'
<1>1. LocalOrdered(s)'
  <2>1. CASE ret[s] = "idle"
    BY <2>1 DEF Return, TypeInv, TypeOK, OrderInv, LocalOrdered
  <2>2. CASE ret[s] # "idle"
    BY <2>2 DEF Return, TypeInv, TypeOK, OrderInv, LocalOrdered
  <2> QED BY <2>1, <2>2
<1>2. ASSUME NEW r \in Shards, r # s
      PROVE  LocalOrdered(r)'
  <2>1. sqn'[r] = sqn[r]
    <3>1. CASE ret[s] = "idle"
      BY <1>2, <3>1 DEF Return, TypeInv, TypeOK
    <3>2. CASE ret[s] # "idle"
      BY <3>2 DEF Return
    <3> QED BY <3>1, <3>2
  <2> QED BY <1>2, <2>1, OthersOrdered DEF Return, TypeInv, TypeOK
<1> QED BY <1>1, <1>2

\* So does the end of UnlockCache.
LEMMA CacheDoneOrdered ==
    ASSUME TypeInv, OrderInv, NEW s \in Shards, pc[s] # "idle", CacheDone(s),
           UNCHANGED <<unlocked, expect>>
    PROVE  \A r \in Shards : LocalOrdered(r)'
<1>1. CASE curr[s] >= 0 /\ curr[s] < target[s]
  <2>1. Goto(s, "tr_read")
    BY <1>1 DEF CacheDone
  <2> QED BY <2>1 DEF Goto, TypeInv, TypeOK, OrderInv, LocalOrdered
<1>2. CASE ~(curr[s] >= 0 /\ curr[s] < target[s])
  BY <1>2, ReturnOrdered DEF CacheDone
<1> QED BY <1>1, <1>2

\* No step releases, caches or locks a number past one not yet unlocked.
LEMMA OrderInvStep == ASSUME TypeInv, OrderInv, [Next]_vars PROVE OrderInv'
<1> USE DEF TypeInv, TypeOK, OrderInv, WordOrdered, PrevOrdered, CacheOrdered
<1>1. CASE \E to \in Routes : Route(to)
  BY <1>1 DEF Route, lockVars, localVars, LocalOrdered
<1>2. ASSUME NEW s \in Shards, NEW n \in Sqn, Deliver(s, n)
      PROVE  OrderInv'
  BY <1>2 DEF Deliver, lockVars, localVars, LocalOrdered
<1>3. ASSUME NEW s \in Shards, CallLock(s)
      PROVE  OrderInv'
  BY <1>3 DEF CallLock, lockVars, LocalOrdered
<1>4. ASSUME NEW s \in Shards, NEW after \in {"app", "idle"}, pc[s] \in {"app", "cs"},
             UnLockThen(s, after)
      PROVE  OrderInv'
  <2>1. sqn[s] \in Sqn /\ target'[s] \in Nat
    BY <1>4 DEF Working, UnLockThen, MaxOf
  <2>2. WordOrdered' /\ PrevOrdered' /\ CacheOrdered'
    BY <1>4 DEF UnLockThen, lockVars
  <2>3. target'[s] = sqn[s] \/ (target'[s] = prev_lock_sqn /\ prev_lock_sqn >= sqn[s])
    BY <1>4, <2>1 DEF UnLockThen, MaxOf, Sqn
  <2>4. target'[s] \in unlocked'
    <3>1. CASE target'[s] = sqn[s]
      BY <1>4, <3>1 DEF UnLockThen
    <3>2. CASE target'[s] = prev_lock_sqn /\ prev_lock_sqn >= sqn[s]
      BY <1>4, <2>1, <3>2 DEF UnLockThen, Sqn
    <3> QED BY <2>3, <3>1, <3>2
  <2>5. LocalOrdered(s)'
    BY <1>4, <2>1, <2>3, <2>4 DEF UnLockThen, LocalOrdered
  <2>6. \A r \in Shards : r # s => LocalOrdered(r)'
    BY <1>4, OthersOrdered DEF UnLockThen
  <2> QED BY <2>2, <2>5, <2>6
<1>5. ASSUME NEW s \in Shards, CallUnLock(s)
      PROVE  OrderInv'
  BY <1>4, <1>5 DEF CallUnLock
<1>6. ASSUME NEW s \in Shards, FrameworkUnLock(s)
      PROVE  OrderInv'
  BY <1>4, <1>6 DEF FrameworkUnLock
<1>7. ASSUME NEW s \in Shards, LockAcquire(s)
      PROVE  OrderInv'
  <2>1. 1 .. expect[s] \subseteq unlocked /\ expect[s] >= sqn[s] - 1
    BY <1>7 DEF LockAcquire, LocalOrdered
  <2>2. sqn[s] \in Sqn
    BY <1>7 DEF LockAcquire, Working
  <2>3. 1 .. sqn[s] - 1 \subseteq unlocked
    BY <2>1, <2>2 DEF Sqn
  <2>4. WordOrdered'
    BY <1>7, <2>2, <2>3 DEF LockAcquire, Sqn
  <2>5. LocalOrdered(s)'
    BY <1>7, <2>1, <2>3 DEF LockAcquire, LocalOrdered, localVars
  <2>6. \A r \in Shards : r # s => LocalOrdered(r)'
    BY <1>7, OthersOrdered DEF LockAcquire, localVars
  <2> QED BY <1>7, <2>4, <2>5, <2>6 DEF LockAcquire
<1>8. ASSUME NEW s \in Shards, LockAgain(s) \/ LockHelp(s) \/ LockDone(s)
      PROVE  OrderInv'
  <2>1. CASE LockAgain(s)
    BY <2>1 DEF LockAgain, lockVars, LocalOrdered
  <2>2. CASE LockHelp(s)
    BY <2>2 DEF LockHelp, lockVars, LocalOrdered
  <2>3. CASE LockDone(s)
    BY <2>3 DEF LockDone, LocalOrdered
  <2> QED BY <1>8, <2>1, <2>2, <2>3
<1>9. ASSUME NEW s \in Shards, UnLockRelease(s)
      PROVE  OrderInv'
  <2>1. sqn[s] \in Sqn
    BY <1>9 DEF UnLockRelease, Working
  <2>2. 1 .. target[s] \subseteq unlocked
    <3>1. 1 .. sqn[s] - 1 \subseteq unlocked
      BY <1>9, <2>1 DEF UnLockRelease, Sqn
    <3>2. sqn[s] = target[s] => sqn[s] \in unlocked
      BY <1>9 DEF UnLockRelease, LocalOrdered
    <3>3. target[s] = sqn[s] \/ 1 .. target[s] \subseteq unlocked
      BY <1>9 DEF UnLockRelease, LocalOrdered
    <3>4. \A i \in 1 .. sqn[s] : i = sqn[s] \/ i \in 1 .. sqn[s] - 1
      BY <2>1 DEF Sqn
    <3> QED BY <3>1, <3>2, <3>3, <3>4
  <2>3. LocalOrdered(s)'
    BY <1>9 DEF UnLockRelease, LocalOrdered
  <2>4. \A r \in Shards : r # s => LocalOrdered(r)'
    BY <1>9, OthersOrdered DEF UnLockRelease
  <2> QED BY <1>9, <2>2, <2>3, <2>4 DEF UnLockRelease
<1>10. ASSUME NEW s \in Shards, UnLockAhead(s)
      PROVE  OrderInv'
  BY <1>10 DEF UnLockAhead, lockVars, LocalOrdered
<1>11. ASSUME NEW s \in Shards, pc[s] \in {"uc_cas", "uc_swap"}, StoreCacheEntry(s),
              UNCHANGED unlocked
      PROVE  CacheOrdered'
  BY <1>11 DEF StoreCacheEntry, LocalOrdered
<1>12. ASSUME NEW s \in Shards, CacheCas(s)
      PROVE  OrderInv'
  <2>1. CASE StoreCacheEntry(s) /\ CacheDone(s)
    <3>1. CacheOrdered'
      BY <1>11, <1>12, <2>1 DEF CacheCas
    <3> QED BY <1>12, <2>1, <3>1, CacheDoneOrdered DEF CacheCas
  <2>2. CASE Goto(s, "uc_read") /\ UNCHANGED entries
    BY <1>12, <2>2 DEF CacheCas, Goto, LocalOrdered
  <2> QED BY <1>12, <2>1, <2>2 DEF CacheCas
<1>13. ASSUME NEW s \in Shards, CacheRead(s)
      PROVE  OrderInv'
  <2>1. CASE Goto(s, "uc_cas")
    BY <1>13, <2>1 DEF CacheRead, Goto, lockVars, LocalOrdered
  <2>2. CASE /\ pc' = [pc EXCEPT ![s] = "uc_swap"]
             /\ UNCHANGED <<rx, sqn, target, curr, ret>>
    BY <1>13, <2>2 DEF CacheRead, lockVars, LocalOrdered
  <2>3. CASE CacheDone(s)
    BY <1>13, <2>3, CacheDoneOrdered DEF CacheRead, lockVars
  <2> QED BY <1>13, <2>1, <2>2, <2>3 DEF CacheRead
<1>14. ASSUME NEW s \in Shards, CacheSwap(s)
      PROVE  OrderInv'
  <2>1. CASE StoreCacheEntry(s) /\ CacheDone(s)
    <3>1. CacheOrdered'
      BY <1>11, <1>14, <2>1 DEF CacheSwap
    <3> QED BY <1>14, <2>1, <3>1, CacheDoneOrdered DEF CacheSwap
  <2>2. CASE Goto(s, "uc_cas") /\ UNCHANGED entries
    BY <1>14, <2>2 DEF CacheSwap, Goto, LocalOrdered
  <2> QED BY <1>14, <2>1, <2>2 DEF CacheSwap
<1>15. ASSUME NEW s \in Shards, ReleaseRead(s)
      PROVE  OrderInv'
  <2>1. CASE entries[GetIndexEntry(curr[s] + 1)] = curr[s] + 1
    <3>1. curr[s] >= 0
      BY <1>15 DEF ReleaseRead, FromReleased, Releasing
    <3>2. curr[s] + 1 \in unlocked
      <4>1. curr[s] + 1 \in Int /\ curr[s] + 1 # 0
        BY <3>1
      <4>2. GetIndexEntry(curr[s] + 1) \in 0 .. QueueSize - 1
        BY <4>1, IndexInRange
      <4> QED BY <2>1, <4>1, <4>2
    <3>3. Goto(s, "tr_cas")
      BY <1>15, <2>1 DEF ReleaseRead
    <3> QED BY <1>15, <3>2, <3>3 DEF ReleaseRead, Goto, lockVars, LocalOrdered
  <2>2. CASE Return(s)
    BY <1>15, <2>2, ReturnOrdered DEF ReleaseRead, lockVars
  <2> QED BY <1>15, <2>1, <2>2 DEF ReleaseRead
<1>16. ASSUME NEW s \in Shards, ReleaseCas(s)
      PROVE  OrderInv'
  <2>1. CASE /\ lock_sqn = curr[s]
             /\ lock_sqn' = curr[s] + 1
             /\ curr' = [curr EXCEPT ![s] = @ + 1]
             /\ pc' = [pc EXCEPT ![s] = "tr_clear"]
             /\ UNCHANGED <<rx, sqn, target, cur_val, ret>>
    <3>1. curr[s] >= 0 /\ curr[s] + 1 \in unlocked
      BY <1>16 DEF ReleaseCas, FromReleased, Releasing, LocalOrdered
    <3>2. 1 .. curr[s] + 1 \subseteq unlocked
      BY <2>1, <3>1
    <3>3. LocalOrdered(s)'
      BY <1>16, <2>1 DEF ReleaseCas, LocalOrdered
    <3>4. \A r \in Shards : r # s => LocalOrdered(r)'
      BY <1>16, <2>1, OthersOrdered DEF ReleaseCas
    <3> QED BY <1>16, <2>1, <3>1, <3>2, <3>3, <3>4 DEF ReleaseCas
  <2>2. CASE Return(s) /\ UNCHANGED lock_sqn
    BY <1>16, <2>2, ReturnOrdered DEF ReleaseCas
  <2> QED BY <1>16, <2>1, <2>2 DEF ReleaseCas
<1>17. ASSUME NEW s \in Shards, ReleaseClear(s)
      PROVE  OrderInv'
  BY <1>17 DEF ReleaseClear, localVars, LocalOrdered
<1>18. CASE UNCHANGED vars
  BY <1>18 DEF vars, lockVars, localVars, LocalOrdered
<1> QED
  BY <1>1, <1>2, <1>3, <1>5, <1>6, <1>7, <1>8, <1>9, <1>10, <1>12, <1>13, <1>14, <1>15,
     <1>16, <1>17, <1>18
  DEF Next, ShardStep, LockStep, UnLockStep, ReleaseStep

\* TotalOrder, whatever the routes, the window and the size of the cache: even
\* when the cache loses unlocks, a Lock is never granted before every earlier
\* message has been unlocked.
THEOREM TotalOrderHolds == Spec => []TotalOrder
<1>1. TypeInv /\ OrderInv => TotalOrder
  BY DEF OrderInv, LocalOrdered, TotalOrder, InSection
<1> QED BY <1>1, InitTypeInv, TypeInvStep, InitOrderInv, OrderInvStep, PTL DEF Spec

-----------------------------------------------------------------------------
(* Mutual exclusion.                                                       *)

OneShardEach == \A r, s \in Shards : \A n \in rx[r] : n \in rx[s] => r = s

HolderInWord == \A s \in Shards : pc[s] \in {"locked", "cs"} => lock_sqn = -sqn[s]

\* A holder on its way out releases at least the number it found.
ReleasesEnough ==
    \A s \in Shards : pc[s] = "ul_cas" /\ lock_sqn = -sqn[s] => target[s] >= prev_lock_sqn

MutexInv == OneShardEach /\ HolderInWord /\ ReleasesEnough

\* Initially nobody holds the lock.
LEMMA InitMutexInv == Init => MutexInv
BY DEF Init, MutexInv, OneShardEach, HolderInWord, ReleasesEnough

\* Two shards at work have different numbers.
LEMMA DifferentNumbers ==
    ASSUME TypeInv, MutexInv, NEW r \in Shards, NEW s \in Shards, r # s,
           pc[r] # "idle", pc[s] # "idle"
    PROVE  sqn[r] # sqn[s] /\ sqn[r] \in Nat \ {0} /\ sqn[s] \in Nat \ {0}
BY DEF TypeInv, TypeOK, Working, Sqn, MutexInv, OneShardEach

\* Two shards at work would write different words -n into lock_sqn_.
LEMMA OtherWords ==
    ASSUME TypeInv, MutexInv, NEW s \in Shards, pc[s] # "idle"
    PROVE  \A r \in Shards \ {s} : pc[r] # "idle" => -sqn[s] # -sqn[r]
<1> SUFFICES ASSUME NEW r \in Shards \ {s}, pc[r] # "idle", -sqn[s] = -sqn[r]
             PROVE  FALSE
  OBVIOUS
<1>1. sqn[r] # sqn[s] /\ sqn[r] \in Nat \ {0} /\ sqn[s] \in Nat \ {0}
  BY DifferentNumbers
<1> QED BY <1>1

\* A step that leaves the lock word and the previous number alone, and takes no
\* shard into a section or to the start of UnLock.
LEMMA LocalMutex ==
    ASSUME TypeInv, MutexInv, UNCHANGED <<lock_sqn, prev_lock_sqn>>,
           \A r \in Shards : rx'[r] \subseteq rx[r],
           NEW s \in Shards, pc'[s] \notin {"locked", "cs", "ul_cas"},
           \A r \in Shards \ {s} : /\ pc'[r] = pc[r] /\ sqn'[r] = sqn[r]
                                   /\ target'[r] = target[r]
    PROVE  MutexInv'
BY DEF MutexInv, OneShardEach, HolderInWord, ReleasesEnough

\* A call that returns gives nobody the lock.
LEMMA ReturnMutex ==
    ASSUME TypeInv, MutexInv, NEW s \in Shards, Return(s),
           UNCHANGED <<lock_sqn, prev_lock_sqn>>
    PROVE  MutexInv'
<1> USE DEF TypeInv, TypeOK
<1>1. pc'[s] \notin {"locked", "cs", "ul_cas"}
  BY DEF Return
<1>2. \A r \in Shards \ {s} : pc'[r] = pc[r] /\ target'[r] = target[r]
  BY DEF Return
<1>3. CASE ret[s] = "idle"
  <2>1. rx' = [rx EXCEPT ![s] = @ \ {sqn[s]}] /\ sqn' = [sqn EXCEPT ![s] = 0]
    BY <1>3 DEF Return
  <2>2. \A r \in Shards : rx'[r] \subseteq rx[r]
    BY <2>1
  <2>3. \A r \in Shards \ {s} : sqn'[r] = sqn[r]
    BY <2>1
  <2> QED BY <1>1, <1>2, <2>2, <2>3, LocalMutex
<1>4. CASE ret[s] # "idle"
  <2>1. rx' = rx /\ sqn' = sqn
    BY <1>4 DEF Return
  <2> QED BY <1>1, <1>2, <2>1, LocalMutex
<1> QED BY <1>3, <1>4

\* Neither does a step that only moves on inside UnLock or TryRelease.
LEMMA GotoMutex ==
    ASSUME TypeInv, MutexInv, NEW s \in Shards, NEW step, Goto(s, step),
           step \notin {"locked", "cs", "ul_cas"}, UNCHANGED <<lock_sqn, prev_lock_sqn>>
    PROVE  MutexInv'
BY LocalMutex DEF Goto, TypeInv, TypeOK

\* With every message routed to one shard, a step lets a shard into its section only
\* by putting its own number into lock_sqn_, and only its own UnLock takes it out.
LEMMA MutexInvStep ==
    ASSUME SingleRoutes, TypeInv, MutexInv, [Next]_vars
    PROVE  MutexInv'
<1> USE DEF TypeInv, TypeOK
<1>1. ASSUME NEW to \in Routes, Route(to)
      PROVE  MutexInv'
  <2>1. OneShardEach'
    <3> SUFFICES ASSUME NEW r \in Shards, NEW s \in Shards, NEW n \in rx'[r], n \in rx'[s]
                 PROVE  r = s
      BY DEF OneShardEach
    <3>1. CASE n = next
      <4>1. next \notin rx[r] /\ next \notin rx[s]
        BY DEF Numbered
      <4>2. r \in to /\ s \in to
        BY <1>1, <3>1, <4>1 DEF Route
      <4> QED BY <4>2 DEF SingleRoutes
    <3>2. CASE n # next
      BY <1>1, <3>2 DEF Route, MutexInv, OneShardEach
    <3> QED BY <3>1, <3>2
  <2> QED BY <1>1, <2>1 DEF Route, lockVars, localVars, MutexInv, HolderInWord, ReleasesEnough
<1>2. ASSUME NEW s \in Shards, NEW n \in Sqn, Deliver(s, n)
      PROVE  MutexInv'
  BY <1>2, LocalMutex DEF Deliver, lockVars, localVars
<1>3. ASSUME NEW s \in Shards, CallLock(s)
      PROVE  MutexInv'
  BY <1>3, LocalMutex DEF CallLock, lockVars
<1>4. ASSUME NEW s \in Shards, NEW after, UnLockThen(s, after), pc[s] \in {"app", "cs"}
      PROVE  MutexInv'
  BY <1>4 DEF UnLockThen, lockVars, MaxOf, MutexInv, OneShardEach, HolderInWord, ReleasesEnough
<1>5. ASSUME NEW s \in Shards, CallUnLock(s) \/ FrameworkUnLock(s)
      PROVE  MutexInv'
  BY <1>4, <1>5 DEF CallUnLock, FrameworkUnLock
<1>6. ASSUME NEW s \in Shards, LockAcquire(s)
      PROVE  MutexInv'
  <2>1. \A r \in Shards : pc[r] # "idle" => lock_sqn # -sqn[r]
    BY <1>6 DEF LockAcquire, Working, Sqn
  <2>2. \A r \in Shards \ {s} : pc[r] # "idle" => -sqn[s] # -sqn[r]
    BY <1>6, OtherWords DEF LockAcquire
  <2> QED BY <1>6, <2>1, <2>2 DEF LockAcquire, localVars, MutexInv, OneShardEach,
                                  HolderInWord, ReleasesEnough
<1>7. ASSUME NEW s \in Shards, LockAgain(s) \/ LockHelp(s)
      PROVE  MutexInv'
  BY <1>7, LocalMutex DEF LockAgain, LockHelp, lockVars
<1>8. ASSUME NEW s \in Shards, LockDone(s)
      PROVE  MutexInv'
  <2>1. lock_sqn = -sqn[s]
    BY <1>8 DEF LockDone, MutexInv, HolderInWord
  <2>2. \A r \in Shards \ {s} : pc[r] # "idle" => lock_sqn # -sqn[r]
    BY <1>8, <2>1, OtherWords DEF LockDone
  <2> QED BY <1>8, <2>1, <2>2 DEF LockDone, MutexInv, OneShardEach, HolderInWord, ReleasesEnough
<1>9. ASSUME NEW s \in Shards, UnLockRelease(s)
      PROVE  MutexInv'
  <2>1. \A r \in Shards \ {s} : pc[r] # "idle" => lock_sqn # -sqn[r]
    BY <1>9, OtherWords DEF UnLockRelease
  <2>2. \A r \in Shards : pc[r] # "idle" => lock_sqn' # -sqn[r]
    BY <1>9 DEF UnLockRelease, Working, Sqn
  <2> QED BY <1>9, <2>1, <2>2 DEF UnLockRelease, MutexInv, OneShardEach, HolderInWord,
                                  ReleasesEnough
<1>10. ASSUME NEW s \in Shards, UnLockAhead(s)
      PROVE  MutexInv'
  BY <1>10, LocalMutex DEF UnLockAhead, lockVars
<1>11. ASSUME NEW s \in Shards, CacheDone(s), UNCHANGED <<lock_sqn, prev_lock_sqn>>
      PROVE  MutexInv'
  BY <1>11, ReturnMutex, GotoMutex DEF CacheDone
<1>12. ASSUME NEW s \in Shards, CacheCas(s)
      PROVE  MutexInv'
  BY <1>11, <1>12, GotoMutex DEF CacheCas
<1>13. ASSUME NEW s \in Shards, CacheRead(s)
      PROVE  MutexInv'
  <2>1. CASE /\ pc' = [pc EXCEPT ![s] = "uc_swap"]
             /\ UNCHANGED <<rx, sqn, target, curr, ret>>
    BY <1>13, <2>1, LocalMutex DEF CacheRead, lockVars
  <2> QED BY <1>11, <1>13, <2>1, GotoMutex DEF CacheRead, lockVars
<1>14. ASSUME NEW s \in Shards, CacheSwap(s)
      PROVE  MutexInv'
  BY <1>11, <1>14, GotoMutex DEF CacheSwap
<1>15. ASSUME NEW s \in Shards, ReleaseRead(s)
      PROVE  MutexInv'
  BY <1>15, GotoMutex, ReturnMutex DEF ReleaseRead, lockVars
<1>16. ASSUME NEW s \in Shards, ReleaseCas(s)
      PROVE  MutexInv'
  <2>1. CASE /\ lock_sqn = curr[s]
             /\ lock_sqn' = curr[s] + 1
             /\ curr' = [curr EXCEPT ![s] = @ + 1]
             /\ pc' = [pc EXCEPT ![s] = "tr_clear"]
             /\ UNCHANGED <<rx, sqn, target, cur_val, ret>>
    <3>1. curr[s] >= 0
      BY <1>16 DEF ReleaseCas, FromReleased, Releasing
    <3>2. \A r \in Shards : pc[r] # "idle" => lock_sqn # -sqn[r] /\ lock_sqn' # -sqn[r]
      BY <2>1, <3>1 DEF Working, Sqn
    <3> QED BY <1>16, <2>1, <3>2 DEF ReleaseCas, MutexInv, OneShardEach, HolderInWord,
                                     ReleasesEnough
  <2> QED BY <1>16, <2>1, ReturnMutex DEF ReleaseCas
<1>17. ASSUME NEW s \in Shards, ReleaseClear(s)
      PROVE  MutexInv'
  BY <1>17, LocalMutex DEF ReleaseClear, localVars
<1>18. CASE UNCHANGED vars
  BY <1>18 DEF vars, lockVars, localVars, MutexInv, OneShardEach, HolderInWord, ReleasesEnough
<1> QED
  BY <1>1, <1>2, <1>3, <1>5, <1>6, <1>7, <1>8, <1>9, <1>10, <1>12, <1>13, <1>14, <1>15,
     <1>16, <1>17, <1>18
  DEF Next, ShardStep, LockStep, UnLockStep, ReleaseStep

\* MutualExclusion, when no message is delivered to two shards: only the shard
\* whose number is in the lock word is between Lock and UnLock.  (Without that
\* condition it fails: a second UnLock of the same number frees the lock.)
THEOREM MutualExclusionHolds == SingleRoutes => (Spec => []MutualExclusion)
<1> SUFFICES ASSUME SingleRoutes PROVE Spec => []MutualExclusion
  OBVIOUS
<1>1. TypeInv /\ MutexInv => MutualExclusion
  <2> SUFFICES ASSUME TypeInv, MutexInv, NEW r \in Shards, NEW s \in Shards,
                      pc[r] = "cs", pc[s] = "cs", r # s
               PROVE  FALSE
    BY DEF MutualExclusion, InSection
  <2>1. -sqn[r] = -sqn[s]
    BY DEF MutexInv, HolderInWord
  <2> QED BY <2>1, DifferentNumbers
<1> QED BY <1>1, InitTypeInv, TypeInvStep, InitMutexInv, MutexInvStep, PTL DEF Spec

-----------------------------------------------------------------------------
(* The released number never goes back.                                    *)

\* What Released is while some shard is between its CAS and the stores after it.
LockedReleased ==
    \A s \in Shards : pc[s] = "locked" => lock_sqn < 0 /\ Released = expect[s]

\* Released is the value the holder found, in the current state ...
LEMMA ReleasedOfLocked == TypeInv /\ MutexInv => LockedReleased
<1> SUFFICES ASSUME TypeInv, MutexInv, NEW s \in Shards, pc[s] = "locked"
             PROVE  lock_sqn < 0 /\ Released = expect[s]
  BY DEF LockedReleased
<1>1. lock_sqn = -sqn[s] /\ sqn[s] \in Sqn
  BY DEF MutexInv, HolderInWord, TypeInv, TypeOK, Working
<1>2. lock_sqn < 0
  BY <1>1 DEF Sqn
<1>3. \A r \in Shards : pc[r] = "locked" => r = s
  BY <1>1, OtherWords DEF MutexInv, HolderInWord
<1>4. (CHOOSE r \in Shards : pc[r] = "locked") = s
  BY <1>3
<1>5. ~(lock_sqn >= 0)
  BY <1>2 DEF TypeInv, TypeOK
<1> QED BY <1>2, <1>4, <1>5 DEF Released

\* ... and in the next one.
LEMMA ReleasedOfLockedNext == TypeInv' /\ MutexInv' => LockedReleased'
BY ReleasedOfLocked, PTL

\* A step that leaves the lock word, the previous number and the shards in that
\* place alone leaves Released alone.
LEMMA ReleasedUnchanged ==
    ASSUME TypeInv, MutexInv, TypeInv', MutexInv', UNCHANGED <<lock_sqn, prev_lock_sqn>>,
           \A r \in Shards : pc'[r] = "locked" <=> pc[r] = "locked",
           \A r \in Shards : pc[r] = "locked" => expect'[r] = expect[r]
    PROVE  Released' >= Released
<1>1. CASE \E s \in Shards : pc[s] = "locked"
  <2>1. PICK s \in Shards : pc[s] = "locked"
    BY <1>1
  <2>2. Released = expect[s]
    BY <2>1, ReleasedOfLocked DEF LockedReleased
  <2>3. pc'[s] = "locked" /\ expect'[s] = expect[s]
    BY <2>1
  <2>4. Released' = expect'[s]
    BY <2>3, ReleasedOfLockedNext DEF LockedReleased
  <2>5. expect[s] \in Nat
    BY DEF TypeInv, TypeOK
  <2> QED BY <2>2, <2>3, <2>4, <2>5
<1>2. CASE ~ \E s \in Shards : pc[s] = "locked"
  <2>1. Released = (IF lock_sqn >= 0 THEN lock_sqn ELSE prev_lock_sqn)
    BY <1>2 DEF Released
  <2>2. Released' = (IF lock_sqn >= 0 THEN lock_sqn ELSE prev_lock_sqn)
    BY <1>2 DEF Released
  <2> QED BY <2>1, <2>2 DEF TypeInv, TypeOK
<1> QED BY <1>1, <1>2

\* A call that returns releases nothing.
LEMMA ReturnReleased ==
    ASSUME TypeInv, MutexInv, TypeInv', MutexInv', NEW s \in Shards, Return(s),
           pc[s] # "locked", UNCHANGED <<lock_sqn, prev_lock_sqn, expect>>
    PROVE  Released' >= Released
<1>1. \A r \in Shards : pc'[r] = "locked" <=> pc[r] = "locked"
  BY DEF Return, TypeInv, TypeOK
<1> QED BY <1>1, ReleasedUnchanged

\* Neither does a step that only moves on inside a call.
LEMMA GotoReleased ==
    ASSUME TypeInv, MutexInv, TypeInv', MutexInv', NEW s \in Shards, NEW step,
           Goto(s, step), step # "locked", pc[s] # "locked",
           UNCHANGED <<lock_sqn, prev_lock_sqn, expect>>
    PROVE  Released' >= Released
<1>1. \A r \in Shards : pc'[r] = "locked" <=> pc[r] = "locked"
  BY DEF Goto, TypeInv, TypeOK
<1> QED BY <1>1, ReleasedUnchanged

\* No step takes the last released number back.
LEMMA ReleasedStep ==
    ASSUME TypeInv, MutexInv, TypeInv', MutexInv', [Next]_vars
    PROVE  Released' >= Released
<1> USE DEF TypeInv, TypeOK
<1>1. ASSUME NEW to \in Routes, Route(to)
      PROVE  Released' >= Released
  BY <1>1, ReleasedUnchanged DEF Route, lockVars, localVars
<1>2. ASSUME NEW s \in Shards, NEW n \in Sqn, Deliver(s, n)
      PROVE  Released' >= Released
  BY <1>2, ReleasedUnchanged DEF Deliver, lockVars, localVars
<1>3. ASSUME NEW s \in Shards, CallLock(s)
      PROVE  Released' >= Released
  BY <1>3, ReleasedUnchanged DEF CallLock, lockVars
<1>4. ASSUME NEW s \in Shards, CallUnLock(s) \/ FrameworkUnLock(s)
      PROVE  Released' >= Released
  <2>1. /\ pc[s] \in {"app", "cs"} /\ pc' = [pc EXCEPT ![s] = "ul_cas"]
        /\ UNCHANGED <<lock_sqn, prev_lock_sqn, expect>>
    BY <1>4 DEF CallUnLock, FrameworkUnLock, UnLockThen, lockVars
  <2> QED BY <2>1, ReleasedUnchanged
<1>5. ASSUME NEW s \in Shards, LockAcquire(s)
      PROVE  Released' >= Released
  <2>1. Released = expect[s]
    BY <1>5 DEF LockAcquire, Released
  <2>2. pc'[s] = "locked" /\ expect'[s] = expect[s]
    BY <1>5 DEF LockAcquire, localVars
  <2>3. Released' = expect'[s]
    BY <2>2, ReleasedOfLockedNext DEF LockedReleased
  <2> QED BY <2>1, <2>2, <2>3
<1>6. ASSUME NEW s \in Shards, LockAgain(s) \/ LockHelp(s)
      PROVE  Released' >= Released
  BY <1>6, ReleasedUnchanged DEF LockAgain, LockHelp, lockVars
<1>7. ASSUME NEW s \in Shards, LockDone(s)
      PROVE  Released' >= Released
  <2>1. lock_sqn < 0 /\ Released = expect[s]
    BY <1>7, ReleasedOfLocked DEF LockDone, LockedReleased
  <2>2. lock_sqn = -sqn[s]
    BY <1>7 DEF LockDone, MutexInv, HolderInWord
  <2>3. \A r \in Shards \ {s} : pc[r] # "locked"
    BY <1>7, <2>2, OtherWords DEF LockDone, MutexInv, HolderInWord
  <2>4. \A r \in Shards : pc'[r] # "locked"
    BY <1>7, <2>3 DEF LockDone
  <2>5. Released' = prev_lock_sqn'
    BY <1>7, <2>1, <2>4 DEF LockDone, Released
  <2> QED BY <1>7, <2>1, <2>5 DEF LockDone
<1>8. ASSUME NEW s \in Shards, UnLockRelease(s)
      PROVE  Released' >= Released
  <2>1. lock_sqn = -sqn[s] /\ pc[s] = "ul_cas" /\ lock_sqn' = target[s]
    BY <1>8 DEF UnLockRelease
  <2>2. \A r \in Shards : pc[r] # "locked"
    BY <2>1, OtherWords DEF MutexInv, HolderInWord
  <2>3. lock_sqn < 0
    <3>1. sqn[s] \in Sqn
      BY <2>1 DEF Working
    <3> QED BY <2>1, <3>1 DEF Sqn
  <2>4. Released = prev_lock_sqn
    BY <2>2, <2>3 DEF Released
  <2>5. target[s] >= prev_lock_sqn /\ target[s] \in Nat
    BY <2>1 DEF MutexInv, ReleasesEnough
  <2>6. Released' = target[s]
    BY <2>1, <2>5 DEF Released
  <2> QED BY <2>4, <2>5, <2>6
<1>9. ASSUME NEW s \in Shards, UnLockAhead(s)
      PROVE  Released' >= Released
  BY <1>9, ReleasedUnchanged DEF UnLockAhead, lockVars
<1>10. ASSUME NEW s \in Shards, pc[s] \in {"uc_cas", "uc_read", "uc_swap"}, CacheDone(s),
              UNCHANGED <<lock_sqn, prev_lock_sqn, expect>>
      PROVE  Released' >= Released
  BY <1>10, ReturnReleased, GotoReleased DEF CacheDone
<1>11. ASSUME NEW s \in Shards, CacheCas(s) \/ CacheSwap(s)
      PROVE  Released' >= Released
  BY <1>10, <1>11, GotoReleased DEF CacheCas, CacheSwap
<1>12. ASSUME NEW s \in Shards, CacheRead(s)
      PROVE  Released' >= Released
  <2>1. CASE pc' = [pc EXCEPT ![s] = "uc_swap"]
    BY <1>12, <2>1, ReleasedUnchanged DEF CacheRead, lockVars
  <2> QED BY <1>10, <1>12, <2>1, GotoReleased DEF CacheRead, lockVars
<1>13. ASSUME NEW s \in Shards, ReleaseRead(s)
      PROVE  Released' >= Released
  BY <1>13, GotoReleased, ReturnReleased DEF ReleaseRead, lockVars
<1>14. ASSUME NEW s \in Shards, ReleaseCas(s)
      PROVE  Released' >= Released
  <2>1. CASE lock_sqn = curr[s] /\ lock_sqn' = curr[s] + 1
    <3>1. curr[s] >= 0
      BY <1>14 DEF ReleaseCas, FromReleased, Releasing
    <3>2. Released = curr[s] /\ Released' = curr[s] + 1
      BY <2>1, <3>1 DEF Released
    <3> QED BY <3>2
  <2> QED BY <1>14, <2>1, ReturnReleased DEF ReleaseCas
<1>15. ASSUME NEW s \in Shards, ReleaseClear(s)
      PROVE  Released' >= Released
  BY <1>15, ReleasedUnchanged DEF ReleaseClear, localVars
<1>16. CASE UNCHANGED vars
  BY <1>16, ReleasedUnchanged DEF vars, lockVars, localVars
<1> QED
  BY <1>1, <1>2, <1>3, <1>4, <1>5, <1>6, <1>7, <1>8, <1>9, <1>11, <1>12, <1>13, <1>14,
     <1>15, <1>16
  DEF Next, ShardStep, LockStep, UnLockStep, ReleaseStep

\* ReleasedNeverBack, when no message is delivered to two shards: a message that
\* locks again after its turn gives the lock back at the number it found, so the
\* total order of the sections is never rewound.
THEOREM ReleasedNeverBackHolds == SingleRoutes => (Spec => ReleasedNeverBack)
<1> SUFFICES ASSUME SingleRoutes PROVE Spec => ReleasedNeverBack
  OBVIOUS
<1>1. TypeInv /\ MutexInv /\ TypeInv' /\ MutexInv' /\ [Next]_vars => [Released' >= Released]_vars
  BY ReleasedStep
<1>2. TypeInv /\ [Next]_vars => TypeInv'
  BY TypeInvStep
<1>3. TypeInv /\ MutexInv /\ [Next]_vars => MutexInv'
  BY MutexInvStep
<1> QED BY <1>1, <1>2, <1>3, InitTypeInv, InitMutexInv, PTL DEF Spec, ReleasedNeverBack
=============================================================================
