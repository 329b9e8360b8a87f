-------------------------- MODULE MemoryPoolProofs --------------------------
(***************************************************************************)
(* What is proved of MemoryPool, for any number of threads, blocks, calls  *)
(* and crashes: the cursors of both queues stay in order (TypeOK), no      *)
(* block is in two places and none disappears (EachBlockOnce), emergent    *)
(* blocks come back to their queue (EmergentReserveKept) and no block is   *)
(* refused (DeleteAccepted), the last two as long as no crash has lost a   *)
(* flag.                                                                   *)
(*                                                                         *)
(* The argument: the entries from release to tail of a queue are the free  *)
(* blocks and those in the hands of a user (TakerInv); an entry is written *)
(* once it is free, and no two of those entries hold the same block        *)
(* (OnceInv).  Hence the entries of a queue are fewer than its blocks as   *)
(* long as one of these is with an application, and there is room for it.  *)
(***************************************************************************)
EXTENDS MemoryPool, FiniteSetTheorems, TLAPS

-----------------------------------------------------------------------------
(* The inductive invariant.                                                *)

\* The entries that are not free: of a block nobody has, or in the hands of a user.
Live(q) == release[q] .. tail[q] - 1

Home(q) == IF q = "buffer" THEN Regular ELSE Emergent

Steps == {"idle", "new", "emergent", "regular", "alert", "clear", "mark", "free"}

\* The cursors and the queues are functions on Queues.
CursorInv ==
    /\ reserve \in [Queues -> Nat] /\ tail \in [Queues -> Nat]
    /\ head \in [Queues -> Nat] /\ release \in [Queues -> Nat]
    /\ slots = [q \in Queues |-> slots[q]]

\* The users that take have the entries from release to head, one each.
TakerInv ==
    /\ \A u \in Taking : release[uqueue[u]] <= upos[u] /\ upos[u] < head[uqueue[u]]
    /\ \A u, v \in Taking : uqueue[u] = uqueue[v] /\ upos[u] = upos[v] => u = v
    /\ \A q \in Queues : \A n \in release[q] .. head[q] - 1 :
           \E u \in Taking : uqueue[u] = q /\ upos[u] = n
    /\ \A u \in Users : upc[u] = "mark" => uqueue[u] = "emergent"

\* The deleter works on a block of an application, and has an entry from AllocEntry on.
DeleteInv ==
    /\ dpc # "idle" => dbuf \in owned
    /\ \A q \in Queues : reserve[q] = IF dpc \in {"reset", "post"} /\ q = dqueue THEN tail[q] + 1
                                                                                 ELSE tail[q]

\* Every block is in one place.
OnceInv ==
    /\ \A q, r \in Queues : \A m \in Live(q), n \in Live(r) :
           Block(q, m) = Block(r, n) => q = r /\ m = n
    /\ \A q \in Queues : \A n \in Live(q) : Block(q, n) \notin owned \cup lost \cup refused
    /\ owned \cap lost = {} /\ owned \cap refused = {} /\ lost \cap refused = {}
    /\ \A b \in Blocks : \/ b \in owned \cup lost \cup refused
                         \/ \E q \in Queues : \E n \in Live(q) : Block(q, n) = b

\* The sum of EachBlockOnce.
CountInv ==
    /\ IsFiniteSet(Taking)
    /\ (tail["buffer"] - head["buffer"]) + (tail["emergent"] - head["emergent"])
           + Cardinality(Taking) + Cardinality(owned) + Cardinality(lost)
           + Cardinality(refused) = Cardinality(Blocks)

\* The flag of a block that is with an application tells its queue, but between
\* Reset and PostEntry.
HomeInv ==
    ~torn =>
        /\ refused = {}
        /\ \A q \in Queues : \A n \in Live(q) : Block(q, n) \in Home(q)
        /\ flagged \subseteq Emergent
        /\ \A u \in Taking : upc[u] = "free" /\ uqueue[u] = "emergent" => Buffer(u) \in flagged
        /\ \A b \in owned \cap Emergent : b \in flagged \/ (dpc = "post" /\ b = dbuf)
        /\ dpc # "idle" => dbuf \in Home(dqueue)

TypeInv == TypeOK /\ CursorInv

Inv == TypeInv /\ TakerInv /\ DeleteInv /\ OnceInv /\ CountInv /\ HomeInv

-----------------------------------------------------------------------------
(* The constants, the slots of a queue and the blocks.                     *)

\* Both queues have room for a block at least.
LEMMA Sizes ==
    /\ BlockNum \in Nat /\ BlockNum > 0 /\ EmergentNum \in Nat /\ EmergentNum > 0
    /\ \A q \in Queues : QueueSize(q) \in Nat /\ QueueSize(q) > 0
    /\ \A q \in Queues : q = "buffer" \/ q = "emergent"
    /\ "buffer" \in Queues /\ "emergent" \in Queues
    /\ MaxNew \in Nat /\ MaxCrash \in Nat
  BY MemoryPoolAssumption DEF QueueSize, Queues

\* Regular and emergent blocks are apart, and as many as the entries of their queue.
LEMMA Homes ==
    /\ \A q \in Queues : /\ Home(q) \subseteq Blocks /\ IsFiniteSet(Home(q))
                         /\ Cardinality(Home(q)) = QueueSize(q)
    /\ Regular \cap Emergent = {} /\ 0 \notin Blocks /\ Blocks \subseteq Nat
    /\ Home("buffer") = Regular /\ Home("emergent") = Emergent
    /\ IsFiniteSet(Blocks)
  <1>1. IsFiniteSet(Regular) /\ Cardinality(Regular) = BlockNum
    BY Sizes, FS_Interval DEF Regular
  <1>2. IsFiniteSet(Emergent) /\ Cardinality(Emergent) = EmergentNum
    <2>1. BlockNum + 1 \in Int /\ BlockNum + EmergentNum \in Int
      BY Sizes
    <2>2. /\ IsFiniteSet(Emergent)
          /\ Cardinality(Emergent) = IF BlockNum + 1 > BlockNum + EmergentNum THEN 0
                                     ELSE (BlockNum + EmergentNum) - (BlockNum + 1) + 1
      BY <2>1, FS_Interval DEF Emergent
    <2> QED
      BY <2>2, Sizes
  <1>3. Regular \cap Emergent = {} /\ 0 \notin Blocks /\ Blocks \subseteq Nat
    BY Sizes DEF Regular, Emergent, Blocks
  <1>4. IsFiniteSet(Blocks)
    BY <1>1, <1>2, FS_Union DEF Blocks
  <1>5. Home("buffer") = Regular /\ Home("emergent") = Emergent
    BY DEF Home
  <1>6. \A q \in Queues : /\ Home(q) \subseteq Blocks /\ IsFiniteSet(Home(q))
                          /\ Cardinality(Home(q)) = QueueSize(q)
    BY <1>1, <1>2, Sizes DEF Home, Blocks, QueueSize
  <1> QED
    BY <1>3, <1>4, <1>5, <1>6

\* A multiple of a lap is no less than the lap.
LEMMA SmallMultiple == ASSUME NEW Q \in Nat \ {0}, NEW k \in Int, k >= 1 PROVE Q * k >= Q
  <1>1. Q * k = Q + Q * (k - 1)
    BY SMT
  <1>2. Q * (k - 1) >= 0
    BY SMT
  <1> QED
    BY <1>1, <1>2, SMT

\* Numbers less than a lap apart have slots of their own.
LEMMA LapInjective ==
    ASSUME NEW Q \in Nat \ {0}, NEW m \in Nat, NEW n \in Nat,
           m % Q = n % Q, m <= n, n < m + Q
    PROVE  m = n
  <1> DEFINE a == m \div Q
             b == n \div Q
  <1>1. a \in Int /\ b \in Int /\ m = (Q * a) + (m % Q) /\ n = (Q * b) + (n % Q)
    BY SMT
  <1> HIDE DEF a, b
  <1>2. n - m = Q * (b - a) /\ b - a \in Int
    BY <1>1, SMT
  <1>3. CASE b - a >= 1
    BY <1>2, <1>3, SmallMultiple, SMT
  <1>4. CASE b - a = 0
    BY <1>1, <1>4, SMT
  <1>5. CASE b - a <= -1
    <2>1. Q * (-(b - a)) >= Q
      BY <1>2, <1>5, SmallMultiple
    <2>2. Q * (-(b - a)) = -(n - m)
      BY <1>1, <1>2, SMT
    <2> QED
      BY <2>1, <2>2, SMT
  <1> QED
    BY <1>2, <1>3, <1>4, <1>5

\* The numbers of the first lap are their slots.
LEMMA FirstLap == ASSUME NEW Q \in Nat \ {0}, NEW n \in 0 .. Q - 1 PROVE n % Q = n
  <1> DEFINE r == n % Q
             a == n \div Q
  <1>1. a \in Int /\ r \in 0 .. Q - 1 /\ n = (Q * a) + r
    BY SMT
  <1> HIDE DEF r, a
  <1>2. CASE a >= 1
    BY <1>1, <1>2, SmallMultiple, SMT
  <1>3. CASE a = 0
    BY <1>1, <1>3, SMT DEF r
  <1>4. CASE a <= -1
    <2>1. Q * (-a) >= Q /\ Q * (-a) = -(Q * a)
      BY <1>1, <1>4, SmallMultiple, SMT
    <2> QED
      BY <1>1, <2>1, SMT
  <1> QED
    BY <1>1, <1>2, <1>3, <1>4

\* The slot of a number is one of its queue's, and differs from that of any other
\* number of the same lap.
LEMMA Slots ==
    ASSUME NEW q \in Queues
    PROVE  /\ \A n \in Nat : n % QueueSize(q) \in 0 .. QueueSize(q) - 1
           /\ \A a, m, n \in Nat :
                  a <= m /\ m < a + QueueSize(q) /\ a <= n /\ n < a + QueueSize(q)
                  /\ m % QueueSize(q) = n % QueueSize(q) => m = n
  <1> DEFINE Q == QueueSize(q)
  <1>1. Q \in Nat \ {0}
    BY Sizes
  <1> HIDE DEF Q
  <1>2. \A n \in Nat : n % Q \in 0 .. Q - 1
    BY <1>1, SMT
  <1>3. \A i, j \in Nat : i % Q = j % Q /\ i <= j /\ j < i + Q => i = j
    BY <1>1, LapInjective
  <1>4. \A a, m, n \in Nat : a <= m /\ m < a + Q /\ a <= n /\ n < a + Q /\ m % Q = n % Q => m = n
    <2> TAKE a, m, n \in Nat
    <2> HAVE a <= m /\ m < a + Q /\ a <= n /\ n < a + Q /\ m % Q = n % Q
    <2>1. (m <= n /\ n < m + Q) \/ (n <= m /\ m < n + Q)
      BY <1>1
    <2> QED
      BY <1>3, <2>1
  <1> QED
    BY <1>2, <1>4 DEF Q

\* Every entry holds a block.
LEMMA BlockType ==
    ASSUME TypeInv, NEW q \in Queues, NEW n \in Nat
    PROVE  Block(q, n) \in Blocks
  <1>1. slots[q] \in [0 .. QueueSize(q) - 1 -> Blocks]
    BY DEF TypeInv, TypeOK
  <1>2. n % QueueSize(q) \in 0 .. QueueSize(q) - 1
    BY Slots
  <1> QED
    BY <1>1, <1>2 DEF Block

\* The order of the cursors, which also says what numbers the live entries have.
LEMMA Cursors ==
    ASSUME TypeInv, NEW q \in Queues
    PROVE  /\ release[q] \in Nat /\ head[q] \in Nat /\ tail[q] \in Nat /\ reserve[q] \in Nat
           /\ release[q] <= head[q] /\ head[q] <= tail[q] /\ tail[q] <= reserve[q]
           /\ reserve[q] <= release[q] + QueueSize(q) /\ reserve[q] <= tail[q] + 1
           /\ \A n : n \in Live(q) <=> n \in Nat /\ release[q] <= n /\ n < tail[q]
           /\ QueueSize(q) \in Nat /\ QueueSize(q) > 0
  <1>1. release[q] \in Nat /\ head[q] \in Nat /\ tail[q] \in Nat /\ reserve[q] \in Nat
    BY DEF TypeInv, CursorInv
  <1>2. /\ release[q] <= head[q] /\ head[q] <= tail[q] /\ tail[q] <= reserve[q]
        /\ reserve[q] <= release[q] + QueueSize(q) /\ reserve[q] <= tail[q] + 1
    BY DEF TypeInv, TypeOK
  <1>3. \A n : n \in Live(q) <=> n \in Nat /\ release[q] <= n /\ n < tail[q]
    BY <1>1 DEF Live
  <1> QED
    BY <1>1, <1>2, <1>3, Sizes

\* A user that takes has a live entry of its own; its block is one of the pool's.
LEMMA Taken ==
    ASSUME TypeInv, TakerInv, NEW u \in Taking
    PROVE  /\ u \in Users /\ uqueue[u] \in Queues /\ upos[u] \in Nat
           /\ upos[u] \in Live(uqueue[u]) /\ upos[u] < head[uqueue[u]]
           /\ release[uqueue[u]] <= upos[u] /\ Buffer(u) \in Blocks
  <1>1. u \in Users /\ uqueue[u] \in Queues /\ upos[u] \in Nat
    BY DEF TypeInv, TypeOK, Taking
  <1>2. release[uqueue[u]] <= upos[u] /\ upos[u] < head[uqueue[u]]
    BY DEF TakerInv
  <1>3. upos[u] \in Live(uqueue[u])
    BY <1>1, <1>2, Cursors
  <1>4. Buffer(u) \in Blocks
    BY <1>1, BlockType DEF Buffer
  <1> QED
    BY <1>1, <1>2, <1>3, <1>4

\* As long as no flag was lost, there is room for the block that is deleted: the live
\* entries of its queue hold other blocks of the same home.
LEMMA RoomForBlock ==
    ASSUME TypeInv, DeleteInv, OnceInv, HomeInv, ~torn, dpc = "alloc"
    PROVE  reserve[dqueue] < release[dqueue] + QueueSize(dqueue)
  <1> DEFINE q == dqueue
             f == [n \in Live(q) |-> Block(q, n)]
             T == Home(q) \ {dbuf}
  <1>1. q \in Queues /\ dbuf \in owned /\ dbuf \in Home(q) /\ reserve[q] = tail[q]
    BY DEF TypeInv, TypeOK, DeleteInv, HomeInv
  <1> HIDE DEF q
  <1>2. \A n \in Live(q) : Block(q, n) \in T
    BY <1>1 DEF HomeInv, OnceInv
  <1>3. \A m, n \in Live(q) : Block(q, m) = Block(q, n) => m = n
    BY <1>1 DEF OnceInv
  <1>4. f \in Injection(Live(q), T)
    <2>1. f \in [Live(q) -> T]
      BY <1>2
    <2>2. \A m, n \in Live(q) : f[m] = f[n] => m = n
      BY <1>3
    <2> QED
      BY <2>1, <2>2 DEF Injection, IsInjective
  <1>5. IsFiniteSet(T) /\ Cardinality(T) = QueueSize(q) - 1
    BY <1>1, Homes, FS_RemoveElement
  <1>6. Cardinality(Live(q)) <= Cardinality(T)
    BY <1>4, <1>5, FS_Injection
  <1>7. Cardinality(Live(q)) = tail[q] - release[q]
    <2>1. /\ release[q] \in Nat /\ tail[q] \in Nat /\ release[q] <= tail[q]
          /\ release[q] \in Int /\ tail[q] - 1 \in Int
      BY <1>1, Cursors
    <2>2. Cardinality(Live(q)) = IF release[q] > tail[q] - 1 THEN 0
                                 ELSE (tail[q] - 1) - release[q] + 1
      BY <2>1, FS_Interval DEF Live
    <2> QED
      BY <2>1, <2>2
  <1>8. tail[q] - release[q] <= QueueSize(q) - 1
    BY <1>5, <1>6, <1>7
  <1>9. tail[q] < release[q] + QueueSize(q)
    BY <1>1, <1>8, Cursors
  <1> QED
    BY <1>1, <1>9 DEF q

\* The terms of the sum are numbers.
LEMMA Sums ==
    ASSUME Inv
    PROVE  /\ tail["buffer"] \in Nat /\ head["buffer"] \in Nat
           /\ tail["emergent"] \in Nat /\ head["emergent"] \in Nat
           /\ Cardinality(Taking) \in Nat /\ Cardinality(owned) \in Nat
           /\ Cardinality(lost) \in Nat /\ Cardinality(refused) \in Nat
           /\ Cardinality(Blocks) \in Nat
  <1>1. IsFiniteSet(owned) /\ IsFiniteSet(lost) /\ IsFiniteSet(refused) /\ IsFiniteSet(Taking)
    BY Homes, FS_Subset DEF Inv, TypeInv, TypeOK, CountInv
  <1> QED
    BY <1>1, Homes, Sizes, Cursors, FS_CardinalityType DEF Inv

-----------------------------------------------------------------------------
(* Every action preserves the invariant.                                   *)

\* A call of NewBuffer or NewEmergentBuffer begins.
LEMMA CallNewInv ==
    ASSUME Inv, NEW u \in Users, NEW first \in {"new", "emergent"}, CallNew(u, first)
    PROVE  Inv'
  <1> USE DEF Inv, CallNew, UserStep, cursors, userVars, deleteVars, alerts, histories
  <1>1. TypeInv'
    <2>1. upc' \in [Users -> Steps] /\ news' \in 0 .. MaxNew
      BY Sizes DEF TypeInv, TypeOK, Steps
    <2> QED
      BY <2>1 DEF TypeInv, TypeOK, CursorInv, Steps
  <1>2. TakerInv'
    BY DEF TakerInv, Taking, TypeInv, TypeOK
  <1>3. DeleteInv'
    BY DEF DeleteInv
  <1>4. OnceInv'
    BY DEF OnceInv, Live, Block
  <1>5. CountInv'
    BY DEF CountInv, Taking, TypeInv, TypeOK
  <1>6. HomeInv'
    BY DEF HomeInv, Live, Taking, Buffer, Block, TypeInv, TypeOK
  <1> QED
    BY <1>1, <1>2, <1>3, <1>4, <1>5, <1>6

\* A user that found no block looks at the alerts.
LEMMA CheckAlertInv ==
    ASSUME Inv, NEW u \in Users, CheckAlert(u)
    PROVE  Inv'
  <1> USE DEF Inv, CheckAlert, UserStep, cursors, userVars, deleteVars, alerts, histories
  <1>1. TypeInv'
    BY Sizes DEF TypeInv, TypeOK, CursorInv
  <1>2. TakerInv'
    BY DEF TakerInv, Taking, TypeInv, TypeOK
  <1>3. DeleteInv'
    BY DEF DeleteInv
  <1>4. OnceInv'
    BY DEF OnceInv, Live, Block
  <1>5. CountInv'
    BY DEF CountInv, Taking, TypeInv, TypeOK
  <1>6. HomeInv'
    BY DEF HomeInv, Live, Taking, Buffer, Block, TypeInv, TypeOK
  <1> QED
    BY <1>1, <1>2, <1>3, <1>4, <1>5, <1>6

\* It takes the alert and returns without a block.
LEMMA ClearAlertInv ==
    ASSUME Inv, NEW u \in Users, ClearAlert(u)
    PROVE  Inv'
  <1> USE DEF Inv, ClearAlert, UserStep, cursors, userVars, deleteVars, alerts, histories
  <1>1. TypeInv'
    BY Sizes DEF TypeInv, TypeOK, CursorInv
  <1>2. TakerInv'
    BY DEF TakerInv, Taking, TypeInv, TypeOK
  <1>3. DeleteInv'
    BY DEF DeleteInv
  <1>4. OnceInv'
    BY DEF OnceInv, Live, Block
  <1>5. CountInv'
    BY DEF CountInv, Taking, TypeInv, TypeOK
  <1>6. HomeInv'
    BY DEF HomeInv, Live, Taking, Buffer, Block, TypeInv, TypeOK
  <1> QED
    BY <1>1, <1>2, <1>3, <1>4, <1>5, <1>6

\* ReleaseAllocThread and ReleaseAllocThreadAlways set a flag only.
LEMMA AlertInv ==
    ASSUME Inv, ReleaseAllocThread \/ ReleaseAllocThreadAlways
    PROVE  Inv'
  <1> USE DEF Inv, ReleaseAllocThread, ReleaseAllocThreadAlways, cursors, userVars,
             deleteVars, alerts, histories
  <1>1. TypeInv'
    BY Sizes DEF TypeInv, TypeOK, CursorInv
  <1>2. TakerInv'
    BY DEF TakerInv, Taking
  <1>3. DeleteInv'
    BY DEF DeleteInv
  <1>4. OnceInv'
    BY DEF OnceInv, Live, Block
  <1>5. CountInv'
    BY DEF CountInv, Taking
  <1>6. HomeInv'
    BY DEF HomeInv, Live, Taking, Buffer, Block
  <1> QED
    BY <1>1, <1>2, <1>3, <1>4, <1>5, <1>6

\* A user that finds a queue empty takes nothing.
LEMMA WaitEmptyInv ==
    ASSUME Inv, NEW u \in Users, NEW q \in Queues, NEW from \in Steps \ {"mark", "free"},
           NEW taken, NEW empty \in Steps \ {"mark", "free"},
           WaitEntry(u, q, from, taken, empty), ~(head[q] < tail[q])
    PROVE  Inv'
  <1> USE DEF Inv, WaitEntry, UserStep, cursors, userVars, deleteVars, alerts, histories
  <1>a. Taking' = Taking /\ \A v \in Taking : upc'[v] = upc[v]
    BY DEF Taking, TypeInv, TypeOK
  <1>1. TypeInv'
    <2>1. upc' \in [Users -> Steps]
      BY DEF TypeInv, TypeOK, Steps
    <2> QED
      BY <2>1 DEF TypeInv, TypeOK, CursorInv, Steps
  <1>2. TakerInv'
    BY <1>a DEF TakerInv, TypeInv, TypeOK
  <1>3. DeleteInv'
    BY DEF DeleteInv
  <1>4. OnceInv'
    BY DEF OnceInv, Live, Block
  <1>5. CountInv'
    BY <1>a DEF CountInv
  <1>6. HomeInv'
    BY <1>a DEF HomeInv, Live, Buffer, Block
  <1> QED
    BY <1>1, <1>2, <1>3, <1>4, <1>5, <1>6

\* The entry a user takes is live before and after: it was the first of the free blocks.
LEMMA WaitTakenInv ==
    ASSUME Inv, NEW u \in Users, NEW q \in Queues, NEW from \in Steps \ {"mark", "free"},
           NEW taken \in {"mark", "free"}, NEW empty,
           taken = IF q = "emergent" THEN "mark" ELSE "free",
           WaitEntry(u, q, from, taken, empty), head[q] < tail[q]
    PROVE  Inv'
  <1> USE DEF Inv, WaitEntry, UserStep, cursors, userVars, deleteVars, alerts, histories
  <1>a. /\ upc' = [upc EXCEPT ![u] = taken] /\ head' = [head EXCEPT ![q] = head[q] + 1]
        /\ uqueue' = [uqueue EXCEPT ![u] = q] /\ upos' = [upos EXCEPT ![u] = head[q]]
        /\ release' = release /\ tail' = tail
    OBVIOUS
  <1>b. upc \in [Users -> Steps] /\ uqueue \in [Users -> Queues] /\ upos \in [Users -> Nat]
    BY DEF TypeInv, TypeOK, Steps
  <1>c. u \notin Taking /\ Taking' = Taking \cup {u}
    BY <1>a, <1>b DEF Taking
  <1>d. /\ \A v \in Taking : upc'[v] = upc[v] /\ uqueue'[v] = uqueue[v] /\ upos'[v] = upos[v]
        /\ upc'[u] = taken /\ uqueue'[u] = q /\ upos'[u] = head[q]
    BY <1>a, <1>b, <1>c DEF Taking
  <1>e. \A r \in Queues : /\ release[r] \in Nat /\ head[r] \in Nat /\ tail[r] \in Nat
                          /\ release[r] <= head[r] /\ head[r] <= tail[r]
                          /\ head'[r] = IF r = q THEN head[r] + 1 ELSE head[r]
    BY <1>a, Cursors DEF TypeInv, CursorInv
  <1>1. TypeInv'
    <2>1. upc' \in [Users -> Steps] /\ uqueue' \in [Users -> Queues] /\ upos' \in [Users -> Nat]
      BY <1>a, <1>b, <1>e DEF Steps
    <2>2. head' \in [Queues -> Nat]
      BY <1>a, <1>e DEF TypeInv, CursorInv
    <2>3. \A r \in Queues : release'[r] <= head'[r] /\ head'[r] <= tail'[r]
      BY <1>a, <1>e
    <2> QED
      BY <2>1, <2>2, <2>3 DEF TypeInv, TypeOK, CursorInv, Steps
  <1>2. TakerInv'
    <2>1. \A v \in Taking : v \in Users /\ uqueue[v] \in Queues /\ upos[v] \in Nat
                            /\ release[uqueue[v]] <= upos[v] /\ upos[v] < head[uqueue[v]]
      BY Taken
    <2>2. \A v \in Taking' : release'[uqueue'[v]] <= upos'[v] /\ upos'[v] < head'[uqueue'[v]]
      BY <1>a, <1>c, <1>d, <1>e, <2>1
    <2>3. \A v, w \in Taking' : uqueue'[v] = uqueue'[w] /\ upos'[v] = upos'[w] => v = w
      BY <1>a, <1>c, <1>d, <1>e, <2>1 DEF TakerInv
    <2>4. ASSUME NEW r \in Queues, NEW n \in release'[r] .. head'[r] - 1
          PROVE  \E v \in Taking' : uqueue'[v] = r /\ upos'[v] = n
      <3>1. CASE r = q /\ n = head[q]
        BY <1>c, <1>d, <3>1
      <3>2. CASE ~(r = q /\ n = head[q])
        <4>1. n \in release[r] .. head[r] - 1
          BY <1>a, <1>e, <3>2
        <4>2. PICK v \in Taking : uqueue[v] = r /\ upos[v] = n
          BY <4>1 DEF TakerInv
        <4> QED
          BY <1>c, <1>d, <4>2
      <3> QED
        BY <3>1, <3>2
    <2>5. \A v \in Users : upc'[v] = "mark" => uqueue'[v] = "emergent"
      BY <1>a, <1>b, <1>d DEF TakerInv
    <2> QED
      BY <2>2, <2>3, <2>4, <2>5 DEF TakerInv
  <1>3. DeleteInv'
    BY DEF DeleteInv
  <1>4. OnceInv'
    BY DEF OnceInv, Live, Block
  <1>5. CountInv'
    <2>1. IsFiniteSet(Taking') /\ Cardinality(Taking') = Cardinality(Taking) + 1
      BY <1>c, FS_AddElement DEF CountInv
    <2>2. Cardinality(Taking) \in Nat
      BY FS_CardinalityType DEF CountInv
    <2>3. /\ owned' = owned /\ lost' = lost /\ refused' = refused /\ tail' = tail
          /\ "buffer" \in Queues /\ "emergent" \in Queues /\ (q = "buffer" \/ q = "emergent")
      BY Sizes
    <2>4. (tail'["buffer"] - head'["buffer"]) + (tail'["emergent"] - head'["emergent"])
          = (tail["buffer"] - head["buffer"]) + (tail["emergent"] - head["emergent"]) - 1
      BY <1>e, <2>3
    <2> QED
      BY <2>1, <2>2, <2>3, <2>4, Sums DEF CountInv
  <1>6. HomeInv'
    <2>1. \A v \in Taking : Buffer(v)' = Buffer(v)
      BY <1>d DEF Buffer, Block
    <2>2. \A v \in Taking' : upc'[v] = "free" /\ uqueue'[v] = "emergent" => v \in Taking
      BY <1>c, <1>d
    <2> QED
      BY <1>d, <2>1, <2>2 DEF HomeInv, Live, Block
  <1> QED
    BY <1>1, <1>2, <1>3, <1>4, <1>5, <1>6

\* Only a block of the emergent queue is flagged, and it is in the hands of one user.
LEMMA SetEmergentFlagInv ==
    ASSUME Inv, NEW u \in Users, SetEmergentFlag(u)
    PROVE  Inv'
  <1> USE DEF Inv, SetEmergentFlag, UserStep, cursors, userVars, deleteVars, alerts, histories
  <1>a. u \in Taking /\ Taking' = Taking /\ uqueue[u] = "emergent" /\ upc'[u] = "free"
    BY DEF Taking, TypeInv, TypeOK, TakerInv
  <1>b. \A v \in Users : v # u => upc'[v] = upc[v]
    BY DEF TypeInv, TypeOK
  <1>1. TypeInv'
    <2>1. upc' \in [Users -> Steps]
      BY DEF TypeInv, TypeOK, Steps
    <2>2. flagged' \subseteq Blocks
      BY <1>a, Taken DEF TypeInv, TypeOK
    <2> QED
      BY <2>1, <2>2 DEF TypeInv, TypeOK, CursorInv, Steps
  <1>2. TakerInv'
    BY <1>a, <1>b DEF TakerInv
  <1>3. DeleteInv'
    BY DEF DeleteInv
  <1>4. OnceInv'
    BY DEF OnceInv, Live, Block
  <1>5. CountInv'
    BY <1>a DEF CountInv
  <1>6. HomeInv'
    <2>1. ~torn => Buffer(u) \in Emergent
      <3>1. upos[u] \in Live("emergent") /\ "emergent" \in Queues
        BY <1>a, Taken DEF Queues
      <3> QED
        BY <1>a, <3>1, Homes DEF HomeInv, Buffer
    <2>2. \A v : Buffer(v)' = Buffer(v)
      BY DEF Buffer, Block
    <2>3. Taking \subseteq Users
      BY DEF Taking
    <2> QED
      BY <1>a, <1>b, <2>1, <2>2, <2>3 DEF HomeInv, Live, Block
  <1> QED
    BY <1>1, <1>2, <1>3, <1>4, <1>5, <1>6

\* The oldest entry in the hands of a user is freed; its block goes to an application.
LEMMA FreeEntryInv ==
    ASSUME Inv, NEW u \in Users, FreeEntry(u)
    PROVE  Inv'
  <1> USE DEF Inv, FreeEntry, UserStep, cursors, userVars, deleteVars, alerts, histories
  <1> DEFINE q == uqueue[u]
             b == Buffer(u)
  <1>a. u \in Taking /\ Taking' = Taking \ {u} /\ q \in Queues
    BY DEF Taking, TypeInv, TypeOK
  <1>b. \A v \in Taking' : /\ v \in Taking /\ v # u /\ upc'[v] = upc[v]
                           /\ uqueue'[v] = uqueue[v] /\ upos'[v] = upos[v]
    BY <1>a DEF Taking, TypeInv, TypeOK
  <1>c. /\ release[q] = upos[u] /\ upos[u] < head[q] /\ b = Block(q, release[q]) /\ b \in Blocks
        /\ release[q] \in Live(q)
    BY <1>a, Taken DEF Buffer
  <1>d. /\ release' = [release EXCEPT ![q] = release[q] + 1] /\ owned' = owned \cup {b}
        /\ tail' = tail /\ head' = head /\ reserve' = reserve /\ slots' = slots
        /\ lost' = lost /\ refused' = refused
    OBVIOUS
  <1>e. uqueue' = [uqueue EXCEPT ![u] = "buffer"] /\ upos' = [upos EXCEPT ![u] = 0]
    OBVIOUS
  <1> HIDE DEF q, b
  <1>f. \A r \in Queues : /\ release[r] \in Nat /\ head[r] \in Nat /\ tail[r] \in Nat
                          /\ release[r] <= head[r] /\ head[r] <= tail[r]
                          /\ release'[r] = IF r = q THEN release[r] + 1 ELSE release[r]
    BY <1>a, <1>d, Cursors DEF TypeInv, CursorInv
  <1>g. \A r \in Queues : \A n : n \in Live(r)' <=> n \in Live(r) /\ ~(r = q /\ n = release[q])
    BY <1>a, <1>d, <1>f DEF Live
  <1>h. \A r, n : Block(r, n)' = Block(r, n)
    BY <1>d DEF Block
  <1>1. TypeInv'
    <2>1. release' \in [Queues -> Nat] /\ owned' \subseteq Blocks
      BY <1>a, <1>c, <1>d, <1>f DEF TypeInv, CursorInv, TypeOK
    <2>2. upc' \in [Users -> Steps] /\ uqueue' \in [Users -> Queues] /\ upos' \in [Users -> Nat]
      BY <1>e, Sizes DEF TypeInv, TypeOK, Steps
    <2>3. \A r \in Queues : release'[r] <= head'[r] /\ release[r] <= release'[r]
      BY <1>a, <1>c, <1>d, <1>f
    <2>4. \A r \in Queues : reserve'[r] <= release'[r] + QueueSize(r)
      BY <1>d, <1>f, <2>3, Cursors
    <2> QED
      BY <1>d, <2>1, <2>2, <2>3, <2>4 DEF TypeInv, TypeOK, CursorInv, Steps
  <1>2. TakerInv'
    <2>1. \A v \in Taking : v \in Users /\ uqueue[v] \in Queues /\ upos[v] \in Nat
                            /\ release[uqueue[v]] <= upos[v] /\ upos[v] < head[uqueue[v]]
      BY Taken
    <2>2. \A v \in Taking' : uqueue[v] = q => upos[v] # release[q]
      BY <1>a, <1>b, <1>c DEF TakerInv, q
    <2>3. \A v \in Taking' : release'[uqueue'[v]] <= upos'[v] /\ upos'[v] < head'[uqueue'[v]]
      BY <1>b, <1>d, <1>f, <2>1, <2>2
    <2>4. \A v, w \in Taking' : uqueue'[v] = uqueue'[w] /\ upos'[v] = upos'[w] => v = w
      BY <1>b DEF TakerInv
    <2>5. ASSUME NEW r \in Queues, NEW n \in release'[r] .. head'[r] - 1
          PROVE  \E v \in Taking' : uqueue'[v] = r /\ upos'[v] = n
      <3>1. n \in release[r] .. head[r] - 1 /\ ~(r = q /\ n = release[q])
        BY <1>a, <1>d, <1>f
      <3>2. PICK v \in Taking : uqueue[v] = r /\ upos[v] = n
        BY <3>1 DEF TakerInv
      <3>3. v # u
        BY <1>c, <3>1, <3>2 DEF q
      <3> QED
        BY <1>a, <1>b, <3>2, <3>3
    <2>6. \A v \in Users : upc'[v] = "mark" => v \in Taking' /\ upc[v] = "mark"
      BY DEF Taking, TypeInv, TypeOK
    <2>7. \A v \in Users : upc'[v] = "mark" => uqueue'[v] = "emergent"
      BY <1>b, <2>6 DEF TakerInv
    <2> QED
      BY <2>3, <2>4, <2>5, <2>7 DEF TakerInv
  <1>3. DeleteInv'
    BY <1>d DEF DeleteInv
  <1>4. OnceInv'
    <2>1. b \notin owned \cup lost \cup refused
      BY <1>a, <1>c DEF OnceInv
    <2>2. \A r \in Queues : \A n \in Live(r)' : n \in Live(r) /\ Block(r, n) # b
      BY <1>a, <1>c, <1>g DEF OnceInv
    <2>3. \A c \in Blocks : \/ c \in owned' \cup lost \cup refused
                            \/ \E r \in Queues : \E n \in Live(r)' : Block(r, n) = c
      BY <1>c, <1>d, <1>g DEF OnceInv
    <2> QED
      BY <1>d, <1>h, <2>1, <2>2, <2>3 DEF OnceInv
  <1>5. CountInv'
    <2>1. /\ IsFiniteSet(Taking') /\ Cardinality(Taking') = Cardinality(Taking) - 1
          /\ Cardinality(Taking) \in Nat
      BY <1>a, FS_RemoveElement, FS_CardinalityType DEF CountInv
    <2>2. b \notin owned
      BY <1>a, <1>c DEF OnceInv
    <2>3. IsFiniteSet(owned)
      BY Homes, FS_Subset DEF TypeInv, TypeOK
    <2>4. Cardinality(owned') = Cardinality(owned) + 1 /\ Cardinality(owned) \in Nat
      BY <1>d, <2>2, <2>3, FS_AddElement, FS_CardinalityType
    <2> QED
      BY <1>d, <2>1, <2>4, Sums DEF CountInv
  <1>6. HomeInv'
    <2>1. ~torn => (b \in Emergent => b \in flagged)
      <3>1. ~torn => b \in Home(q)
        BY <1>a, <1>c DEF HomeInv
      <3>2. upc[u] = "free"
        OBVIOUS
      <3> QED
        BY <1>a, <3>1, <3>2, Homes, Sizes DEF HomeInv, q, b
    <2>2. \A v \in Taking' : Buffer(v)' = Buffer(v)
      BY <1>b, <1>h DEF Buffer
    <2>3. torn' = torn /\ flagged' = flagged /\ dpc' = dpc /\ dbuf' = dbuf /\ dqueue' = dqueue
      OBVIOUS
    <2> QED
      BY <1>b, <1>d, <1>g, <1>h, <2>1, <2>2, <2>3 DEF HomeInv
  <1> QED
    BY <1>1, <1>2, <1>3, <1>4, <1>5, <1>6

\* The flag of the block tells its home.
LEMMA DeleteBufferInv ==
    ASSUME Inv, NEW b \in Blocks, DeleteBuffer(b)
    PROVE  Inv'
  <1> USE DEF Inv, DeleteBuffer, cursors, userVars, deleteVars, alerts, histories
  <1>1. TypeInv'
    BY Sizes DEF TypeInv, TypeOK, CursorInv
  <1>2. TakerInv'
    BY DEF TakerInv, Taking
  <1>3. DeleteInv'
    BY DEF DeleteInv, TypeInv, TypeOK
  <1>4. OnceInv'
    BY DEF OnceInv, Live, Block
  <1>5. CountInv'
    BY DEF CountInv, Taking
  <1>6. HomeInv'
    <2>1. ~torn => b \in Home(dqueue')
      <3>1. b \in owned /\ dpc = "idle" /\ dqueue' = IF b \in flagged THEN "emergent" ELSE "buffer"
        OBVIOUS
      <3>2. ~torn => (b \in flagged <=> b \in Emergent)
        BY <3>1 DEF HomeInv
      <3> QED
        BY <3>1, <3>2, Homes DEF Blocks
    <2>2. \A v : Buffer(v)' = Buffer(v)
      BY DEF Buffer, Block
    <2>3. \A c \in owned \cap Emergent : ~torn => c \in flagged
      BY DEF HomeInv
    <2> QED
      BY <2>1, <2>2, <2>3 DEF HomeInv, Live, Block, Taking
  <1> QED
    BY <1>1, <1>2, <1>3, <1>4, <1>5, <1>6

\* A block is refused only after a flag was lost.
LEMMA DoubleDeleteInv ==
    ASSUME Inv, DoubleDelete
    PROVE  Inv'
  <1> USE DEF Inv, DoubleDelete, cursors, userVars, deleteVars, alerts, histories
  <1>a. dbuf \in owned /\ dbuf \in Blocks /\ torn /\ torn' = torn
    <2>1. dbuf \in owned
      BY DEF DeleteInv
    <2>2. dqueue \in Queues /\ owned \subseteq Blocks
      BY DEF TypeInv, TypeOK
    <2>3. ASSUME ~torn PROVE FALSE
      BY <2>2, <2>3, RoomForBlock, Cursors
    <2> QED
      BY <2>1, <2>2, <2>3 DEF TypeInv, TypeOK
  <1>b. refused' = refused \cup {dbuf} /\ owned' = owned \ {dbuf} /\ lost' = lost
    OBVIOUS
  <1>1. TypeInv'
    BY <1>a, Sizes DEF TypeInv, TypeOK, CursorInv
  <1>2. TakerInv'
    BY DEF TakerInv, Taking
  <1>3. DeleteInv'
    BY DEF DeleteInv, TypeInv, TypeOK
  <1>4. OnceInv'
    <2>1. owned' \cup lost' \cup refused' = owned \cup lost \cup refused
      BY <1>a, <1>b
    <2>2. \A r \in Queues : Live(r)' = Live(r) /\ \A n : Block(r, n)' = Block(r, n)
      BY DEF Live, Block
    <2>3. owned' \cap lost' = {} /\ owned' \cap refused' = {} /\ lost' \cap refused' = {}
      BY <1>a, <1>b DEF OnceInv
    <2> QED
      BY <2>1, <2>2, <2>3 DEF OnceInv
  <1>5. CountInv'
    <2>1. Taking' = Taking /\ tail' = tail /\ head' = head
      BY DEF Taking
    <2>2. IsFiniteSet(owned) /\ IsFiniteSet(refused)
      BY Homes, FS_Subset DEF TypeInv, TypeOK
    <2>3. dbuf \notin refused
      BY <1>a DEF OnceInv
    <2>4. Cardinality(owned') = Cardinality(owned) - 1 /\ Cardinality(owned) \in Nat
      BY <1>a, <1>b, <2>2, FS_RemoveElement, FS_CardinalityType
    <2>5. Cardinality(refused') = Cardinality(refused) + 1 /\ Cardinality(refused) \in Nat
      BY <1>b, <2>2, <2>3, FS_AddElement, FS_CardinalityType
    <2> QED
      BY <1>b, <2>1, <2>4, <2>5, Sums DEF CountInv
  <1>6. HomeInv'
    BY <1>a DEF HomeInv
  <1> QED
    BY <1>1, <1>2, <1>3, <1>4, <1>5, <1>6

\* The deleter reserves the entry at tail.
LEMMA AllocEntryInv ==
    ASSUME Inv, AllocEntry
    PROVE  Inv'
  <1> USE DEF Inv, AllocEntry, cursors, userVars, deleteVars, alerts, histories
  <1>a. dqueue \in Queues /\ reserve' = [reserve EXCEPT ![dqueue] = reserve[dqueue] + 1]
    BY DEF TypeInv, TypeOK
  <1>b. \A r \in Queues : /\ reserve[r] = tail[r] /\ reserve[r] \in Nat /\ tail[r] \in Nat
                          /\ reserve'[r] = IF r = dqueue THEN tail[r] + 1 ELSE tail[r]
    BY <1>a, Cursors DEF TypeInv, CursorInv, DeleteInv
  <1>1. TypeInv'
    <2>1. reserve' \in [Queues -> Nat]
      BY <1>a, <1>b DEF TypeInv, CursorInv
    <2>2. \A r \in Queues : /\ tail[r] <= reserve'[r] /\ reserve'[r] <= tail[r] + 1
                            /\ reserve'[r] <= release[r] + QueueSize(r)
      BY <1>a, <1>b, Cursors
    <2> QED
      BY <2>1, <2>2 DEF TypeInv, TypeOK, CursorInv
  <1>2. TakerInv'
    BY DEF TakerInv, Taking
  <1>3. DeleteInv'
    BY <1>b DEF DeleteInv
  <1>4. OnceInv'
    BY DEF OnceInv, Live, Block
  <1>5. CountInv'
    BY DEF CountInv, Taking
  <1>6. HomeInv'
    BY DEF HomeInv, Live, Taking, Buffer, Block, TypeInv, TypeOK
  <1> QED
    BY <1>1, <1>2, <1>3, <1>4, <1>5, <1>6

\* The block whose flag is reset is with the deleter, not in the hands of a user.
LEMMA ResetInv ==
    ASSUME Inv, Reset
    PROVE  Inv'
  <1> USE DEF Inv, Reset, cursors, userVars, deleteVars, alerts, histories
  <1>1. TypeInv'
    BY Sizes DEF TypeInv, TypeOK, CursorInv
  <1>2. TakerInv'
    BY DEF TakerInv, Taking
  <1>3. DeleteInv'
    BY DEF DeleteInv, TypeInv, TypeOK
  <1>4. OnceInv'
    BY DEF OnceInv, Live, Block
  <1>5. CountInv'
    BY DEF CountInv, Taking
  <1>6. HomeInv'
    <2>1. dbuf \in owned
      BY DEF DeleteInv
    <2>2. \A v \in Taking : Buffer(v) # dbuf
      BY <2>1, Taken DEF OnceInv, Buffer
    <2>3. \A v : Buffer(v)' = Buffer(v)
      BY DEF Buffer, Block
    <2> QED
      BY <2>1, <2>2, <2>3 DEF HomeInv, Live, Block, Taking
  <1> QED
    BY <1>1, <1>2, <1>3, <1>4, <1>5, <1>6

\* The entry written is none of the live ones; its block leaves the applications.
LEMMA PostEntryInv ==
    ASSUME Inv, PostEntry
    PROVE  Inv'
  <1> USE DEF Inv, PostEntry, cursors, userVars, deleteVars, alerts, histories
  <1>0. PICK q \in Queues, t \in Nat : q = dqueue /\ t = tail[dqueue]
    BY Cursors DEF TypeInv, TypeOK
  <1>a. /\ q \in Queues /\ dbuf \in owned /\ dbuf \in Blocks /\ dpc = "post"
        /\ reserve[q] = t + 1 /\ \A r \in Queues : r # q => reserve[r] = tail[r]
    BY <1>0 DEF TypeInv, TypeOK, DeleteInv
  <1>b. /\ slots' = [slots EXCEPT ![q] = [slots[q] EXCEPT ![t % QueueSize(q)] = dbuf]]
        /\ tail' = [tail EXCEPT ![q] = t + 1] /\ owned' = owned \ {dbuf}
        /\ release' = release /\ head' = head /\ reserve' = reserve
        /\ lost' = lost /\ refused' = refused
    BY <1>0
  <1>c. \A r \in Queues : /\ release[r] \in Nat /\ head[r] \in Nat /\ tail[r] \in Nat
                          /\ release[r] <= head[r] /\ head[r] <= tail[r]
                          /\ reserve[r] <= release[r] + QueueSize(r) /\ QueueSize(r) \in Nat
                          /\ tail'[r] = IF r = q THEN t + 1 ELSE tail[r]
    BY <1>a, <1>b, Cursors DEF TypeInv, CursorInv
  <1>d. t = tail[q] /\ t \in Nat /\ t < release[q] + QueueSize(q) /\ release[q] <= t
    BY <1>0, <1>a, <1>c
  <1>e. \A r \in Queues : \A n : n \in Live(r)' <=> n \in Live(r) \/ (r = q /\ n = t)
    BY <1>a, <1>b, <1>c, <1>d DEF Live
  <1>f. slots[q] \in [0 .. QueueSize(q) - 1 -> Blocks] /\ t % QueueSize(q) \in 0 .. QueueSize(q) - 1
    BY <1>a, <1>d, Slots DEF TypeInv, TypeOK
  <1>g. /\ \A r \in Queues : r # q => slots'[r] = slots[r]
        /\ slots'[q] = [slots[q] EXCEPT ![t % QueueSize(q)] = dbuf]
    BY <1>a, <1>b DEF TypeInv, CursorInv
  <1>h. Block(q, t)' = dbuf
    BY <1>f, <1>g DEF Block
  <1>i. \A r \in Queues : \A n \in Live(r) : Block(r, n)' = Block(r, n)
    <2> TAKE r \in Queues
    <2> TAKE n \in Live(r)
    <2>1. CASE r # q
      BY <1>g, <2>1 DEF Block
    <2>2. CASE r = q
      <3>1. n \in Nat /\ release[q] <= n /\ n < t
        BY <1>c, <1>d, <2>2 DEF Live
      <3>2. n % QueueSize(q) # t % QueueSize(q)
        <4>1. \A a, k, m \in Nat : a <= k /\ k < a + QueueSize(q) /\ a <= m /\ m < a + QueueSize(q)
                                  /\ k % QueueSize(q) = m % QueueSize(q) => k = m
          BY Slots
        <4>2. /\ release[q] \in Nat /\ QueueSize(q) \in Nat
              /\ n < release[q] + QueueSize(q) /\ n # t
          BY <1>c, <1>d, <3>1
        <4> QED
          BY <1>d, <3>1, <4>1, <4>2
      <3>3. n % QueueSize(q) \in 0 .. QueueSize(q) - 1
        BY <1>a, <3>1, Slots
      <3> QED
        BY <1>f, <1>g, <2>2, <3>2, <3>3 DEF Block
    <2> QED
      BY <2>1, <2>2
  <1>1. TypeInv'
    <2>1. tail' \in [Queues -> Nat] /\ owned' \subseteq Blocks
      BY <1>a, <1>b, <1>d DEF TypeInv, CursorInv, TypeOK
    <2>2. slots' = [r \in Queues |-> slots'[r]]
      BY <1>b DEF TypeInv, CursorInv
    <2>3. \A r \in Queues : slots'[r] \in [0 .. QueueSize(r) - 1 -> Blocks]
      <3>1. slots'[q] \in [0 .. QueueSize(q) - 1 -> Blocks]
        <4>1. \A D, i : \A g \in [D -> Blocks] : \A d \in Blocks : [g EXCEPT ![i] = d] \in [D -> Blocks]
          OBVIOUS
        <4> HIDE DEF PostEntry
        <4> QED
          BY <1>a, <1>f, <1>g, <4>1, Zenon
      <3>2. \A r \in Queues : r # q => slots'[r] \in [0 .. QueueSize(r) - 1 -> Blocks]
        BY <1>g DEF TypeInv, TypeOK
      <3> QED
        BY <3>1, <3>2
    <2>4. \A r \in Queues : /\ head[r] <= tail'[r] /\ tail'[r] <= reserve[r]
                            /\ reserve[r] <= tail'[r] + 1
      BY <1>a, <1>c, <1>d
    <2>5. \A r \in Queues : release[r] <= head[r] /\ reserve[r] <= release[r] + QueueSize(r)
      BY Cursors
    <2>6. dpc' = "idle" /\ dbuf' = 0 /\ dqueue' \in Queues
      BY Sizes
    <2>7. CursorInv'
      BY <1>b, <2>1, <2>2 DEF TypeInv, CursorInv
    <2>8. TypeOK'
      <3> HIDE DEF PostEntry
      <3>1. UNCHANGED <<flagged, userVars, alerts, histories, crashes>>
        BY DEF PostEntry
      <3> QED
        BY <1>b, <2>1, <2>3, <2>4, <2>5, <2>6, <3>1 DEF TypeInv, TypeOK
    <2> QED
      BY <2>7, <2>8 DEF TypeInv
  <1>2. TakerInv'
    BY DEF TakerInv, Taking
  <1>3. DeleteInv'
    BY <1>a, <1>b, <1>c, <1>d DEF DeleteInv
  <1>4. OnceInv'
    <2>1. \A r \in Queues : \A n \in Live(r) : Block(r, n)' # dbuf
      BY <1>a, <1>i DEF OnceInv
    <2>2. \A r, s \in Queues : \A m \in Live(r)', n \in Live(s)' :
              Block(r, m)' = Block(s, n)' => r = s /\ m = n
      BY <1>e, <1>h, <1>i, <2>1 DEF OnceInv
    <2>3. \A r \in Queues : \A n \in Live(r)' : Block(r, n)' \notin owned' \cup lost' \cup refused'
      BY <1>a, <1>b, <1>e, <1>h, <1>i DEF OnceInv
    <2>4. ASSUME NEW c \in Blocks
          PROVE  \/ c \in owned' \cup lost' \cup refused'
                 \/ \E r \in Queues : \E n \in Live(r)' : Block(r, n)' = c
      <3>1. CASE c = dbuf
        BY <1>a, <1>e, <1>h, <3>1
      <3>2. CASE c # dbuf /\ c \in owned \cup lost \cup refused
        BY <1>b, <3>2
      <3>3. CASE \E r \in Queues : \E n \in Live(r) : Block(r, n) = c
        BY <1>e, <1>i, <3>3
      <3> QED
        BY <3>1, <3>2, <3>3 DEF OnceInv
    <2>5. owned' \cap lost' = {} /\ owned' \cap refused' = {} /\ lost' \cap refused' = {}
      BY <1>b DEF OnceInv
    <2> QED
      BY <2>2, <2>3, <2>4, <2>5 DEF OnceInv
  <1>5. CountInv'
    <2>1. Taking' = Taking
      BY DEF Taking
    <2>2. IsFiniteSet(owned)
      BY Homes, FS_Subset DEF TypeInv, TypeOK
    <2>3. Cardinality(owned') = Cardinality(owned) - 1 /\ Cardinality(owned) \in Nat
      BY <1>a, <1>b, <2>2, FS_RemoveElement, FS_CardinalityType
    <2>4. "buffer" \in Queues /\ "emergent" \in Queues /\ (q = "buffer" \/ q = "emergent")
      BY <1>a, Sizes
    <2>5. (tail'["buffer"] - head'["buffer"]) + (tail'["emergent"] - head'["emergent"])
          = (tail["buffer"] - head["buffer"]) + (tail["emergent"] - head["emergent"]) + 1
      BY <1>b, <1>c, <1>d, <2>4
    <2> QED
      BY <1>b, <2>1, <2>3, <2>5, Sums DEF CountInv
  <1>6. HomeInv'
    <2>1. ~torn => dbuf \in Home(q)
      BY <1>0, <1>a DEF HomeInv
    <2>2. \A v \in Taking : Buffer(v)' = Buffer(v)
      <3> TAKE v \in Taking
      <3>1. uqueue[v] \in Queues /\ upos[v] \in Live(uqueue[v]) /\ uqueue' = uqueue /\ upos' = upos
        BY Taken
      <3> QED
        BY <1>i, <3>1 DEF Buffer
    <2>3. /\ Taking' = Taking /\ torn' = torn /\ flagged' = flagged /\ dpc' = "idle"
          /\ upc' = upc /\ uqueue' = uqueue
      BY DEF Taking
    <2>4. \A r \in Queues : \A n \in Live(r)' : ~torn => Block(r, n)' \in Home(r)
      BY <1>e, <1>h, <1>i, <2>1 DEF HomeInv
    <2> QED
      BY <1>b, <2>2, <2>3, <2>4 DEF HomeInv
  <1> QED
    BY <1>1, <1>2, <1>3, <1>4, <1>5, <1>6

\* The blocks in the hands of users are lost; the rest stays where it was.
LEMMA ConsistentInv ==
    ASSUME Inv, Consistent
    PROVE  Inv'
  <1> USE DEF Inv, Consistent, Crash, cursors, userVars, deleteVars, alerts, histories
  <1> DEFINE L == {Buffer(u) : u \in Taking}
  <1>a. /\ release' = head /\ reserve' = tail /\ tail' = tail /\ head' = head /\ slots' = slots
        /\ lost' = lost \cup L /\ owned' = owned /\ refused' = refused /\ flagged' = flagged
        /\ dpc' = "idle" /\ torn' = (torn \/ (dpc = "post" /\ dqueue = "emergent"))
    OBVIOUS
  <1>b. Taking' = {}
    BY DEF Taking
  <1>c. \A r \in Queues : /\ release[r] \in Nat /\ head[r] \in Nat /\ tail[r] \in Nat
                          /\ release[r] <= head[r] /\ head[r] <= tail[r]
                          /\ tail[r] <= reserve[r] /\ reserve[r] <= release[r] + QueueSize(r)
                          /\ reserve[r] \in Nat /\ QueueSize(r) \in Nat
    BY Cursors
  <1>d. \A r, n : Block(r, n)' = Block(r, n)
    BY <1>a DEF Block
  <1>e. \A r \in Queues : \A n : n \in Live(r)' <=> n \in Live(r) /\ n >= head[r]
    BY <1>a, <1>c DEF Live
  <1>f. \A v \in Taking : /\ v \in Users /\ uqueue[v] \in Queues /\ upos[v] \in Nat
                          /\ upos[v] \in Live(uqueue[v]) /\ upos[v] < head[uqueue[v]]
                          /\ Buffer(v) \in Blocks /\ Buffer(v) = Block(uqueue[v], upos[v])
    BY Taken DEF Buffer
  <1> HIDE DEF L
  <1>1. TypeInv'
    <2>1. \A r \in Queues : /\ release'[r] <= head'[r] /\ head'[r] <= tail'[r]
                            /\ tail'[r] <= reserve'[r] /\ reserve'[r] <= tail'[r] + 1
                            /\ reserve'[r] <= release'[r] + QueueSize(r)
      BY <1>a, <1>c
    <2>2. /\ upc' \in [Users -> Steps] /\ uqueue' \in [Users -> Queues] /\ upos' \in [Users -> Nat]
          /\ dqueue' \in Queues /\ crashes' \in 0 .. MaxCrash
      BY Sizes DEF Steps, TypeInv, TypeOK
    <2>3. lost' \subseteq Blocks
      BY <1>a, <1>f DEF L, TypeInv, TypeOK
    <2>4. torn' \in BOOLEAN
      BY <1>a
    <2> QED
      BY <1>a, <2>1, <2>2, <2>3, <2>4 DEF TypeInv, TypeOK, CursorInv, Steps
  <1>2. TakerInv'
    <2>1. \A r \in Queues : release'[r] .. head'[r] - 1 = {}
      BY <1>a, <1>c
    <2>2. \A v \in Users : upc'[v] = "idle"
      OBVIOUS
    <2> QED
      BY <1>b, <2>1, <2>2 DEF TakerInv
  <1>3. DeleteInv'
    BY <1>a DEF DeleteInv
  <1>4. OnceInv'
    <2>1. \A c \in L : c \notin owned \cup lost \cup refused
      BY <1>f DEF OnceInv, L
    <2>2. \A r \in Queues : \A n \in Live(r)' : Block(r, n) \notin L
      <3> TAKE r \in Queues
      <3> TAKE n \in Live(r)'
      <3> SUFFICES ASSUME NEW v \in Taking, Block(r, n) = Buffer(v) PROVE FALSE
        BY DEF L
      <3>1. n \in Live(r) /\ n >= head[r]
        BY <1>e
      <3>2. r = uqueue[v] /\ n = upos[v]
        BY <1>f, <3>1 DEF OnceInv
      <3> QED
        BY <1>c, <1>f, <3>1, <3>2
    <2>3. ASSUME NEW c \in Blocks
          PROVE  \/ c \in owned \cup lost' \cup refused
                 \/ \E r \in Queues : \E n \in Live(r)' : Block(r, n) = c
      <3>1. CASE c \in owned \cup lost \cup refused
        BY <1>a, <3>1
      <3>2. ASSUME NEW r \in Queues, NEW n \in Live(r), Block(r, n) = c, n < head[r]
            PROVE  c \in lost'
        <4>1. n \in release[r] .. head[r] - 1
          BY <1>c, <3>2 DEF Live
        <4>2. PICK v \in Taking : uqueue[v] = r /\ upos[v] = n
          BY <4>1 DEF TakerInv
        <4> QED
          BY <1>a, <1>f, <3>2, <4>2 DEF L
      <3>3. \A r \in Queues : \A n \in Live(r) : n < head[r] \/ n >= head[r]
        BY <1>c DEF Live
      <3> QED
        BY <1>e, <3>1, <3>2, <3>3 DEF OnceInv
    <2> QED
      BY <1>a, <1>d, <1>e, <2>1, <2>2, <2>3 DEF OnceInv
  <1>5. CountInv'
    <2>1. \A v, w \in Taking : Buffer(v) = Buffer(w) => v = w
      <3> TAKE v, w \in Taking
      <3> HAVE Buffer(v) = Buffer(w)
      <3>1. uqueue[v] = uqueue[w] /\ upos[v] = upos[w]
        BY <1>f DEF OnceInv
      <3> QED
        BY <3>1 DEF TakerInv
    <2> DEFINE f == [v \in Taking |-> Buffer(v)]
    <2>2. f \in Bijection(Taking, L)
      <3>1. f \in [Taking -> L]
        BY DEF L
      <3>2. \A v, w \in Taking : f[v] = f[w] => v = w
        BY <2>1
      <3>3. \A c \in L : \E v \in Taking : f[v] = c
        BY DEF L
      <3> QED
        BY <3>1, <3>2, <3>3 DEF Bijection, Injection, Surjection, IsInjective
    <2>3. IsFiniteSet(L) /\ Cardinality(L) = Cardinality(Taking)
      BY <2>2, FS_Bijection DEF ExistsBijection, CountInv
    <2>4. IsFiniteSet(lost)
      BY Homes, FS_Subset DEF TypeInv, TypeOK
    <2>5. lost \cap L = {}
      BY <1>f DEF OnceInv, L
    <2>6. Cardinality(lost') = Cardinality(lost) + Cardinality(Taking)
      <3>1. Cardinality(lost') = Cardinality(lost) + Cardinality(L) - Cardinality(lost \cap L)
        BY <1>a, <2>3, <2>4, FS_Union
      <3>2. Cardinality(lost \cap L) = 0 /\ Cardinality(lost) \in Nat /\ Cardinality(L) \in Nat
        BY <2>3, <2>4, <2>5, FS_EmptySet, FS_CardinalityType
      <3> QED
        BY <2>3, <3>1, <3>2
    <2>7. IsFiniteSet(Taking') /\ Cardinality(Taking') = 0
      BY <1>b, FS_EmptySet
    <2>8. Cardinality(Taking) \in Nat /\ Cardinality(lost) \in Nat
      BY <2>4, FS_CardinalityType DEF CountInv
    <2> QED
      BY <1>a, <2>6, <2>7, <2>8, Sums DEF CountInv
  <1>6. HomeInv'
    <2>1. ~torn' => ~torn /\ (dpc = "post" => dqueue # "emergent")
      BY <1>a DEF TypeInv, TypeOK
    <2>2. ASSUME ~torn', NEW c \in owned \cap Emergent
          PROVE  c \in flagged
      <3>1. CASE dpc = "post" /\ c = dbuf
        <4>1. dbuf \in Home(dqueue) /\ dqueue = "buffer"
          BY <2>1, <2>2, <3>1, Sizes DEF HomeInv, TypeInv, TypeOK
        <4> QED
          BY <3>1, <4>1, Homes
      <3> QED
        BY <2>1, <2>2, <3>1 DEF HomeInv
    <2> QED
      BY <1>a, <1>b, <1>d, <1>e, <2>1, <2>2 DEF HomeInv
  <1> QED
    BY <1>1, <1>2, <1>3, <1>4, <1>5, <1>6

-----------------------------------------------------------------------------
(* The theorems.                                                           *)

\* MemoryPool::Init posts every block once, to its home.
LEMMA InitInv == Init => Inv
  <1> SUFFICES ASSUME Init PROVE Inv
    OBVIOUS
  <1> USE DEF Init
  <1>1. /\ release = [q \in Queues |-> 0] /\ tail = [q \in Queues |-> QueueSize(q)]
        /\ owned = {} /\ lost = {} /\ refused = {} /\ Taking = {}
    BY DEF Taking
  <1>2. /\ \A n \in 0 .. BlockNum - 1 : slots["buffer"][n] = n + 1
        /\ \A n \in 0 .. EmergentNum - 1 : slots["emergent"][n] = BlockNum + n + 1
    BY DEF Queues, QueueSize
  <1>3. CursorInv
    BY Sizes DEF CursorInv
  <1>4. TypeInv
    <2>1. \A q \in Queues : slots[q] \in [0 .. QueueSize(q) - 1 -> Blocks]
      <3>1. slots["buffer"] \in [0 .. QueueSize("buffer") - 1 -> Blocks]
        BY Sizes DEF Queues, QueueSize, Blocks, Regular
      <3>2. slots["emergent"] \in [0 .. QueueSize("emergent") - 1 -> Blocks]
        BY Sizes DEF Queues, QueueSize, Blocks, Emergent
      <3> QED
        BY <3>1, <3>2, Sizes
    <2>2. \A q \in Queues : /\ release[q] <= head[q] /\ head[q] <= tail[q]
                            /\ tail[q] <= reserve[q] /\ reserve[q] <= tail[q] + 1
                            /\ reserve[q] <= release[q] + QueueSize(q)
      BY Sizes
    <2>3. /\ upc \in [Users -> Steps] /\ uqueue \in [Users -> Queues] /\ upos \in [Users -> Nat]
          /\ news \in 0 .. MaxNew /\ crashes \in 0 .. MaxCrash /\ dqueue \in Queues
      BY Sizes DEF Steps
    <2>4. TypeOK
      BY <2>1, <2>2, <2>3 DEF TypeOK, Steps
    <2> QED
      BY <1>3, <2>4 DEF TypeInv
  <1>5. TakerInv
    <2>1. \A q \in Queues : release[q] .. head[q] - 1 = {}
      BY Sizes
    <2> QED
      BY <1>1, <2>1 DEF TakerInv
  <1>6. DeleteInv
    BY DEF DeleteInv
  <1>7. /\ Live("buffer") = 0 .. BlockNum - 1 /\ Live("emergent") = 0 .. EmergentNum - 1
        /\ \A n \in Live("buffer") : Block("buffer", n) = n + 1
        /\ \A n \in Live("emergent") : Block("emergent", n) = BlockNum + n + 1
    <2>1. Live("buffer") = 0 .. BlockNum - 1 /\ Live("emergent") = 0 .. EmergentNum - 1
      BY <1>1, Sizes DEF Live, QueueSize
    <2>2. /\ \A n \in 0 .. BlockNum - 1 : n % BlockNum = n
          /\ \A n \in 0 .. EmergentNum - 1 : n % EmergentNum = n
      <3>1. BlockNum \in Nat \ {0} /\ EmergentNum \in Nat \ {0}
        BY Sizes
      <3>2. \A Q \in Nat \ {0} : \A n \in 0 .. Q - 1 : n % Q = n
        BY FirstLap
      <3> QED
        BY <3>1, <3>2
    <2> QED
      BY <1>2, <2>1, <2>2 DEF Block, QueueSize
  <1>8. OnceInv
    <2>1. \A q, r \in Queues : \A m \in Live(q), n \in Live(r) :
              Block(q, m) = Block(r, n) => q = r /\ m = n
      <3> TAKE q, r \in Queues
      <3> TAKE m \in Live(q), n \in Live(r)
      <3> HAVE Block(q, m) = Block(r, n)
      <3>1. /\ q = "buffer" => m \in 0 .. BlockNum - 1 /\ Block(q, m) = m + 1
            /\ q = "emergent" => m \in 0 .. EmergentNum - 1 /\ Block(q, m) = BlockNum + m + 1
        BY <1>7
      <3>2. /\ r = "buffer" => n \in 0 .. BlockNum - 1 /\ Block(r, n) = n + 1
            /\ r = "emergent" => n \in 0 .. EmergentNum - 1 /\ Block(r, n) = BlockNum + n + 1
        BY <1>7
      <3> QED
        BY <3>1, <3>2, Sizes
    <2>2. ASSUME NEW b \in Blocks PROVE \E q \in Queues : \E n \in Live(q) : Block(q, n) = b
      <3>1. CASE b \in Regular
        <4>1. b - 1 \in Live("buffer") /\ Block("buffer", b - 1) = b
          <5>1. b \in Nat /\ b >= 1 /\ b <= BlockNum
            BY <3>1, Sizes DEF Regular
          <5>2. b - 1 \in Live("buffer")
            BY <1>7, <5>1, Sizes
          <5> QED
            BY <1>7, <5>1, <5>2
        <4> QED
          BY <4>1, Sizes
      <3>2. CASE b \in Emergent
        <4>1. /\ b - BlockNum - 1 \in Live("emergent")
              /\ Block("emergent", b - BlockNum - 1) = b
          BY <1>7, <3>2, Sizes DEF Emergent
        <4> QED
          BY <4>1, Sizes
      <3> QED
        BY <3>1, <3>2 DEF Blocks
    <2> QED
      BY <1>1, <2>1, <2>2 DEF OnceInv
  <1>9. CountInv
    <2>1. IsFiniteSet({}) /\ Cardinality({}) = 0
      BY FS_EmptySet
    <2>2. Cardinality(Regular) = BlockNum /\ Cardinality(Emergent) = EmergentNum
      BY Homes, Sizes DEF QueueSize
    <2>3. Cardinality(Blocks) = BlockNum + EmergentNum
      <3>1. IsFiniteSet(Regular) /\ IsFiniteSet(Emergent) /\ Regular \cap Emergent = {}
        BY Homes, Sizes
      <3>2. Cardinality(Blocks) = Cardinality(Regular) + Cardinality(Emergent)
                                  - Cardinality(Regular \cap Emergent)
        BY <3>1, FS_Union DEF Blocks
      <3>3. Cardinality(Regular \cap Emergent) = 0
        BY <2>1, <3>1
      <3>4. BlockNum + EmergentNum - 0 = BlockNum + EmergentNum
        BY Sizes
      <3> QED
        BY <2>2, <3>2, <3>3, <3>4
    <2>4. /\ tail["buffer"] = BlockNum /\ head["buffer"] = 0
          /\ tail["emergent"] = EmergentNum /\ head["emergent"] = 0
      BY Sizes DEF QueueSize
    <2> QED
      BY <1>1, <2>1, <2>3, <2>4, Sizes DEF CountInv
  <1>10. HomeInv
    <2>1. \A q \in Queues : \A n \in Live(q) : Block(q, n) \in Home(q)
      BY <1>7, Sizes DEF Home, Regular, Emergent
    <2> QED
      BY <1>1, <2>1 DEF HomeInv
  <1> QED
    BY <1>4, <1>5, <1>6, <1>8, <1>9, <1>10 DEF Inv

\* The three calls of WaitEntry.
LEMMA WaitInv ==
    ASSUME Inv, NEW u \in Users, NewBuffer(u) \/ WaitEmergent(u) \/ WaitRegular(u)
    PROVE  Inv'
  <1>1. PICK q \in Queues, from \in Steps \ {"mark", "free"}, taken \in {"mark", "free"},
             empty \in Steps \ {"mark", "free"} :
                 /\ WaitEntry(u, q, from, taken, empty)
                 /\ taken = IF q = "emergent" THEN "mark" ELSE "free"
    <2>1. CASE NewBuffer(u)
      BY <2>1 DEF NewBuffer, Queues, Steps
    <2>2. CASE WaitEmergent(u)
      BY <2>2 DEF WaitEmergent, Queues, Steps
    <2>3. CASE WaitRegular(u)
      BY <2>3 DEF WaitRegular, Queues, Steps
    <2> QED
      BY <2>1, <2>2, <2>3
  <1>2. CASE head[q] < tail[q]
    BY <1>1, <1>2, WaitTakenInv
  <1>3. CASE ~(head[q] < tail[q])
    BY <1>1, <1>3, WaitEmptyInv
  <1> QED
    BY <1>2, <1>3

\* Every step preserves the invariant.
LEMMA NextInv == Inv /\ [Next]_vars => Inv'
  <1> SUFFICES ASSUME Inv, [Next]_vars PROVE Inv'
    OBVIOUS
  <1>1. ASSUME NEW u \in Users, NEW first \in {"new", "emergent"}, CallNew(u, first) PROVE Inv'
    BY <1>1, CallNewInv
  <1>2. ASSUME NEW u \in Users, NewStep(u) PROVE Inv'
    <2>1. CASE NewBuffer(u) \/ WaitEmergent(u) \/ WaitRegular(u)
      BY <2>1, WaitInv
    <2>2. CASE CheckAlert(u)
      BY <2>2, CheckAlertInv
    <2>3. CASE ClearAlert(u)
      BY <2>3, ClearAlertInv
    <2>4. CASE SetEmergentFlag(u)
      BY <2>4, SetEmergentFlagInv
    <2>5. CASE FreeEntry(u)
      BY <2>5, FreeEntryInv
    <2> QED
      BY <1>2, <2>1, <2>2, <2>3, <2>4, <2>5 DEF NewStep
  <1>3. CASE ReleaseAllocThread \/ ReleaseAllocThreadAlways
    BY <1>3, AlertInv
  <1>4. ASSUME NEW b \in Blocks, DeleteBuffer(b) PROVE Inv'
    BY <1>4, DeleteBufferInv
  <1>5. CASE DeleteStep
    <2>1. CASE DoubleDelete
      BY <2>1, DoubleDeleteInv
    <2>2. CASE AllocEntry
      BY <2>2, AllocEntryInv
    <2>3. CASE Reset
      BY <2>3, ResetInv
    <2>4. CASE PostEntry
      BY <2>4, PostEntryInv
    <2> QED
      BY <1>5, <2>1, <2>2, <2>3, <2>4 DEF DeleteStep
  <1>6. CASE Consistent
    BY <1>6, ConsistentInv
  <1>7. CASE UNCHANGED vars
    <2> USE <1>7 DEF vars, cursors, userVars, deleteVars, alerts, histories
    <2>1. TypeInv'
      BY DEF Inv, TypeInv, TypeOK, CursorInv
    <2>2. TakerInv' /\ DeleteInv' /\ CountInv'
      BY DEF Inv, TakerInv, DeleteInv, CountInv, Taking
    <2>3. OnceInv'
      BY DEF Inv, OnceInv, Live, Block
    <2>4. HomeInv'
      BY DEF Inv, HomeInv, Live, Block, Buffer, Taking
    <2> QED
      BY <2>1, <2>2, <2>3, <2>4 DEF Inv
  <1> QED
    BY <1>1, <1>2, <1>3, <1>4, <1>5, <1>6, <1>7 DEF Next

\* The inductive invariant holds in every state of the pool.
THEOREM Invariance == Spec => []Inv
  BY InitInv, NextInv, PTL DEF Spec

\* The cursors of both queues stay in order and every entry holds a block, through
\* concurrent NewBuffer and DeleteBuffer and after Consistent.
THEOREM TypeCorrect == Spec => []TypeOK
  <1>1. Inv => TypeOK
    BY DEF Inv, TypeInv
  <1> QED
    BY <1>1, Invariance, PTL

\* What EachBlockOnce says follows from the live entries: those from head on are the
\* free blocks, those before head are in the hands of users.
LEMMA OnceFromInv == Inv => EachBlockOnce
  <1> SUFFICES ASSUME Inv PROVE EachBlockOnce
    OBVIOUS
  <1> USE DEF Inv
  <1> DEFINE taken == {Buffer(u) : u \in Taking}
             all == Available("buffer") \cup Available("emergent") \cup taken
                        \cup owned \cup lost \cup refused
  <1>1. ASSUME NEW q \in Queues
        PROVE  Available(q) \subseteq Blocks /\ \A n \in Live(q) : Block(q, n) \in all
    <2>1. /\ release[q] \in Nat /\ head[q] \in Nat /\ tail[q] \in Nat /\ release[q] <= head[q]
          /\ head[q] <= tail[q]
      BY Cursors
    <2>2. \A n \in head[q] .. tail[q] - 1 : n \in Nat
      BY <2>1
    <2>3. Available(q) \subseteq Blocks
      BY <2>2, BlockType DEF Available
    <2>4. ASSUME NEW n \in Live(q) PROVE Block(q, n) \in all
      <3>1. CASE n < head[q]
        <4>1. n \in release[q] .. head[q] - 1
          BY <2>1, <3>1 DEF Live
        <4>2. PICK u \in Taking : uqueue[u] = q /\ upos[u] = n
          BY <4>1 DEF TakerInv
        <4> QED
          BY <4>2 DEF Buffer
      <3>2. CASE n >= head[q]
        <4>1. n \in head[q] .. tail[q] - 1
          BY <2>1, <3>2 DEF Live
        <4>2. Block(q, n) \in Available(q)
          BY <4>1 DEF Available
        <4> QED
          BY <4>2, Sizes
      <3> QED
        BY <2>1, <3>1, <3>2 DEF Live
    <2> QED
      BY <2>3, <2>4
  <1>2. Blocks \subseteq all
    BY <1>1 DEF OnceInv
  <1>3. taken \subseteq Blocks
    BY Taken
  <1>4. all \subseteq Blocks
    BY <1>1, <1>3, Sizes DEF TypeInv, TypeOK
  <1> QED
    BY <1>2, <1>4 DEF EachBlockOnce, CountInv

\* No block is ever in two places and none disappears, whatever the threads do and
\* wherever they crash.
THEOREM BlockInOnePlace == Spec => []EachBlockOnce
  BY Invariance, OnceFromInv, PTL

\* As long as no crash hit a DeleteBuffer between Reset and PostEntry of an emergent
\* block, the free blocks of each queue are its own.
THEOREM ReserveKept == Spec => []EmergentReserveKept
  <1>1. Inv => EmergentReserveKept
    <2> SUFFICES ASSUME Inv, ~torn
                 PROVE  /\ Available("buffer") \subseteq Regular
                        /\ Available("emergent") \subseteq Emergent
      BY DEF EmergentReserveKept
    <2>1. ASSUME NEW q \in Queues PROVE Available(q) \subseteq Home(q)
      <3>1. /\ release[q] \in Nat /\ head[q] \in Nat /\ tail[q] \in Nat /\ release[q] <= head[q]
        BY Cursors DEF Inv
      <3>2. \A n \in head[q] .. tail[q] - 1 : n \in Live(q)
        BY <3>1 DEF Live
      <3> QED
        BY <3>2 DEF Available, Inv, HomeInv
    <2> QED
      BY <2>1, Homes, Sizes
  <1> QED
    BY <1>1, Invariance, PTL

\* Until such a crash DeleteBuffer refuses no block an application holds.
THEOREM DeleteTaken == Spec => []DeleteAccepted
  <1>1. Inv => DeleteAccepted
    BY DEF Inv, HomeInv, DeleteAccepted
  <1> QED
    BY <1>1, Invariance, PTL
=============================================================================
