--------------------------- MODULE MsgQueueProofs ---------------------------
(***************************************************************************)
(* What is proved of MsgQueue, for all sizes, all threads and all          *)
(* combinations of calls that the assumption allows: the cursors stay in   *)
(* order (TypeOK), every reserved number is held by one producer           *)
(* (ReservedIsHeld), no entry is in two hands (NoSharing), and the queue   *)
(* implements RedeliveryQueue.                                             *)
(*                                                                         *)
(* The argument: every bound a thread works with was computed from a       *)
(* release or a tail that has only grown since (BoundInv); hence a number  *)
(* for which there was room is less than QueueSize ahead of release        *)
(* (StepInv), and numbers of one lap have slots of their own               *)
(* (SlotInjective).                                                        *)
(***************************************************************************)
EXTENDS MsgQueue, FiniteSetTheorems, TLAPS

-----------------------------------------------------------------------------
(* The inductive invariant.                                                *)

\* A number is held by the producers that fill its entry, and by those of
\* GetFreeEntryExp that have taken it before they look for room.
Holds(p) == \/ ppc[p] \in {"write", "post"}
            \/ setup.prod = "exp" /\ ppc[p] \in {"refresh", "bound", "rollback"}

Uses(c) == cpc[c] \in {"held", "head", "free"}

\* The classes whose entries one thread takes and frees, one after the other.
OneConsumer == setup.cons \in {"peek", "pop", "reorder", "seq"}

\* The bounds the objects hold, and the cursors threads have read, are old values.
BoundInv ==
    /\ 1 <= release /\ (~Numbered => tail <= reserve)
    /\ \A p \in Producers : /\ reserve_threshold[p] <= release + QueueSize
                            /\ read_release[p] <= release
    /\ \A c \in Consumers : head_threshold[c] <= tail /\ read_tail[c] <= tail

\* Which steps belong to which kind of producer, and what its number is there.
StepInv ==
    \A p \in Producers :
        /\ ppc[p] \in {"cas", "alloc", "write", "post"} => pnum[p] < release + QueueSize
        /\ ppc[p] = "cas" => setup.prod = "cas"
        /\ ppc[p] = "alloc" => setup.prod = "single"
        /\ ppc[p] = "rollback" => setup.prod = "exp"
        /\ setup.prod = "single" /\ ppc[p] # "idle" => p = Producer1
        /\ setup.prod = "single" /\ ppc[p] \in {"refresh", "bound", "alloc"} => pnum[p] = reserve
        /\ Numbered /\ ppc[p] \notin {"idle", "room"} => pnum[p] = pmsg[p]

\* Every call of Push has a message of its own, which is not sent before the end.
MessageInv ==
    \A p \in Producers : ppc[p] # "idle" =>
        /\ 1 <= pmsg[p] /\ pmsg[p] <= pushes
        /\ \A n \in Nat : <<n, pmsg[p]>> \notin sent
        /\ \A q \in Producers : ppc[q] # "idle" /\ p # q => pmsg[p] # pmsg[q]

\* ReservedIsHeld, number by number.
HeldInv ==
    ~Numbered =>
        /\ \A p \in Producers : Holds(p) => tail <= pnum[p] /\ pnum[p] < reserve
        /\ \A n \in Nat : tail <= n /\ n < reserve => \E p \in Producers : Holds(p) /\ pnum[p] = n
        /\ \A p, q \in Producers : Holds(p) /\ Holds(q) /\ p # q => pnum[p] # pnum[q]

\* What was sent: the numbers up to tail, or the numbers of the application.
SentInv ==
    /\ sent \subseteq Nat \X Nat
    /\ \A n, m \in Nat : <<n, m>> \in sent => 1 <= n /\ 1 <= m /\ m <= pushes
    /\ \A i, j, m, n \in Nat : <<i, m>> \in sent /\ <<j, n>> \in sent /\ (i = j \/ m = n)
                                   => i = j /\ m = n
    /\ ~Numbered => /\ \A n, m \in Nat : <<n, m>> \in sent => n < tail
                    /\ \A n \in Nat : 1 <= n /\ n < tail => \E m \in Nat : <<n, m>> \in sent
    /\ Numbered => /\ \A n, m \in Nat : <<n, m>> \in sent => n = m
                   /\ \A n \in Nat : 1 <= n /\ n < release => <<n, n>> \in sent

\* The entry of a message that is about to be posted is complete.
PostInv ==
    \A p \in Producers : ppc[p] = "post" =>
        /\ Entry(pnum[p]).msg = pmsg[p]
        /\ setup.prod \in {"cas", "single"} => Entry(pnum[p]).pos = pnum[p]

\* The entry of a message that is not released holds it, and its pos names it
\* where the consumers rely on that.
EntryInv ==
    \A n, m \in Nat : <<n, m>> \in sent /\ release <= n =>
        /\ n < release + QueueSize
        /\ Entry(n).msg = m
        /\ setup.prod \in {"cas", "single", "seq"} => Entry(n).pos = n
        /\ setup.prod = "reorder" => Entry(n).pos = -n

\* The pos by which RecorderWaitEntry knows that a message has come is that of a
\* message that was sent.
SignInv ==
    \A i \in 0 .. QueueSize - 1 :
        /\ setup.prod = "reorder" /\ slots[i].pos < 0 =>
               \E n \in Nat : slots[i].pos = -n /\ release <= n /\ Slot(n) = i /\ <<n, n>> \in sent
        /\ setup.prod = "seq" /\ slots[i].pos # 0 =>
               \E n \in Nat : slots[i].pos = n /\ <<n, n>> \in sent

\* Which steps belong to which kind of consumer, and what it holds there.
UseInv ==
    \A c \in Consumers :
        /\ cpc[c] \in {"again", "tail", "bound", "cas"} => setup.cons = "multi"
        /\ cpc[c] = "cas" => cnum[c] < tail
        /\ cpc[c] = "head" => setup.cons = "peek"
        /\ Uses(c) => /\ release <= cnum[c]
                      /\ cnum[c] <= head
                      /\ setup.cons # "peek" => cnum[c] < head
                      /\ \E m \in Nat : <<cnum[c], m>> \in sent
        /\ cpc[c] \in {"head", "free"} => \E m \in Nat : <<cnum[c], m>> \in handled

\* No two consumers hold one entry.
DistinctInv ==
    \A c, d \in Consumers : Uses(c) /\ Uses(d) /\ c # d => cnum[c] # cnum[d]

\* A consumer that is alone in its role is at most one entry ahead of release.
OneInv ==
    OneConsumer =>
        /\ \A c \in Consumers : c # Consumer1 => cpc[c] = "idle"
        /\ cpc[Consumer1] = "idle" => head = release
        /\ Uses(Consumer1) =>
               /\ cnum[Consumer1] = release
               /\ head = IF setup.cons = "peek" /\ cpc[Consumer1] # "free"
                         THEN release ELSE release + 1

Inv == /\ TypeOK /\ BoundInv /\ StepInv /\ MessageInv /\ HeldInv /\ SentInv /\ PostInv
       /\ EntryInv /\ SignInv /\ UseInv /\ DistinctInv /\ OneInv
-----------------------------------------------------------------------------
(* The constants, the ring and the setups.                                 *)

\* A positive multiple of Q is at least Q.
LEMMA MultipleAtLeast ==
    ASSUME NEW k \in Int, NEW Q \in Nat \ {0}, k >= 1
    PROVE  Q * k >= Q
  BY SMT

\* Numbers less than Q apart that are equal modulo Q are equal.
LEMMA ModuloInjective ==
    ASSUME NEW Q \in Nat \ {0}, NEW m \in Nat, NEW n \in Nat,
           m % Q = n % Q, m <= n, n < m + Q
    PROVE  m = n
  <1> DEFINE a == m \div Q
             b == n \div Q
  <1>1. a \in Int /\ b \in Int /\ m = (Q * a) + (m % Q) /\ n = (Q * b) + (n % Q)
    BY SMT
  <1> HIDE DEF a, b
  <1>2. n - m = Q * (b - a) /\ b - a \in Int
    BY <1>1, SMT
  <1>3. CASE b - a >= 1
    BY <1>2, <1>3, MultipleAtLeast, SMT
  <1>4. CASE b - a = 0
    BY <1>1, <1>4, SMT
  <1>5. CASE b - a <= -1
    <2>1. Q * (-(b - a)) >= Q
      BY <1>2, <1>5, MultipleAtLeast
    <2>2. Q * (-(b - a)) = -(n - m)
      BY <1>1, <1>2, SMT
    <2> QED
      BY <2>1, <2>2, SMT
  <1> QED
    BY <1>2, <1>3, <1>4, <1>5, SMT

\* The bounds are numbers.
LEMMA Sizes ==
    QueueSize \in Nat /\ QueueSize >= 1 /\ MaxPush \in Nat /\ MaxCrash \in Nat
  BY MsgQueueAssumption

\* GetInQueueIndex gives a slot of the ring,
LEMMA SlotType == \A n \in Nat : Slot(n) \in 0 .. QueueSize - 1
  BY MsgQueueAssumption, SMT DEF Slot

\* and gives numbers of one lap different slots.
LEMMA SlotInjective ==
    ASSUME NEW a \in Nat, NEW m \in Nat, NEW n \in Nat,
           a <= m, m < a + QueueSize, a <= n, n < a + QueueSize, Slot(m) = Slot(n)
    PROVE  m = n
  <1>1. \A i, j \in Nat : Slot(i) = Slot(j) /\ i <= j /\ j < i + QueueSize => i = j
    BY ModuloInjective, MsgQueueAssumption DEF Slot
  <1> QED
    BY <1>1, Sizes

\* What the combinations of calls have in common.
LEMMA SetupFacts ==
    ASSUME TypeOK
    PROVE  /\ setup.prod \in ProdKinds /\ setup.cons \in ConsKinds
           /\ setup.prod = "reorder" <=> setup.cons = "reorder"
           /\ setup.prod = "seq" <=> setup.cons = "seq"
           /\ setup.prod = "exp" => setup.cons = "pop"
           /\ Producer1 \in Producers /\ Consumer1 \in Consumers
           /\ \A p \in Producers : ProdObject(p) \in Producers
           /\ \A c \in Consumers : ConsObject(c) \in Consumers
  <1>1. Producer1 \in Producers /\ Consumer1 \in Consumers
    BY MsgQueueAssumption DEF Producer1, Consumer1
  <1>2. setup \in [prod : ProdKinds, cons : ConsKinds, shared : BOOLEAN]
    BY MsgQueueAssumption DEF TypeOK
  <1>3. \A numbered \in {"reorder", "seq"} : setup.prod = numbered <=> setup.cons = numbered
    BY MsgQueueAssumption DEF TypeOK
  <1>4. setup.prod = "exp" => setup.cons = "pop"
    BY MsgQueueAssumption DEF TypeOK
  <1> QED
    BY <1>1, <1>2, <1>3, <1>4 DEF ProdObject, ConsObject

\* Where a producer goes that has found room.
LEMMA GrantedFacts ==
    ASSUME TypeOK
    PROVE  /\ setup.prod = "cas" => Granted = "cas"
           /\ setup.prod = "single" => Granted = "alloc"
           /\ setup.prod \in {"exp", "reorder", "seq"} => Granted = "write"
           /\ Granted \in {"cas", "alloc", "write"}
  BY SetupFacts DEF Granted, ProdKinds

-----------------------------------------------------------------------------
(* The parts of the invariant as functions of the variables they mention.  *)

\* What a step has to show for the types.
LEMMA TypeKept ==
    ASSUME TypeOK, setup' = setup,
           reserve' \in Nat, tail' \in Nat, head' \in Nat, release' \in Nat,
           release' <= head', head' <= release' + QueueSize,
           ~Numbered => head' <= tail' /\ tail' <= release' + QueueSize,
           slots' \in [0 .. QueueSize - 1 -> [pos : Int, msg : 0 .. MaxPush]],
           ppc' \in [Producers -> ProdSteps], cpc' \in [Consumers -> ConsSteps],
           pnum' \in [Producers -> Nat], cnum' \in [Consumers -> Nat],
           pmsg' \in [Producers -> 0 .. MaxPush], pushes' \in 0 .. MaxPush,
           read_release' \in [Producers -> Nat], read_tail' \in [Consumers -> Nat],
           reserve_threshold' \in [Producers -> Nat], head_threshold' \in [Consumers -> Nat],
           crashes' \in 0 .. MaxCrash
    PROVE  TypeOK'
  BY DEF TypeOK, Numbered

\* StepInv depends on these variables only.
LEMMA StepInvFrame ==
    ASSUME StepInv, UNCHANGED <<setup, ppc, pnum, pmsg, reserve, release>>
    PROVE  StepInv'
  BY DEF StepInv, Numbered

\* MessageInv depends on these variables only.
LEMMA MessageInvFrame ==
    ASSUME MessageInv, UNCHANGED <<ppc, pmsg, pushes, sent>>
    PROVE  MessageInv'
  BY DEF MessageInv

\* HeldInv depends on these variables only.
LEMMA HeldInvFrame ==
    ASSUME HeldInv, UNCHANGED <<setup, ppc, pnum, tail, reserve>>
    PROVE  HeldInv'
  BY DEF HeldInv, Numbered, Holds

\* SentInv depends on these variables only.
LEMMA SentInvFrame ==
    ASSUME SentInv, UNCHANGED <<setup, sent, tail, release, pushes>>
    PROVE  SentInv'
  BY DEF SentInv, Numbered

\* PostInv depends on these variables only.
LEMMA PostInvFrame ==
    ASSUME PostInv, UNCHANGED <<setup, ppc, pnum, pmsg, slots>>
    PROVE  PostInv'
  BY DEF PostInv, Entry, Slot

\* EntryInv depends on these variables only.
LEMMA EntryInvFrame ==
    ASSUME EntryInv, UNCHANGED <<setup, slots, sent, release>>
    PROVE  EntryInv'
  BY DEF EntryInv, Entry, Slot

\* SignInv depends on these variables only.
LEMMA SignInvFrame ==
    ASSUME SignInv, UNCHANGED <<setup, slots, sent, release>>
    PROVE  SignInv'
  BY DEF SignInv, Slot

\* UseInv depends on these variables only.
LEMMA UseInvFrame ==
    ASSUME UseInv, UNCHANGED <<setup, cpc, cnum, head, tail, release, sent, handled>>
    PROVE  UseInv'
  BY DEF UseInv, Uses

\* DistinctInv depends on these variables only.
LEMMA DistinctInvFrame ==
    ASSUME DistinctInv, UNCHANGED <<cpc, cnum>>
    PROVE  DistinctInv'
  BY DEF DistinctInv, Uses

\* OneInv depends on these variables only.
LEMMA OneInvFrame ==
    ASSUME OneInv, UNCHANGED <<setup, cpc, cnum, head, release>>
    PROVE  OneInv'
  BY DEF OneInv, Uses, OneConsumer

\* More messages do not matter to what consumers hold.
LEMMA UseGrows ==
    ASSUME UseInv, UNCHANGED <<setup, cpc, cnum, head, release, handled>>, cnum \in [Consumers -> Nat],
           tail \in Nat, tail' \in Nat, tail <= tail', sent \subseteq sent'
    PROVE  UseInv'
  BY DEF UseInv, Uses

\* A step after which the same producers hold the same numbers.
LEMMA HeldKept ==
    ASSUME HeldInv, UNCHANGED <<setup, tail, reserve>>,
           ~Numbered => \A q \in Producers : /\ Holds(q)' <=> Holds(q)
                                             /\ Holds(q) => pnum'[q] = pnum[q]
    PROVE  HeldInv'
  BY DEF HeldInv, Numbered

\* A producer takes the next number.
LEMMA HeldTaken ==
    ASSUME HeldInv, UNCHANGED <<setup, tail>>, reserve \in Nat, tail \in Nat, tail <= reserve,
           reserve' = reserve + 1, pnum \in [Producers -> Nat],
           NEW p \in Producers, ~Holds(p), Holds(p)', pnum'[p] = reserve,
           \A q \in Producers : q # p => (Holds(q)' <=> Holds(q)) /\ pnum'[q] = pnum[q]
    PROVE  HeldInv'
  <1> SUFFICES ASSUME ~Numbered
               PROVE  /\ \A q \in Producers : Holds(q)' => tail <= pnum'[q] /\ pnum'[q] < reserve'
                      /\ \A n \in Nat : tail <= n /\ n < reserve' =>
                             \E q \in Producers : Holds(q)' /\ pnum'[q] = n
                      /\ \A q, r \in Producers : Holds(q)' /\ Holds(r)' /\ q # r => pnum'[q] # pnum'[r]
    BY DEF HeldInv, Numbered
  <1>1. \A q \in Producers : Holds(q)' => tail <= pnum'[q] /\ pnum'[q] < reserve'
    BY DEF HeldInv
  <1>2. \A n \in Nat : tail <= n /\ n < reserve' => \E q \in Producers : Holds(q)' /\ pnum'[q] = n
    <2> TAKE n \in Nat
    <2> HAVE tail <= n /\ n < reserve'
    <2>1. CASE n = reserve
      BY <2>1
    <2>2. CASE n < reserve
      <3>1. PICK q \in Producers : Holds(q) /\ pnum[q] = n
        BY <2>2 DEF HeldInv
      <3> QED
        BY <3>1
    <2> QED
      BY <2>1, <2>2
  <1>3. \A q, r \in Producers : Holds(q)' /\ Holds(r)' /\ q # r => pnum'[q] # pnum'[r]
    BY DEF HeldInv
  <1> QED
    BY <1>1, <1>2, <1>3

\* The producer of the last number gives it back.
LEMMA HeldGivenBack ==
    ASSUME HeldInv, ~Numbered, UNCHANGED <<setup, tail, pnum>>, reserve \in Nat, tail \in Nat,
           pnum \in [Producers -> Nat], NEW p \in Producers, Holds(p), ~Holds(p)',
           reserve = pnum[p] + 1, reserve' = pnum[p],
           \A q \in Producers : q # p => (Holds(q)' <=> Holds(q))
    PROVE  HeldInv' /\ tail <= reserve'
  <1>1. \A q \in Producers : Holds(q)' => tail <= pnum'[q] /\ pnum'[q] < reserve'
    BY DEF HeldInv
  <1>2. \A n \in Nat : tail <= n /\ n < reserve' => \E q \in Producers : Holds(q)' /\ pnum'[q] = n
    <2> TAKE n \in Nat
    <2> HAVE tail <= n /\ n < reserve'
    <2>1. PICK q \in Producers : Holds(q) /\ pnum[q] = n
      BY DEF HeldInv
    <2> QED
      BY <2>1
  <1>3. \A q, r \in Producers : Holds(q)' /\ Holds(r)' /\ q # r => pnum'[q] # pnum'[r]
    BY DEF HeldInv
  <1>4. tail <= reserve'
    BY DEF HeldInv
  <1> QED
    BY <1>1, <1>2, <1>3, <1>4 DEF HeldInv, Numbered

\* The entry a producer fills lies in the lap that starts at release, and is no
\* other producer's and no entry of a message that is not released.
LEMMA WritersApart ==
    ASSUME Inv, NEW p \in Producers, ppc[p] \in {"write", "post"}
    PROVE  /\ release <= pnum[p] /\ pnum[p] < release + QueueSize /\ pnum[p] \in Nat
           /\ \A q \in Producers : ppc[q] \in {"write", "post"} /\ q # p =>
                  pnum[p] # pnum[q] /\ Slot(pnum[p]) # Slot(pnum[q])
           /\ \A n, m \in Nat : <<n, m>> \in sent /\ release <= n =>
                  n # pnum[p] /\ Slot(n) # Slot(pnum[p])
  <1> USE DEF Inv
  <1>1. \A q \in Producers : ppc[q] \in {"write", "post"} =>
            /\ release <= pnum[q] /\ pnum[q] < release + QueueSize /\ pnum[q] \in Nat
            /\ \A n, m \in Nat : <<n, m>> \in sent => n # pnum[q]
    <2> TAKE q \in Producers
    <2> HAVE ppc[q] \in {"write", "post"}
    <2>1. pnum[q] < release + QueueSize /\ pnum[q] \in Nat /\ release \in Nat /\ pmsg[q] \in Nat
      BY Sizes DEF StepInv, TypeOK
    <2>2. CASE Numbered
      <3>1. pnum[q] = pmsg[q] /\ 1 <= pnum[q] /\ \A n \in Nat : <<n, pmsg[q]>> \notin sent
        BY <2>2 DEF StepInv, MessageInv
      <3>2. ~(pnum[q] < release)
        BY <2>1, <2>2, <3>1 DEF SentInv
      <3>3. \A n, m \in Nat : <<n, m>> \in sent => n # pnum[q]
        BY <2>1, <2>2, <3>1 DEF SentInv
      <3> QED
        BY <2>1, <3>2, <3>3
    <2>3. CASE ~Numbered
      <3>1. tail <= pnum[q] /\ release <= tail /\ tail \in Nat
        BY <2>3 DEF HeldInv, Holds, TypeOK
      <3>2. \A n, m \in Nat : <<n, m>> \in sent => n < tail
        BY <2>3 DEF SentInv
      <3> QED
        BY <2>1, <3>1, <3>2
    <2> QED
      BY <2>2, <2>3
  <1>2. \A q \in Producers : ppc[q] \in {"write", "post"} /\ q # p => pnum[p] # pnum[q]
    <2>1. CASE Numbered
      BY <2>1 DEF StepInv, MessageInv
    <2>2. CASE ~Numbered
      BY <2>2 DEF HeldInv, Holds
    <2> QED
      BY <2>1, <2>2
  <1>3. release \in Nat
    BY DEF TypeOK
  <1>4. \A q \in Producers : ppc[q] \in {"write", "post"} /\ q # p => Slot(pnum[p]) # Slot(pnum[q])
    BY <1>1, <1>2, <1>3, SlotInjective
  <1>5. \A n, m \in Nat : <<n, m>> \in sent /\ release <= n => Slot(n) # Slot(pnum[p])
    <2> TAKE n, m \in Nat
    <2> HAVE <<n, m>> \in sent /\ release <= n
    <2>1. n < release + QueueSize
      BY DEF EntryInv
    <2>2. n # pnum[p]
      BY <1>1
    <2> QED
      BY <1>1, <1>3, <2>1, <2>2, SlotInjective
  <1> QED
    BY <1>1, <1>2, <1>4, <1>5

\* The bounds stay good when release moves on.
LEMMA ReleaseBounds ==
    ASSUME TypeOK, BoundInv, release' \in Nat, release <= release',
           UNCHANGED <<setup, tail, reserve, reserve_threshold, read_release, head_threshold,
                       read_tail>>
    PROVE  BoundInv'
  <1>1. \A p \in Producers : reserve_threshold[p] <= release' + QueueSize /\ read_release[p] <= release'
    BY Sizes DEF BoundInv, TypeOK
  <1>2. 1 <= release'
    BY DEF BoundInv, TypeOK
  <1> QED
    BY <1>1, <1>2 DEF BoundInv, Numbered

\* Producers keep their room when release moves on.
LEMMA ReleaseSteps ==
    ASSUME TypeOK, StepInv, release' \in Nat, release <= release',
           UNCHANGED <<setup, ppc, pnum, pmsg, reserve>>
    PROVE  StepInv'
  <1>1. \A p \in Producers : ppc[p] \in {"cas", "alloc", "write", "post"} =>
            pnum[p] < release' + QueueSize
    BY Sizes DEF StepInv, TypeOK
  <1> QED
    BY <1>1 DEF StepInv, Numbered

\* Messages that are not released keep their entries when release moves on.
LEMMA ReleaseEntries ==
    ASSUME TypeOK, EntryInv, release' \in Nat, release <= release', UNCHANGED <<setup, slots, sent>>
    PROVE  EntryInv'
  <1>0. release \in Nat
    BY DEF TypeOK
  <1>1. \A n, r, s \in Nat : r <= s /\ s <= n => r <= n /\ (n < r + QueueSize => n < s + QueueSize)
    BY Sizes
  <1>2. \A n \in Nat : release' <= n =>
            release <= n /\ (n < release + QueueSize => n < release' + QueueSize)
    BY <1>0, <1>1
  <1> QED
    BY <1>2 DEF EntryInv, Entry, Slot

\* Entries are freed in the order of their numbers: the end of Pop, which does
\* not look, has the only entry; the others wait for the pos of theirs.
LEMMA FreedInOrder ==
    ASSUME Inv, NEW c \in Consumers, FreeEntry(c)
    PROVE  cnum[c] = release
  <1> USE DEF Inv, FreeEntry
  <1>1. cpc[c] = "free" /\ ~Numbered /\ Uses(c) /\ cnum[c] \in Nat
    BY DEF Uses, TypeOK
  <1>2. CASE setup.cons = "pop"
    BY <1>1, <1>2 DEF OneInv, OneConsumer
  <1>3. CASE setup.cons # "pop"
    <2>1. setup.prod \in {"cas", "single"}
      BY <1>1, <1>3, SetupFacts DEF ProdKinds, Numbered
    <2>2. release <= cnum[c] /\ \E m \in Nat : <<cnum[c], m>> \in sent
      BY <1>1 DEF UseInv
    <2>3. Entry(cnum[c]).pos = cnum[c]
      BY <1>1, <2>1, <2>2 DEF EntryInv
    <2> QED
      BY <1>3, <2>3
  <1> QED
    BY <1>2, <1>3

\* A call of Push takes a message that nobody else has.
LEMMA CallPushInv ==
    ASSUME Inv, NEW p \in Producers, CallPush(p)
    PROVE  Inv'
  <1> USE DEF Inv, CallPush, cursors, prodVars, consVars, ProdStep
  <1>1. TypeOK'
    <2>1. pushes + 1 \in 0 .. MaxPush
      BY Sizes DEF TypeOK
    <2>2. pmsg' \in [Producers -> 0 .. MaxPush] /\ ppc' \in [Producers -> ProdSteps]
      BY <2>1 DEF TypeOK, ProdSteps
    <2> QED
      BY <2>1, <2>2 DEF TypeOK, Numbered
  <1>2. BoundInv'
    BY DEF TypeOK, BoundInv, Numbered
  <1>3. StepInv'
    BY DEF StepInv, Numbered, TypeOK
  <1>4. MessageInv'
    <2>1. \A n, m \in Nat : <<n, m>> \in sent => m <= pushes
      BY DEF SentInv
    <2>2. pushes \in Nat /\ \A q \in Producers : pmsg[q] \in Nat
      BY Sizes DEF TypeOK
    <2>3. ppc'[p] = "room" /\ pmsg'[p] = pushes + 1 /\ pushes' = pushes + 1 /\ sent' = sent
      BY DEF TypeOK
    <2>4. \A q \in Producers : q # p => ppc'[q] = ppc[q] /\ pmsg'[q] = pmsg[q]
      BY DEF TypeOK
    <2>5. \A n \in Nat : <<n, pushes + 1>> \notin sent
      BY <2>1, <2>2
    <2>6. \A q \in Producers : ppc[q] # "idle" => pmsg[q] # pushes + 1
      BY <2>2 DEF MessageInv
    <2> HIDE DEF CallPush
    <2> QED
      BY <2>2, <2>3, <2>4, <2>5, <2>6 DEF MessageInv
  <1>5. HeldInv'
    BY HeldKept DEF Holds, TypeOK
  <1>6. SentInv'
    <2>1. pushes \in Nat /\ pushes' = pushes + 1
      BY Sizes DEF TypeOK
    <2> QED
      BY <2>1 DEF SentInv, Numbered
  <1>7. PostInv'
    BY DEF PostInv, Entry, TypeOK
  <1>8. EntryInv'
    BY EntryInvFrame
  <1>9. SignInv'
    BY SignInvFrame
  <1>10. UseInv'
    BY UseInvFrame
  <1>11. DistinctInv'
    BY DistinctInvFrame
  <1>12. OneInv'
    BY OneInvFrame
  <1> QED
    BY <1>1, <1>2, <1>3, <1>4, <1>5, <1>6, <1>7, <1>8, <1>9, <1>10, <1>11, <1>12

\* A producer that finds room has a number within the lap; GetFreeEntryExp holds one in
\* any case.
LEMMA FindRoomInv ==
    ASSUME Inv, NEW p \in Producers, FindRoom(p)
    PROVE  Inv'
  <1> USE DEF Inv, FindRoom, cursors, prodVars, consVars, ProdStep, Granted
  <1>1. TypeOK'
    <2>0. pmsg[p] \in Nat /\ reserve \in Nat
      BY Sizes DEF TypeOK
    <2>1. pnum' \in [Producers -> Nat] /\ reserve' \in Nat
      BY <2>0 DEF TypeOK
    <2>2. ppc' \in [Producers -> ProdSteps]
      BY GrantedFacts DEF TypeOK, ProdSteps
    <2> QED
      BY <2>1, <2>2 DEF TypeOK, Numbered
  <1>2. BoundInv'
    BY DEF TypeOK, BoundInv, Numbered
  <1>3. StepInv'
    <2>1. pnum'[p] = (IF Numbered THEN pmsg[p] ELSE reserve) /\ pnum'[p] \in Nat
      BY Sizes DEF TypeOK
    <2>2. CASE pnum'[p] >= reserve_threshold[ProdObject(p)]
      <3>1. ppc'[p] = "refresh" /\ ppc[p] = "room"
        BY <2>2 DEF TypeOK
      <3> QED
        BY <2>1, <3>1 DEF StepInv, TypeOK, Numbered
    <2>3. CASE ~(pnum'[p] >= reserve_threshold[ProdObject(p)])
      <3>1. ppc'[p] = Granted /\ ppc[p] = "room"
        BY <2>3 DEF TypeOK
      <3>2. ProdObject(p) \in Producers
        BY SetupFacts
      <3>3. /\ reserve_threshold[ProdObject(p)] <= release + QueueSize
            /\ reserve_threshold[ProdObject(p)] \in Nat /\ release \in Nat
        BY <3>2 DEF BoundInv, TypeOK
      <3>4. pnum'[p] < release + QueueSize
        BY <2>1, <2>3, <3>3, Sizes
      <3> QED
        BY <2>1, <3>1, <3>4, GrantedFacts DEF StepInv, TypeOK, Numbered
    <2> QED
      BY <2>2, <2>3
  <1>4. MessageInv'
    BY DEF MessageInv, TypeOK
  <1>5. HeldInv'
    <2>1. CASE Numbered
      BY <2>1 DEF HeldInv, Numbered
    <2>2. CASE setup.prod = "exp"
      <3>1. ppc[p] = "room" /\ ppc'[p] \in {"refresh", "write"} /\ pnum'[p] = reserve
        BY <2>2, GrantedFacts DEF TypeOK, Numbered
      <3>2. ~Holds(p) /\ Holds(p)'
        BY <2>2, <3>1 DEF Holds
      <3>3. \A q \in Producers : q # p => (Holds(q)' <=> Holds(q)) /\ pnum'[q] = pnum[q]
        BY DEF Holds, TypeOK
      <3> QED
        BY <2>2, <3>1, <3>2, <3>3, HeldTaken DEF TypeOK, BoundInv, Numbered
    <2>3. CASE setup.prod \in {"cas", "single"}
      <3>1. ppc[p] = "room" /\ ppc'[p] \in {"refresh", "cas", "alloc"}
        BY <2>3, GrantedFacts DEF TypeOK
      <3>2. \A q \in Producers : (Holds(q)' <=> Holds(q)) /\ (Holds(q) => pnum'[q] = pnum[q])
        BY <2>3, <3>1 DEF Holds, TypeOK
      <3> QED
        BY <2>3, <3>2, HeldKept
    <2> QED
      BY <2>1, <2>2, <2>3, SetupFacts DEF ProdKinds, Numbered
  <1>6. SentInv'
    BY SentInvFrame
  <1>7. PostInv'
    BY DEF PostInv, Entry, TypeOK
  <1>8. EntryInv'
    BY EntryInvFrame
  <1>9. SignInv'
    BY SignInvFrame
  <1>10. UseInv'
    BY UseInvFrame
  <1>11. DistinctInv'
    BY DistinctInvFrame
  <1>12. OneInv'
    BY OneInvFrame
  <1> QED
    BY <1>1, <1>2, <1>3, <1>4, <1>5, <1>6, <1>7, <1>8, <1>9, <1>10, <1>11, <1>12

\* The producer has read release.
LEMMA ReadReleaseInv ==
    ASSUME Inv, NEW p \in Producers, ReadRelease(p)
    PROVE  Inv'
  <1> USE DEF Inv, ReadRelease, cursors, prodVars, consVars, ProdStep
  <1>1. TypeOK'
    BY Sizes DEF TypeOK, Numbered, ProdSteps
  <1>2. BoundInv'
    BY DEF TypeOK, BoundInv, Numbered
  <1>3. StepInv'
    BY DEF StepInv, Numbered, TypeOK
  <1>4. MessageInv'
    BY DEF MessageInv, TypeOK
  <1>5. HeldInv'
    BY HeldKept DEF Holds, TypeOK
  <1>6. SentInv'
    BY SentInvFrame
  <1>7. PostInv'
    BY DEF PostInv, Entry, TypeOK
  <1>8. EntryInv'
    BY EntryInvFrame
  <1>9. SignInv'
    BY SignInvFrame
  <1>10. UseInv'
    BY UseInvFrame
  <1>11. DistinctInv'
    BY DistinctInvFrame
  <1>12. OneInv'
    BY OneInvFrame
  <1> QED
    BY <1>1, <1>2, <1>3, <1>4, <1>5, <1>6, <1>7, <1>8, <1>9, <1>10, <1>11, <1>12

\* The new bound may be old by now, but old bounds are safe.
LEMMA RefreshThresholdInv ==
    ASSUME Inv, NEW p \in Producers, RefreshThreshold(p)
    PROVE  Inv'
  <1> USE DEF Inv, RefreshThreshold, cursors, prodVars, consVars, ProdStep, Granted
  <1>w. pnum[p] \in Nat /\ read_release[p] \in Nat /\ ppc[p] = "bound"
    BY DEF TypeOK
  <1>v. ppc'[p] = IF pnum[p] < read_release[p] + QueueSize THEN Granted
                  ELSE IF setup.prod = "exp" THEN "rollback" ELSE "full"
    <2>1. CASE pnum[p] < read_release[p] + QueueSize
      BY <1>w, <2>1, Sizes DEF TypeOK
    <2>2. CASE ~(pnum[p] < read_release[p] + QueueSize)
      BY <1>w, <2>2, Sizes DEF TypeOK
    <2> QED
      BY <2>1, <2>2
  <1>1. TypeOK'
    <2>1. ppc' \in [Producers -> ProdSteps]
      BY GrantedFacts DEF TypeOK, ProdSteps
    <2>2. /\ reserve_threshold' =
                 [reserve_threshold EXCEPT ![ProdObject(p)] = read_release[p] + QueueSize]
          /\ read_release' = [read_release EXCEPT ![p] = 0]
          /\ read_release[p] + QueueSize \in Nat
      BY Sizes DEF TypeOK
    <2>3. reserve_threshold' \in [Producers -> Nat] /\ read_release' \in [Producers -> Nat]
      <3>1. reserve_threshold \in [Producers -> Nat] /\ read_release \in [Producers -> Nat]
        BY DEF TypeOK
      <3> HIDE DEF RefreshThreshold, Inv
      <3> QED
        BY <2>2, <3>1
    <2> QED
      BY <2>1, <2>3 DEF TypeOK, Numbered
  <1>2. BoundInv'
    <2>1. /\ read_release[p] \in Nat /\ read_release[p] <= release /\ release \in Nat
          /\ reserve_threshold' =
                 [reserve_threshold EXCEPT ![ProdObject(p)] = read_release[p] + QueueSize]
          /\ read_release' = [read_release EXCEPT ![p] = 0]
      BY DEF BoundInv, TypeOK
    <2>2. \A q \in Producers : reserve_threshold'[q] <= release + QueueSize
      <3>1. read_release[p] + QueueSize <= release + QueueSize
        BY <2>1, Sizes
      <3>2. \A q \in Producers :
                reserve_threshold'[q] \in {reserve_threshold[q], read_release[p] + QueueSize}
        BY <2>1 DEF TypeOK
      <3> QED
        BY <3>1, <3>2 DEF BoundInv
    <2>3. \A q \in Producers : read_release'[q] <= release
      BY <2>1 DEF BoundInv, TypeOK
    <2> QED
      BY <2>2, <2>3 DEF BoundInv, Numbered
  <1>3. StepInv'
    <2>1. CASE pnum[p] < read_release[p] + QueueSize
      <3>1. ppc'[p] = Granted /\ ppc[p] = "bound"
        BY <1>w, <1>v, <2>1
      <3>2. pnum[p] < release + QueueSize
        BY <2>1, Sizes DEF BoundInv, TypeOK
      <3> QED
        BY <3>1, <3>2, GrantedFacts DEF StepInv, TypeOK, Numbered
    <2>2. CASE ~(pnum[p] < read_release[p] + QueueSize)
      <3>1. ppc[p] = "bound" /\ ppc'[p] = IF setup.prod = "exp" THEN "rollback" ELSE "full"
        BY <1>w, <1>v, <2>2
      <3> QED
        BY <3>1 DEF StepInv, TypeOK, Numbered
    <2> QED
      BY <2>1, <2>2
  <1>4. MessageInv'
    BY DEF MessageInv, TypeOK
  <1>5. HeldInv'
    <2>1. ppc[p] = "bound" /\ (setup.prod = "exp" => ppc'[p] \in {"write", "rollback"})
      BY <1>w, <1>v, GrantedFacts
    <2>2. setup.prod \in {"cas", "single"} => ppc'[p] \in {"cas", "alloc", "full"}
      BY <1>v, GrantedFacts
    <2>3. ~Numbered => setup.prod \in {"cas", "single", "exp"}
      BY SetupFacts DEF ProdKinds, Numbered
    <2>4. ~Numbered => \A q \in Producers : Holds(q)' <=> Holds(q)
      BY <2>1, <2>2, <2>3 DEF Holds, TypeOK
    <2> QED
      BY <2>4, HeldKept
  <1>6. SentInv'
    BY SentInvFrame
  <1>7. PostInv'
    BY DEF PostInv, Entry, TypeOK
  <1>8. EntryInv'
    BY EntryInvFrame
  <1>9. SignInv'
    BY SignInvFrame
  <1>10. UseInv'
    BY UseInvFrame
  <1>11. DistinctInv'
    BY DistinctInvFrame
  <1>12. OneInv'
    BY OneInvFrame
  <1> QED
    BY <1>1, <1>2, <1>3, <1>4, <1>5, <1>6, <1>7, <1>8, <1>9, <1>10, <1>11, <1>12

\* The producer that moves reserve holds the number it has compared.
LEMMA CasReserveInv ==
    ASSUME Inv, NEW p \in Producers, CasReserve(p)
    PROVE  Inv'
  <1> USE DEF Inv, CasReserve, cursors, prodVars, consVars, ProdStep
  <1>1. TypeOK'
    <2>1. ppc' \in [Producers -> ProdSteps] /\ reserve' \in Nat
      BY DEF TypeOK, ProdSteps
    <2> QED
      BY <2>1 DEF TypeOK, Numbered
  <1>2. BoundInv'
    BY DEF TypeOK, BoundInv, Numbered
  <1>3. StepInv'
    BY DEF StepInv, Numbered, TypeOK
  <1>4. MessageInv'
    BY DEF MessageInv, TypeOK
  <1>5. HeldInv'
    <2>1. ppc[p] = "cas" /\ setup.prod = "cas" /\ ~Holds(p)
      BY DEF StepInv, Holds
    <2>2. CASE reserve = pnum[p]
      <3>1. Holds(p)' /\ pnum'[p] = reserve /\ reserve' = reserve + 1
        BY <2>2 DEF Holds, TypeOK
      <3>2. \A q \in Producers : q # p => (Holds(q)' <=> Holds(q)) /\ pnum'[q] = pnum[q]
        BY DEF Holds, TypeOK
      <3> QED
        BY <2>1, <3>1, <3>2, HeldTaken DEF TypeOK, BoundInv, Numbered
    <2>3. CASE reserve # pnum[p]
      <3>1. \A q \in Producers : Holds(q)' <=> Holds(q)
        BY <2>1, <2>3 DEF Holds, TypeOK
      <3> QED
        BY <2>3, <3>1, HeldKept
    <2> QED
      BY <2>2, <2>3
  <1>6. SentInv'
    BY SentInvFrame
  <1>7. PostInv'
    BY DEF PostInv, Entry, TypeOK
  <1>8. EntryInv'
    BY EntryInvFrame
  <1>9. SignInv'
    BY SignInvFrame
  <1>10. UseInv'
    BY UseInvFrame
  <1>11. DistinctInv'
    BY DistinctInvFrame
  <1>12. OneInv'
    BY OneInvFrame
  <1> QED
    BY <1>1, <1>2, <1>3, <1>4, <1>5, <1>6, <1>7, <1>8, <1>9, <1>10, <1>11, <1>12

\* The last number goes back to nobody, an earlier one stays with its producer.
LEMMA RollBackInv ==
    ASSUME Inv, NEW p \in Producers, RollBack(p)
    PROVE  Inv'
  <1> USE DEF Inv, RollBack, cursors, prodVars, consVars, ProdStep, Granted
  <1>1. TypeOK'
    <2>1. ppc' \in [Producers -> ProdSteps]
      BY GrantedFacts DEF TypeOK, ProdSteps
    <2>2. reserve' \in Nat
      BY DEF TypeOK
    <2> QED
      BY <2>1, <2>2 DEF TypeOK, Numbered
  <1>2. BoundInv'
    <2>1. setup.prod = "exp" /\ Holds(p)
      BY DEF StepInv, Holds
    <2>2. tail <= pnum[p]
      BY <2>1 DEF HeldInv, Numbered
    <2>3. tail <= reserve'
      BY <2>1, <2>2 DEF BoundInv, Numbered
    <2> QED
      BY <2>3 DEF BoundInv, Numbered
  <1>3. StepInv'
    <2>1. setup.prod = "exp" /\ ppc[p] = "rollback"
      BY DEF StepInv
    <2>2. CASE reserve = pnum[p] + 1
      <3>1. ppc'[p] = "full"
        BY <2>2 DEF TypeOK
      <3> QED
        BY <2>1, <3>1 DEF StepInv, TypeOK, Numbered
    <2>3. CASE reserve # pnum[p] + 1 /\ pnum[p] < reserve_threshold[ProdObject(p)]
      <3>1. ppc'[p] = "write"
        BY <2>1, <2>3, GrantedFacts DEF TypeOK
      <3>3. ProdObject(p) \in Producers
        BY SetupFacts
      <3>4. /\ reserve_threshold[ProdObject(p)] <= release + QueueSize
            /\ reserve_threshold[ProdObject(p)] \in Nat /\ release \in Nat /\ pnum[p] \in Nat
        BY <3>3 DEF BoundInv, TypeOK
      <3>2. pnum[p] < release + QueueSize
        BY <2>3, <3>4, Sizes
      <3> QED
        BY <2>1, <3>1, <3>2 DEF StepInv, TypeOK, Numbered
    <2>4. CASE reserve # pnum[p] + 1 /\ ~(pnum[p] < reserve_threshold[ProdObject(p)])
      <3>1. ppc'[p] = "refresh"
        BY <2>4 DEF TypeOK
      <3> QED
        BY <2>1, <3>1 DEF StepInv, TypeOK, Numbered
    <2> QED
      BY <2>2, <2>3, <2>4
  <1>4. MessageInv'
    BY DEF MessageInv, TypeOK
  <1>5. HeldInv'
    <2>1. setup.prod = "exp" /\ ppc[p] = "rollback" /\ Holds(p) /\ ~Numbered
      BY DEF StepInv, Holds, Numbered
    <2>2. CASE reserve = pnum[p] + 1
      <3>1. ppc'[p] = "full" /\ reserve' = pnum[p]
        BY <2>2 DEF TypeOK
      <3>2. ~Holds(p)' /\ \A q \in Producers : q # p => (Holds(q)' <=> Holds(q))
        BY <3>1 DEF Holds, TypeOK
      <3> QED
        BY <2>1, <2>2, <3>1, <3>2, HeldGivenBack DEF TypeOK
    <2>3. CASE reserve # pnum[p] + 1
      <3>1. ppc'[p] \in {"write", "refresh"}
        BY <2>1, <2>3, GrantedFacts DEF TypeOK
      <3>2. \A q \in Producers : Holds(q)' <=> Holds(q)
        BY <2>1, <3>1 DEF Holds, TypeOK
      <3> QED
        BY <2>3, <3>2, HeldKept
    <2> QED
      BY <2>2, <2>3
  <1>6. SentInv'
    BY SentInvFrame
  <1>7. PostInv'
    BY DEF PostInv, Entry, TypeOK
  <1>8. EntryInv'
    BY EntryInvFrame
  <1>9. SignInv'
    BY SignInvFrame
  <1>10. UseInv'
    BY UseInvFrame
  <1>11. DistinctInv'
    BY DistinctInvFrame
  <1>12. OneInv'
    BY OneInvFrame
  <1> QED
    BY <1>1, <1>2, <1>3, <1>4, <1>5, <1>6, <1>7, <1>8, <1>9, <1>10, <1>11, <1>12

\* The only producer takes the number it has read.
LEMMA AllocEntryInv ==
    ASSUME Inv, NEW p \in Producers, AllocEntry(p)
    PROVE  Inv'
  <1> USE DEF Inv, AllocEntry, cursors, prodVars, consVars, ProdStep
  <1>1. TypeOK'
    <2>1. ppc' \in [Producers -> ProdSteps] /\ reserve' \in Nat
      BY DEF TypeOK, ProdSteps
    <2> QED
      BY <2>1 DEF TypeOK, Numbered
  <1>2. BoundInv'
    BY DEF TypeOK, BoundInv, Numbered
  <1>3. StepInv'
    BY DEF StepInv, Numbered, TypeOK
  <1>4. MessageInv'
    BY DEF MessageInv, TypeOK
  <1>5. HeldInv'
    <2>1. ppc[p] = "alloc" /\ setup.prod = "single" /\ ~Holds(p) /\ pnum[p] = reserve
      BY DEF StepInv, Holds
    <2>2. Holds(p)'
      BY DEF Holds, TypeOK
    <2>3. \A q \in Producers : q # p => (Holds(q)' <=> Holds(q)) /\ pnum'[q] = pnum[q]
      BY DEF Holds, TypeOK
    <2> QED
      BY <2>1, <2>2, <2>3, HeldTaken DEF TypeOK, BoundInv, Numbered
  <1>6. SentInv'
    BY SentInvFrame
  <1>7. PostInv'
    BY DEF PostInv, Entry, TypeOK
  <1>8. EntryInv'
    BY EntryInvFrame
  <1>9. SignInv'
    BY SignInvFrame
  <1>10. UseInv'
    BY UseInvFrame
  <1>11. DistinctInv'
    BY DistinctInvFrame
  <1>12. OneInv'
    BY OneInvFrame
  <1> QED
    BY <1>1, <1>2, <1>3, <1>4, <1>5, <1>6, <1>7, <1>8, <1>9, <1>10, <1>11, <1>12

\* A producer that found the queue full tries again.
LEMMA TryAgainInv ==
    ASSUME Inv, NEW p \in Producers, TryAgain(p)
    PROVE  Inv'
  <1> USE DEF Inv, TryAgain, cursors, prodVars, consVars, ProdStep
  <1>1. TypeOK'
    BY Sizes DEF TypeOK, Numbered, ProdSteps
  <1>2. BoundInv'
    BY DEF TypeOK, BoundInv, Numbered
  <1>3. StepInv'
    BY DEF StepInv, Numbered, TypeOK
  <1>4. MessageInv'
    BY DEF MessageInv, TypeOK
  <1>5. HeldInv'
    BY HeldKept DEF Holds, TypeOK
  <1>6. SentInv'
    BY SentInvFrame
  <1>7. PostInv'
    BY DEF PostInv, Entry, TypeOK
  <1>8. EntryInv'
    BY EntryInvFrame
  <1>9. SignInv'
    BY SignInvFrame
  <1>10. UseInv'
    BY UseInvFrame
  <1>11. DistinctInv'
    BY DistinctInvFrame
  <1>12. OneInv'
    BY OneInvFrame
  <1> QED
    BY <1>1, <1>2, <1>3, <1>4, <1>5, <1>6, <1>7, <1>8, <1>9, <1>10, <1>11, <1>12

\* A producer that found the queue full returns.
LEMMA QueueFullInv ==
    ASSUME Inv, NEW p \in Producers, QueueFull(p)
    PROVE  Inv'
  <1> USE DEF Inv, QueueFull, cursors, prodVars, consVars, PushReturns
  <1>1. TypeOK'
    <2>1. /\ ppc' \in [Producers -> ProdSteps] /\ pnum' \in [Producers -> Nat]
          /\ pmsg' \in [Producers -> 0 .. MaxPush]
      BY Sizes DEF TypeOK, ProdSteps
    <2> QED
      BY <2>1 DEF TypeOK, Numbered
  <1>2. BoundInv'
    BY DEF TypeOK, BoundInv, Numbered
  <1>3. StepInv'
    BY DEF StepInv, Numbered, TypeOK
  <1>4. MessageInv'
    BY DEF MessageInv, TypeOK
  <1>5. HeldInv'
    BY HeldKept DEF Holds, TypeOK
  <1>6. SentInv'
    BY SentInvFrame
  <1>7. PostInv'
    BY DEF PostInv, Entry, TypeOK
  <1>8. EntryInv'
    BY EntryInvFrame
  <1>9. SignInv'
    BY SignInvFrame
  <1>10. UseInv'
    BY UseInvFrame
  <1>11. DistinctInv'
    BY DistinctInvFrame
  <1>12. OneInv'
    BY OneInvFrame
  <1> QED
    BY <1>1, <1>2, <1>3, <1>4, <1>5, <1>6, <1>7, <1>8, <1>9, <1>10, <1>11, <1>12

\* The entry a producer fills is nobody else's.
LEMMA WritePayloadInv ==
    ASSUME Inv, NEW p \in Producers, WritePayload(p)
    PROVE  Inv'
  <1> USE DEF Inv, WritePayload, cursors, prodVars, consVars, ProdStep
  <1>w. /\ Slot(pnum[p]) \in 0 .. QueueSize - 1 /\ \A n : Slot(n)' = Slot(n)
        /\ \A i \in 0 .. QueueSize - 1 : i # Slot(pnum[p]) => slots'[i] = slots[i]
        /\ slots'[Slot(pnum[p])].msg = pmsg[p]
        /\ slots'[Slot(pnum[p])].pos =
               IF setup.prod \in {"cas", "single"} THEN pnum[p] ELSE slots[Slot(pnum[p])].pos
        /\ \A n \in Nat : Slot(n) \in 0 .. QueueSize - 1
    BY SlotType DEF TypeOK, Slot
  <1>1. TypeOK'
    <2>1. ppc' \in [Producers -> ProdSteps]
      BY DEF TypeOK, ProdSteps
    <2>2. pnum[p] \in Nat /\ pmsg[p] \in 0 .. MaxPush /\ Slot(pnum[p]) \in 0 .. QueueSize - 1
      BY SlotType DEF TypeOK
    <2>3. slots' \in [0 .. QueueSize - 1 -> [pos : Int, msg : 0 .. MaxPush]]
      BY <2>2 DEF TypeOK
    <2> QED
      BY <2>1, <2>3 DEF TypeOK, Numbered
  <1>2. BoundInv'
    BY DEF TypeOK, BoundInv, Numbered
  <1>3. StepInv'
    BY DEF StepInv, Numbered, TypeOK
  <1>4. MessageInv'
    BY DEF MessageInv, TypeOK
  <1>5. HeldInv'
    BY HeldKept DEF Holds, TypeOK
  <1>6. SentInv'
    BY SentInvFrame
  <1>7. PostInv'
    <2> SUFFICES ASSUME NEW q \in Producers, ppc'[q] = "post"
                 PROVE  /\ Entry(pnum[q])'.msg = pmsg[q]
                        /\ setup.prod \in {"cas", "single"} => Entry(pnum[q])'.pos = pnum[q]
      BY DEF PostInv, Entry, Slot
    <2>1. CASE q = p
      BY <2>1, <1>w DEF TypeOK, Entry
    <2>2. CASE q # p
      <3>1. ppc[q] = "post" /\ Slot(pnum[q]) # Slot(pnum[p])
        BY <2>2, WritersApart DEF TypeOK
      <3> QED
        BY <3>1, <1>w DEF PostInv, Entry
    <2> QED
      BY <2>1, <2>2
  <1>8. EntryInv'
    <2>1. \A n, m \in Nat : <<n, m>> \in sent /\ release <= n => Slot(n) # Slot(pnum[p])
      BY WritersApart
    <2> QED
      BY <2>1, <1>w DEF EntryInv, Entry
  <1>9. SignInv'
    <2>1. CASE Numbered
      <3>1. \A i \in 0 .. QueueSize - 1 : slots'[i].pos = slots[i].pos
        BY <2>1, <1>w DEF Numbered, TypeOK
      <3> QED
        BY <3>1 DEF SignInv, Slot
    <2>2. CASE ~Numbered
      BY <2>2 DEF SignInv, Numbered
    <2> QED
      BY <2>1, <2>2
  <1>10. UseInv'
    BY UseInvFrame
  <1>11. DistinctInv'
    BY DistinctInvFrame
  <1>12. OneInv'
    BY OneInvFrame
  <1> QED
    BY <1>1, <1>2, <1>3, <1>4, <1>5, <1>6, <1>7, <1>8, <1>9, <1>10, <1>11, <1>12

\* The message whose turn it is becomes the last one that was sent.
LEMMA PostEntryInv ==
    ASSUME Inv, NEW p \in Producers, PostEntry(p)
    PROVE  Inv'
  <1> USE DEF Inv, PostEntry, cursors, prodVars, consVars, PushReturns
  <1>w. /\ ppc[p] = "post" /\ ~Numbered /\ tail = pnum[p] /\ tail' = tail + 1 /\ tail \in Nat
        /\ pmsg[p] \in Nat /\ 1 <= pmsg[p] /\ pmsg[p] <= pushes /\ release <= tail /\ 1 <= tail
        /\ tail < release + QueueSize /\ release \in Nat
    BY Sizes DEF TypeOK, MessageInv, BoundInv, StepInv, Numbered
  <1>v. \A n, m \in Nat : <<n, m>> \in sent' <=> <<n, m>> \in sent \/ (n = tail /\ m = pmsg[p])
    BY <1>w
  <1>1. TypeOK'
    <2>1. ppc' \in [Producers -> ProdSteps] /\ pnum' \in [Producers -> Nat]
          /\ pmsg' \in [Producers -> 0 .. MaxPush]
      BY Sizes DEF TypeOK, ProdSteps
    <2>2. head <= tail' /\ tail' <= release + QueueSize /\ tail' \in Nat
      BY <1>w, Sizes DEF TypeOK, Numbered
    <2> QED
      BY <2>1, <2>2 DEF TypeOK, Numbered
  <1>2. BoundInv'
    <2>1. Holds(p)
      BY <1>w DEF Holds
    <2>2. tail' <= reserve
      BY <1>w, <2>1 DEF HeldInv, TypeOK
    <2>3. \A c \in Consumers : head_threshold[c] <= tail' /\ read_tail[c] <= tail'
      BY <1>w DEF BoundInv, TypeOK
    <2> QED
      BY <2>2, <2>3 DEF BoundInv, Numbered
  <1>3. StepInv'
    BY DEF StepInv, Numbered, TypeOK
  <1>4. MessageInv'
    BY <1>v DEF MessageInv, TypeOK
  <1>5. HeldInv'
    <2>1. Holds(p) /\ ~Holds(p)'
      BY <1>w DEF Holds, TypeOK
    <2>2. \A q \in Producers : q # p => (Holds(q)' <=> Holds(q)) /\ pnum'[q] = pnum[q]
      BY DEF Holds, TypeOK
    <2>3. \A q \in Producers : Holds(q)' => tail' <= pnum'[q] /\ pnum'[q] < reserve'
      BY <1>w, <2>1, <2>2 DEF HeldInv, TypeOK
    <2>4. \A n \in Nat : tail' <= n /\ n < reserve' => \E q \in Producers : Holds(q)' /\ pnum'[q] = n
      <3> TAKE n \in Nat
      <3> HAVE tail' <= n /\ n < reserve'
      <3>1. PICK q \in Producers : Holds(q) /\ pnum[q] = n
        BY <1>w DEF HeldInv
      <3>2. q # p
        BY <1>w, <3>1
      <3> QED
        BY <2>2, <3>1, <3>2
    <2>5. \A q, r \in Producers : Holds(q)' /\ Holds(r)' /\ q # r => pnum'[q] # pnum'[r]
      BY <1>w, <2>1, <2>2 DEF HeldInv
    <2> QED
      BY <2>3, <2>4, <2>5 DEF HeldInv
  <1>6. SentInv'
    <2>1. sent' \subseteq Nat \X Nat
      BY <1>w DEF SentInv
    <2>2. \A n, m \in Nat : <<n, m>> \in sent' => 1 <= n /\ 1 <= m /\ m <= pushes /\ n < tail'
      BY <1>w, <1>v DEF SentInv
    <2>3. \A i, j, m, n \in Nat : <<i, m>> \in sent' /\ <<j, n>> \in sent' /\ (i = j \/ m = n)
                                      => i = j /\ m = n
      <3>1. \A n, m \in Nat : <<n, m>> \in sent => n # tail /\ m # pmsg[p]
        BY <1>w DEF SentInv, MessageInv
      <3> QED
        BY <1>v, <3>1 DEF SentInv
    <2>4. \A n \in Nat : 1 <= n /\ n < tail' => \E m \in Nat : <<n, m>> \in sent'
      <3> TAKE n \in Nat
      <3> HAVE 1 <= n /\ n < tail'
      <3>1. CASE n = tail
        BY <1>w, <1>v, <3>1
      <3>2. CASE n < tail
        BY <1>w, <1>v, <3>2 DEF SentInv
      <3> QED
        BY <1>w, <3>1, <3>2
    <2> QED
      BY <1>w, <2>1, <2>2, <2>3, <2>4 DEF SentInv, Numbered
  <1>7. PostInv'
    BY DEF PostInv, Entry, Slot, TypeOK
  <1>8. EntryInv'
    <2> SUFFICES ASSUME NEW n \in Nat, NEW m \in Nat, <<n, m>> \in sent', release <= n
                 PROVE  /\ n < release + QueueSize
                        /\ Entry(n).msg = m
                        /\ setup.prod \in {"cas", "single", "seq"} => Entry(n).pos = n
                        /\ setup.prod = "reorder" => Entry(n).pos = -n
      BY DEF EntryInv, Entry, Slot
    <2>1. CASE <<n, m>> \in sent
      BY <2>1 DEF EntryInv
    <2>2. CASE n = tail /\ m = pmsg[p]
      BY <1>w, <2>2 DEF PostInv, Numbered
    <2> QED
      BY <1>v, <2>1, <2>2
  <1>9. SignInv'
    BY <1>w DEF SignInv, Numbered
  <1>10. UseInv'
    BY <1>w, UseGrows DEF TypeOK
  <1>11. DistinctInv'
    BY DistinctInvFrame
  <1>12. OneInv'
    BY OneInvFrame
  <1> QED
    BY <1>1, <1>2, <1>3, <1>4, <1>5, <1>6, <1>7, <1>8, <1>9, <1>10, <1>11, <1>12

\* The sign of the pos marks the entry of the number that is sent.
LEMMA RecorderPostEntryInv ==
    ASSUME Inv, NEW p \in Producers, RecorderPostEntry(p)
    PROVE  Inv'
  <1> USE DEF Inv, RecorderPostEntry, cursors, prodVars, consVars, PushReturns
  <1>w. /\ ppc[p] = "post" /\ Numbered /\ pnum[p] = pmsg[p] /\ pnum[p] \in Nat
        /\ 1 <= pmsg[p] /\ pmsg[p] <= pushes /\ pushes \in Nat
    BY Sizes DEF TypeOK, MessageInv, StepInv
  <1>v. \A n, m \in Nat : <<n, m>> \in sent' <=> <<n, m>> \in sent \/ (n = pnum[p] /\ m = pnum[p])
    BY <1>w
  <1>u. /\ Slot(pnum[p]) \in 0 .. QueueSize - 1 /\ \A n : Slot(n)' = Slot(n)
        /\ \A i \in 0 .. QueueSize - 1 : /\ i # Slot(pnum[p]) => slots'[i] = slots[i]
                                         /\ slots'[i].msg = slots[i].msg
        /\ slots'[Slot(pnum[p])].pos = IF setup.prod = "seq" THEN pnum[p] ELSE -pnum[p]
        /\ \A n \in Nat : Slot(n) \in 0 .. QueueSize - 1
    BY SlotType DEF TypeOK, Slot
  <1>1. TypeOK'
    <2>1. ppc' \in [Producers -> ProdSteps] /\ pnum' \in [Producers -> Nat]
          /\ pmsg' \in [Producers -> 0 .. MaxPush]
      BY Sizes DEF TypeOK, ProdSteps
    <2>2. slots' \in [0 .. QueueSize - 1 -> [pos : Int, msg : 0 .. MaxPush]]
      BY <1>w, <1>u DEF TypeOK
    <2> QED
      BY <2>1, <2>2 DEF TypeOK, Numbered
  <1>2. BoundInv'
    BY DEF TypeOK, BoundInv, Numbered
  <1>3. StepInv'
    BY DEF StepInv, Numbered, TypeOK
  <1>4. MessageInv'
    BY <1>w, <1>v DEF MessageInv, TypeOK
  <1>5. HeldInv'
    BY <1>w DEF HeldInv, Numbered
  <1>6. SentInv'
    <2>1. sent' \subseteq Nat \X Nat
      BY <1>w DEF SentInv
    <2>2. \A n, m \in Nat : <<n, m>> \in sent' => 1 <= n /\ 1 <= m /\ m <= pushes /\ n = m
      BY <1>w, <1>v DEF SentInv
    <2>3. \A n \in Nat : 1 <= n /\ n < release => <<n, n>> \in sent'
      BY <1>w, <1>v DEF SentInv
    <2> QED
      BY <1>w, <2>1, <2>2, <2>3 DEF SentInv, Numbered
  <1>7. PostInv'
    BY <1>w, <1>u DEF PostInv, Entry, TypeOK, Numbered
  <1>8. EntryInv'
    <2> SUFFICES ASSUME NEW n \in Nat, NEW m \in Nat, <<n, m>> \in sent', release <= n
                 PROVE  /\ n < release + QueueSize
                        /\ Entry(n)'.msg = m
                        /\ setup.prod \in {"cas", "single", "seq"} => Entry(n)'.pos = n
                        /\ setup.prod = "reorder" => Entry(n)'.pos = -n
      BY <1>u DEF EntryInv, Entry
    <2>1. CASE <<n, m>> \in sent
      <3>1. Slot(n) # Slot(pnum[p])
        BY <1>w, <2>1, WritersApart
      <3> QED
        BY <1>u, <2>1, <3>1 DEF EntryInv, Entry
    <2>2. CASE n = pnum[p] /\ m = pnum[p]
      <3>1. n < release + QueueSize
        BY <1>w, <2>2, WritersApart
      <3>2. Entry(n)'.msg = m
        BY <1>w, <1>u, <2>2 DEF PostInv, Entry
      <3> QED
        BY <1>w, <1>u, <2>2, <3>1, <3>2 DEF Entry, Numbered
    <2> QED
      BY <1>v, <2>1, <2>2
  <1>9. SignInv'
    <2> SUFFICES ASSUME NEW i \in 0 .. QueueSize - 1
                 PROVE  /\ setup.prod = "reorder" /\ slots'[i].pos < 0 =>
                               \E n \in Nat : /\ slots'[i].pos = -n /\ release <= n /\ Slot(n) = i
                                              /\ <<n, n>> \in sent'
                        /\ setup.prod = "seq" /\ slots'[i].pos # 0 =>
                               \E n \in Nat : slots'[i].pos = n /\ <<n, n>> \in sent'
      BY <1>u DEF SignInv
    <2>1. CASE i = Slot(pnum[p])
      <3>1. release <= pnum[p] /\ <<pnum[p], pnum[p]>> \in sent'
        BY <1>w, WritersApart
      <3> QED
        BY <1>w, <1>u, <2>1, <3>1
    <2>2. CASE i # Slot(pnum[p])
      BY <1>u, <2>2 DEF SignInv
    <2> QED
      BY <2>1, <2>2
  <1>10. UseInv'
    BY UseGrows DEF TypeOK
  <1>11. DistinctInv'
    BY DistinctInvFrame
  <1>12. OneInv'
    BY OneInvFrame
  <1> QED
    BY <1>1, <1>2, <1>3, <1>4, <1>5, <1>6, <1>7, <1>8, <1>9, <1>10, <1>11, <1>12

\* The consumer takes the entry at head if there is one.
LEMMA WaitEntryInv ==
    ASSUME Inv, NEW c \in Consumers, WaitEntry(c)
    PROVE  Inv'
  <1> USE DEF Inv, WaitEntry, cursors, prodVars, consVars, ConsStep
  <1> DEFINE known == head_threshold[ConsObject(c)]
             bound == IF head >= known THEN tail ELSE known
  <1>w. /\ ~Numbered /\ ConsObject(c) \in Consumers /\ setup.cons \in {"entry", "peek", "pop"}
        /\ cpc[c] = "idle" /\ head \in Nat /\ tail \in Nat /\ release \in Nat
        /\ release <= head /\ 1 <= release
    BY SetupFacts DEF Numbered, TypeOK, BoundInv
  <1>v. bound \in Nat /\ bound <= tail
    BY <1>w DEF BoundInv, TypeOK
  <1>u. /\ head_threshold' = [head_threshold EXCEPT ![ConsObject(c)] = bound]
        /\ cpc' = [cpc EXCEPT ![c] = IF head < bound THEN "held" ELSE "idle"]
        /\ cnum' = [cnum EXCEPT ![c] = IF head < bound THEN head ELSE @]
        /\ head' = IF head < bound /\ setup.cons # "peek" THEN head + 1 ELSE head
    OBVIOUS
  <1> HIDE DEF bound, WaitEntry
  <1>f. UNCHANGED <<setup, reserve, tail, release, slots, read_tail, handled, prodVars, crashes>>
    BY DEF WaitEntry
  <1>n. ~(head < bound) => UNCHANGED <<cpc, cnum, head>>
    BY <1>w, <1>u DEF TypeOK
  <1>t. head < bound => \E m \in Nat : <<head, m>> \in sent
    BY <1>w, <1>v DEF SentInv
  <1>1. TypeOK'
    <2>1. cpc' \in [Consumers -> ConsSteps] /\ cnum' \in [Consumers -> Nat]
      BY <1>w, <1>u DEF TypeOK, ConsSteps
    <2>2. head_threshold' \in [Consumers -> Nat]
      BY <1>w, <1>u, <1>v DEF TypeOK
    <2>3. head' \in Nat /\ release <= head' /\ head' <= tail
      BY <1>w, <1>u, <1>v DEF TypeOK, Numbered
    <2>4. head' <= release + QueueSize
      BY <1>w, <2>3, Sizes DEF TypeOK
    <2> QED
      BY <1>f, <2>1, <2>2, <2>3, <2>4 DEF TypeOK, Numbered
  <1>2. BoundInv'
    <2>1. \A d \in Consumers : head_threshold'[d] <= tail
      BY <1>u, <1>v DEF BoundInv, TypeOK
    <2> QED
      BY <1>f, <2>1 DEF BoundInv, Numbered
  <1>3. StepInv'
    BY <1>f, StepInvFrame
  <1>4. MessageInv'
    BY <1>f, MessageInvFrame
  <1>5. HeldInv'
    BY <1>f, HeldInvFrame
  <1>6. SentInv'
    BY <1>f, SentInvFrame
  <1>7. PostInv'
    BY <1>f, PostInvFrame
  <1>8. EntryInv'
    BY <1>f, EntryInvFrame
  <1>9. SignInv'
    BY <1>f, SignInvFrame
  <1>10. UseInv'
    <2>1. CASE head < bound
      <3>1. cpc'[c] = "held" /\ cnum'[c] = head /\ head <= head' /\ head' \in Nat
            /\ (setup.cons # "peek" => head < head')
        BY <1>w, <1>u, <2>1 DEF TypeOK
      <3>2. \A d \in Consumers : d # c => cpc'[d] = cpc[d] /\ cnum'[d] = cnum[d]
        BY <1>u DEF TypeOK
      <3>3. \A d \in Consumers : cnum[d] \in Nat
        BY DEF TypeOK
      <3>4. \E m \in Nat : <<cnum'[c], m>> \in sent
        BY <1>t, <2>1, <3>1
      <3>5. UNCHANGED <<setup, tail, release, sent, handled>>
        BY <1>f
      <3> HIDE DEF Inv
      <3>6. UseInv
        BY DEF Inv
      <3> QED
        BY <1>w, <3>1, <3>2, <3>3, <3>4, <3>5, <3>6 DEF UseInv, Uses
    <2>2. CASE ~(head < bound)
      BY <1>f, <1>n, <2>2, UseInvFrame
    <2> QED
      BY <2>1, <2>2
  <1>11. DistinctInv'
    <2>1. CASE head < bound
      <3>1. \A d \in Consumers : Uses(d) => cnum[d] # head
        <4>1. CASE setup.cons = "peek"
          BY <1>w, <4>1 DEF OneInv, OneConsumer, Uses, WaitEntry
        <4>2. CASE setup.cons # "peek"
          BY <1>w, <4>2 DEF UseInv, TypeOK
        <4> QED
          BY <4>1, <4>2
      <3>2. cpc'[c] = "held" /\ cnum'[c] = head
        BY <1>w, <1>u, <2>1 DEF TypeOK
      <3>3. \A d \in Consumers : d # c => cpc'[d] = cpc[d] /\ cnum'[d] = cnum[d]
        BY <1>u DEF TypeOK
      <3> QED
        BY <3>1, <3>2, <3>3 DEF DistinctInv, Uses
    <2>2. CASE ~(head < bound)
      BY <1>n, <2>2, DistinctInvFrame
    <2> QED
      BY <2>1, <2>2
  <1>12. OneInv'
    <2>1. CASE head < bound /\ OneConsumer
      <3>1. c = Consumer1
        BY <1>w, <2>1 DEF OneConsumer, WaitEntry
      <3>2. cpc'[c] = "held" /\ cnum'[c] = head
        BY <1>w, <1>u, <2>1 DEF TypeOK
      <3>3. \A d \in Consumers : d # c => cpc'[d] = cpc[d]
        BY <1>u DEF TypeOK
      <3>4. head = release
        BY <1>w, <2>1, <3>1 DEF OneInv
      <3> QED
        BY <1>f, <1>u, <2>1, <3>1, <3>2, <3>3, <3>4 DEF OneInv, Uses, OneConsumer
    <2>2. CASE ~(head < bound)
      BY <1>f, <1>n, <2>2, OneInvFrame
    <2>3. CASE ~OneConsumer
      BY <1>f, <2>3 DEF OneInv, OneConsumer
    <2> QED
      BY <2>1, <2>2, <2>3
  <1> QED
    BY <1>1, <1>2, <1>3, <1>4, <1>5, <1>6, <1>7, <1>8, <1>9, <1>10, <1>11, <1>12

\* A consumer that shares the queue has read head.
LEMMA ReadHeadInv ==
    ASSUME Inv, NEW c \in Consumers, ReadHead(c)
    PROVE  Inv'
  <1> USE DEF Inv, ReadHead, cursors, prodVars, consVars
  <1>1. TypeOK'
    BY Sizes DEF TypeOK, Numbered, ConsSteps
  <1>2. BoundInv'
    BY DEF TypeOK, BoundInv, Numbered
  <1>3. StepInv'
    BY StepInvFrame
  <1>4. MessageInv'
    BY MessageInvFrame
  <1>5. HeldInv'
    BY HeldInvFrame
  <1>6. SentInv'
    BY SentInvFrame
  <1>7. PostInv'
    BY PostInvFrame
  <1>8. EntryInv'
    BY EntryInvFrame
  <1>9. SignInv'
    BY SignInvFrame
  <1>10. UseInv'
    <2>1. cpc'[c] \in {"tail", "cas"} /\ cnum'[c] = head
      BY DEF TypeOK
    <2>2. ConsObject(c) \in Consumers
      BY SetupFacts
    <2>3. cpc'[c] = "cas" => head < tail
      BY <2>2 DEF TypeOK, BoundInv
    <2>4. \A d \in Consumers : d # c => cpc'[d] = cpc[d] /\ cnum'[d] = cnum[d]
      BY DEF TypeOK
    <2> QED
      BY <2>1, <2>3, <2>4 DEF UseInv, Uses
  <1>11. DistinctInv'
    BY DEF DistinctInv, Uses, TypeOK
  <1>12. OneInv'
    BY DEF OneInv, Uses, OneConsumer, TypeOK
  <1> QED
    BY <1>1, <1>2, <1>3, <1>4, <1>5, <1>6, <1>7, <1>8, <1>9, <1>10, <1>11, <1>12

\* A consumer that shares the queue has read tail.
LEMMA ReadTailInv ==
    ASSUME Inv, NEW c \in Consumers, ReadTail(c)
    PROVE  Inv'
  <1> USE DEF Inv, ReadTail, cursors, prodVars, consVars, ConsStep
  <1>1. TypeOK'
    BY Sizes DEF TypeOK, Numbered, ConsSteps
  <1>2. BoundInv'
    BY DEF TypeOK, BoundInv, Numbered
  <1>3. StepInv'
    BY StepInvFrame
  <1>4. MessageInv'
    BY MessageInvFrame
  <1>5. HeldInv'
    BY HeldInvFrame
  <1>6. SentInv'
    BY SentInvFrame
  <1>7. PostInv'
    BY PostInvFrame
  <1>8. EntryInv'
    BY EntryInvFrame
  <1>9. SignInv'
    BY SignInvFrame
  <1>10. UseInv'
    BY DEF UseInv, Uses, TypeOK
  <1>11. DistinctInv'
    BY DEF DistinctInv, Uses, TypeOK
  <1>12. OneInv'
    BY DEF OneInv, Uses, OneConsumer, TypeOK
  <1> QED
    BY <1>1, <1>2, <1>3, <1>4, <1>5, <1>6, <1>7, <1>8, <1>9, <1>10, <1>11, <1>12

\* The bound a consumer stores is at most tail.
LEMMA StoreTailInv ==
    ASSUME Inv, NEW c \in Consumers, StoreTail(c)
    PROVE  Inv'
  <1> USE DEF Inv, StoreTail, cursors, prodVars, consVars, ConsStep
  <1>1. TypeOK'
    BY Sizes DEF TypeOK, Numbered, ConsSteps
  <1>2. BoundInv'
    BY DEF TypeOK, BoundInv, Numbered
  <1>3. StepInv'
    BY StepInvFrame
  <1>4. MessageInv'
    BY MessageInvFrame
  <1>5. HeldInv'
    BY HeldInvFrame
  <1>6. SentInv'
    BY SentInvFrame
  <1>7. PostInv'
    BY PostInvFrame
  <1>8. EntryInv'
    BY EntryInvFrame
  <1>9. SignInv'
    BY SignInvFrame
  <1>10. UseInv'
    <2>1. cpc[c] = "bound" /\ cpc'[c] \in {"idle", "cas"}
      BY DEF TypeOK
    <2>2. cpc'[c] = "cas" => cnum[c] < tail
      BY DEF TypeOK, BoundInv
    <2>3. \A d \in Consumers : d # c => cpc'[d] = cpc[d]
      BY DEF TypeOK
    <2> QED
      BY <2>1, <2>2, <2>3 DEF UseInv, Uses
  <1>11. DistinctInv'
    BY DEF DistinctInv, Uses, TypeOK
  <1>12. OneInv'
    <2>1. setup.cons = "multi"
      BY DEF UseInv
    <2> QED
      BY <2>1 DEF OneInv, OneConsumer
  <1> QED
    BY <1>1, <1>2, <1>3, <1>4, <1>5, <1>6, <1>7, <1>8, <1>9, <1>10, <1>11, <1>12

\* The consumer that moves head has the entry it has compared.
LEMMA CasHeadInv ==
    ASSUME Inv, NEW c \in Consumers, CasHead(c)
    PROVE  Inv'
  <1> USE DEF Inv, CasHead, cursors, prodVars, consVars, ConsStep
  <1>w. /\ cpc[c] = "cas" /\ setup.cons = "multi" /\ ~Numbered /\ cnum[c] < tail /\ cnum[c] \in Nat
        /\ head \in Nat /\ tail \in Nat /\ release \in Nat /\ release <= head /\ 1 <= release
    BY SetupFacts DEF UseInv, Numbered, TypeOK, BoundInv
  <1>v. \A d \in Consumers : d # c => cpc'[d] = cpc[d]
    BY DEF TypeOK
  <1>u. cpc'[c] = IF head = cnum[c] THEN "held" ELSE "again"
    BY DEF TypeOK
  <1>1. TypeOK'
    <2>1. cpc' \in [Consumers -> ConsSteps]
      BY DEF TypeOK, ConsSteps
    <2>2. head' \in Nat /\ release <= head' /\ head' <= tail
      BY <1>w DEF TypeOK
    <2>3. head' <= release + QueueSize
      BY <1>w, <2>2, Sizes DEF TypeOK
    <2> QED
      BY <2>1, <2>2, <2>3 DEF TypeOK, Numbered
  <1>2. BoundInv'
    BY DEF TypeOK, BoundInv, Numbered
  <1>3. StepInv'
    BY StepInvFrame
  <1>4. MessageInv'
    BY MessageInvFrame
  <1>5. HeldInv'
    BY HeldInvFrame
  <1>6. SentInv'
    BY SentInvFrame
  <1>7. PostInv'
    BY PostInvFrame
  <1>8. EntryInv'
    BY EntryInvFrame
  <1>9. SignInv'
    BY SignInvFrame
  <1>10. UseInv'
    <2>1. CASE head = cnum[c]
      <3>1. \E m \in Nat : <<cnum[c], m>> \in sent
        BY <1>w, <2>1 DEF SentInv
      <3>2. \A d \in Consumers : cnum[d] \in Nat
        BY DEF TypeOK
      <3>3. head' = head + 1
        BY <2>1
      <3> QED
        BY <1>w, <1>v, <1>u, <2>1, <3>1, <3>2, <3>3 DEF UseInv, Uses
    <2>2. CASE head # cnum[c]
      BY <1>w, <1>v, <1>u, <2>2 DEF UseInv, Uses
    <2> QED
      BY <2>1, <2>2
  <1>11. DistinctInv'
    <2>1. CASE head = cnum[c]
      <3>1. \A d \in Consumers : Uses(d) => cnum[d] # cnum[c]
        BY <1>w, <2>1 DEF UseInv, TypeOK
      <3> QED
        BY <1>v, <3>1 DEF DistinctInv, Uses
    <2>2. CASE head # cnum[c]
      BY <1>v, <1>u, <2>2 DEF DistinctInv, Uses
    <2> QED
      BY <2>1, <2>2
  <1>12. OneInv'
    BY <1>w DEF OneInv, OneConsumer
  <1> QED
    BY <1>1, <1>2, <1>3, <1>4, <1>5, <1>6, <1>7, <1>8, <1>9, <1>10, <1>11, <1>12

\* The pos shows the entry of head, and not one of another lap.
LEMMA RecorderWaitEntryInv ==
    ASSUME Inv, NEW c \in Consumers, RecorderWaitEntry(c)
    PROVE  Inv'
  <1> USE DEF Inv, RecorderWaitEntry, cursors, prodVars, consVars, ConsStep
  <1>w. /\ Numbered /\ OneConsumer /\ c = Consumer1 /\ cpc[c] = "idle" /\ setup.cons # "peek"
        /\ setup.cons \in {"reorder", "seq"} /\ setup.prod = setup.cons
    BY SetupFacts DEF Numbered, OneConsumer
  <1>v. head = release /\ head \in Nat /\ 1 <= release /\ head' = head + 1
    BY <1>w DEF OneInv, TypeOK, BoundInv
  <1>u. cpc'[c] = "held" /\ cnum'[c] = head
    BY DEF TypeOK
  <1>t. \A d \in Consumers : d # c => cpc'[d] = cpc[d] /\ cnum'[d] = cnum[d]
    BY DEF TypeOK
  <1>r. <<head, head>> \in sent
    <2>1. Slot(head) \in 0 .. QueueSize - 1
      BY <1>v, SlotType
    <2>2. CASE setup.cons = "seq"
      <3>1. slots[Slot(head)].pos = head /\ head # 0
        BY <1>v, <2>2 DEF Entry
      <3> QED
        BY <1>w, <1>v, <2>1, <2>2, <3>1 DEF SignInv
    <2>3. CASE setup.cons = "reorder"
      <3>1. slots[Slot(head)].pos < 0
        BY <2>3 DEF Entry
      <3>2. PICK n \in Nat : release <= n /\ Slot(n) = Slot(head) /\ <<n, n>> \in sent
        BY <1>w, <2>1, <2>3, <3>1 DEF SignInv
      <3>3. n < release + QueueSize
        BY <3>2 DEF EntryInv
      <3>4. n = head
        BY <1>v, <3>2, <3>3, SlotInjective, Sizes
      <3> QED
        BY <3>2, <3>4
    <2> QED
      BY <1>w, <2>2, <2>3
  <1>1. TypeOK'
    <2>1. cpc' \in [Consumers -> ConsSteps] /\ cnum' \in [Consumers -> Nat]
      BY DEF TypeOK, ConsSteps
    <2>2. head' \in Nat /\ release <= head' /\ head' <= release + QueueSize
      BY <1>v, Sizes
    <2> QED
      BY <1>w, <2>1, <2>2 DEF TypeOK, Numbered
  <1>2. BoundInv'
    BY DEF TypeOK, BoundInv, Numbered
  <1>3. StepInv'
    BY StepInvFrame
  <1>4. MessageInv'
    BY MessageInvFrame
  <1>5. HeldInv'
    BY HeldInvFrame
  <1>6. SentInv'
    BY SentInvFrame
  <1>7. PostInv'
    BY PostInvFrame
  <1>8. EntryInv'
    BY EntryInvFrame
  <1>9. SignInv'
    BY SignInvFrame
  <1>10. UseInv'
    <2>1. \A d \in Consumers : d # c => cpc[d] = "idle"
      BY <1>w DEF OneInv
    <2>2. \E m \in Nat : <<head, m>> \in sent
      BY <1>v, <1>r
    <2> QED
      BY <1>v, <1>u, <1>t, <2>1, <2>2 DEF UseInv, Uses
  <1>11. DistinctInv'
    <2>1. \A d \in Consumers : d # c => cpc[d] = "idle"
      BY <1>w DEF OneInv
    <2> QED
      BY <1>t, <2>1 DEF DistinctInv, Uses
  <1>12. OneInv'
    BY <1>w, <1>v, <1>u, <1>t DEF OneInv, Uses, OneConsumer
  <1> QED
    BY <1>1, <1>2, <1>3, <1>4, <1>5, <1>6, <1>7, <1>8, <1>9, <1>10, <1>11, <1>12

\* The message that is handled is the one that was sent.
LEMMA HandleInv ==
    ASSUME Inv, NEW c \in Consumers, Handle(c)
    PROVE  Inv'
  <1> USE DEF Inv, Handle, cursors, prodVars, consVars, ConsStep
  <1>1. TypeOK'
    BY Sizes DEF TypeOK, Numbered, ConsSteps
  <1>2. BoundInv'
    BY DEF TypeOK, BoundInv, Numbered
  <1>3. StepInv'
    BY StepInvFrame
  <1>4. MessageInv'
    BY MessageInvFrame
  <1>5. HeldInv'
    BY HeldInvFrame
  <1>6. SentInv'
    BY SentInvFrame
  <1>7. PostInv'
    BY PostInvFrame
  <1>8. EntryInv'
    BY EntryInvFrame
  <1>9. SignInv'
    BY SignInvFrame
  <1>10. UseInv'
    <2>1. cpc[c] = "held" /\ cpc'[c] = IF setup.cons = "peek" THEN "head" ELSE "free"
      BY DEF TypeOK
    <2>2. \A d \in Consumers : d # c => cpc'[d] = cpc[d]
      BY DEF TypeOK
    <2>3. PICK m \in Nat : <<cnum[c], m>> \in sent /\ release <= cnum[c]
      BY <2>1 DEF UseInv, Uses
    <2>4. Entry(cnum[c]).msg = m
      BY <2>3 DEF EntryInv, TypeOK
    <2>5. \E k \in Nat : <<cnum[c], k>> \in handled'
      BY <2>4
    <2>6. \A d \in Consumers : \A k \in Nat : <<cnum[d], k>> \in handled => <<cnum[d], k>> \in handled'
      OBVIOUS
    <2> HIDE DEF Handle
    <2>7. UNCHANGED <<setup, tail, head, release, sent, cnum>>
      BY DEF Handle
    <2> QED
      BY <2>1, <2>2, <2>5, <2>6, <2>7 DEF UseInv, Uses
  <1>11. DistinctInv'
    BY DEF DistinctInv, Uses, TypeOK
  <1>12. OneInv'
    BY DEF OneInv, Uses, OneConsumer, TypeOK
  <1> QED
    BY <1>1, <1>2, <1>3, <1>4, <1>5, <1>6, <1>7, <1>8, <1>9, <1>10, <1>11, <1>12

\* FreeEntry<peek> moves head by one.
LEMMA MoveHeadInv ==
    ASSUME Inv, NEW c \in Consumers, MoveHead(c)
    PROVE  Inv'
  <1> USE DEF Inv, MoveHead, cursors, prodVars, consVars, ConsStep
  <1>w. /\ cpc[c] = "head" /\ setup.cons = "peek" /\ OneConsumer /\ c = Consumer1
        /\ setup.prod \in {"cas", "single"} /\ ~Numbered
    BY SetupFacts DEF UseInv, OneConsumer, OneInv, Numbered, ProdKinds
  <1>v. cnum[c] = release /\ head = release /\ release \in Nat
    BY <1>w DEF OneInv, Uses, TypeOK
  <1>u. \E m \in Nat : <<cnum[c], m>> \in sent
    BY <1>w DEF UseInv, Uses
  <1>t. Entry(cnum[c]).pos = release
    BY <1>w, <1>v, <1>u DEF EntryInv
  <1>r. head' = release + 1
    BY <1>t
  <1>q. release < tail /\ tail \in Nat
    BY <1>w, <1>v, <1>u DEF SentInv, TypeOK
  <1>p. cpc'[c] = "free" /\ \A d \in Consumers : d # c => cpc'[d] = cpc[d]
    BY DEF TypeOK
  <1>1. TypeOK'
    <2>1. cpc' \in [Consumers -> ConsSteps]
      BY DEF TypeOK, ConsSteps
    <2>2. /\ head' \in Nat /\ release <= head' /\ head' <= release + QueueSize /\ head' <= tail
      BY <1>v, <1>r, <1>q, Sizes
    <2> QED
      BY <2>1, <2>2 DEF TypeOK, Numbered
  <1>2. BoundInv'
    BY DEF TypeOK, BoundInv, Numbered
  <1>3. StepInv'
    BY StepInvFrame
  <1>4. MessageInv'
    BY MessageInvFrame
  <1>5. HeldInv'
    BY HeldInvFrame
  <1>6. SentInv'
    BY SentInvFrame
  <1>7. PostInv'
    BY PostInvFrame
  <1>8. EntryInv'
    BY EntryInvFrame
  <1>9. SignInv'
    BY SignInvFrame
  <1>10. UseInv'
    <2>1. \A d \in Consumers : d # c => cpc[d] = "idle"
      BY <1>w DEF OneInv
    <2> QED
      BY <1>w, <1>v, <1>u, <1>r, <1>p, <2>1 DEF UseInv, Uses
  <1>11. DistinctInv'
    BY DEF DistinctInv, Uses, TypeOK
  <1>12. OneInv'
    BY <1>w, <1>v, <1>r, <1>p DEF OneInv, Uses, OneConsumer
  <1> QED
    BY <1>1, <1>2, <1>3, <1>4, <1>5, <1>6, <1>7, <1>8, <1>9, <1>10, <1>11, <1>12

\* The entry that is freed is the first one.
LEMMA FreeEntryInv ==
    ASSUME Inv, NEW c \in Consumers, FreeEntry(c)
    PROVE  Inv'
  <1> USE DEF Inv, FreeEntry, cursors, prodVars, consVars, FreeReturns
  <1>w. /\ cpc[c] = "free" /\ ~Numbered /\ release' = release + 1 /\ release \in Nat
        /\ cnum[c] \in Nat /\ head \in Nat /\ Uses(c)
    BY DEF TypeOK, Uses
  <1>v. cnum[c] = release
    BY FreedInOrder
  <1>u. release < head
    <2>1. CASE setup.cons = "peek"
      BY <1>w, <2>1 DEF OneInv, OneConsumer
    <2>2. CASE setup.cons # "peek"
      BY <1>w, <1>v, <2>2 DEF UseInv
    <2> QED
      BY <2>1, <2>2
  <1>t. /\ cpc'[c] = "idle" /\ ~Uses(c)'
        /\ \A d \in Consumers : d # c => cpc'[d] = cpc[d] /\ cnum'[d] = cnum[d] /\ cnum[d] \in Nat
    BY DEF TypeOK, Uses
  <1>1. TypeOK'
    <2>1. cpc' \in [Consumers -> ConsSteps] /\ cnum' \in [Consumers -> Nat]
      BY DEF TypeOK, ConsSteps
    <2>2. release' \in Nat /\ release' <= head /\ head <= release' + QueueSize
      BY <1>w, <1>u, Sizes DEF TypeOK
    <2>3. head <= tail /\ tail <= release' + QueueSize
      BY <1>w, Sizes DEF TypeOK
    <2> QED
      BY <2>1, <2>2, <2>3 DEF TypeOK, Numbered
  <1>2. BoundInv'
    BY <1>w, ReleaseBounds
  <1>3. StepInv'
    BY <1>w, ReleaseSteps
  <1>4. MessageInv'
    BY MessageInvFrame
  <1>5. HeldInv'
    BY HeldInvFrame
  <1>6. SentInv'
    BY <1>w DEF SentInv, Numbered
  <1>7. PostInv'
    BY PostInvFrame
  <1>8. EntryInv'
    BY <1>w, ReleaseEntries
  <1>9. SignInv'
    BY <1>w DEF SignInv, Numbered
  <1>10. UseInv'
    <2>1. \A d \in Consumers : d # c /\ Uses(d) => release + 1 <= cnum[d]
      BY <1>w, <1>v, <1>t DEF UseInv, DistinctInv
    <2> QED
      BY <1>w, <1>t, <2>1 DEF UseInv, Uses
  <1>11. DistinctInv'
    BY <1>t DEF DistinctInv, Uses
  <1>12. OneInv'
    <2>1. CASE OneConsumer
      <3>1. c = Consumer1
        BY <1>w, <2>1 DEF OneInv
      <3>2. head = release + 1
        BY <1>w, <2>1, <3>1 DEF OneInv
      <3> QED
        BY <1>w, <1>t, <2>1, <3>1, <3>2 DEF OneInv, OneConsumer, Uses
    <2>2. CASE ~OneConsumer
      BY <2>2 DEF OneInv, OneConsumer
    <2> QED
      BY <2>1, <2>2
  <1> QED
    BY <1>1, <1>2, <1>3, <1>4, <1>5, <1>6, <1>7, <1>8, <1>9, <1>10, <1>11, <1>12

\* The entry that is freed is the first one, and its sign goes with it.
LEMMA RecorderFreeEntryInv ==
    ASSUME Inv, NEW c \in Consumers, RecorderFreeEntry(c)
    PROVE  Inv'
  <1> USE DEF Inv, RecorderFreeEntry, cursors, prodVars, consVars, FreeReturns
  <1>w. /\ cpc[c] = "free" /\ Numbered /\ release' = release + 1 /\ release \in Nat
        /\ cnum[c] \in Nat /\ head \in Nat /\ Uses(c) /\ OneConsumer
        /\ setup.cons \in {"reorder", "seq"} /\ setup.prod = setup.cons
    BY SetupFacts DEF TypeOK, Uses, OneConsumer, Numbered
  <1>v. c = Consumer1 /\ cnum[c] = release /\ head = release + 1
    BY <1>w DEF OneInv
  <1>u. <<release, release>> \in sent
    <2>1. PICK m \in Nat : <<cnum[c], m>> \in sent
      BY <1>w DEF UseInv
    <2> QED
      BY <1>w, <1>v, <2>1 DEF SentInv
  <1>t. /\ cpc'[c] = "idle" /\ ~Uses(c)'
        /\ \A d \in Consumers : d # c => cpc'[d] = cpc[d] /\ cnum'[d] = cnum[d] /\ cpc[d] = "idle"
    BY <1>w, <1>v DEF TypeOK, Uses, OneInv
  <1>r. /\ Slot(release) \in 0 .. QueueSize - 1 /\ \A n : Slot(n)' = Slot(n)
        /\ \A i \in 0 .. QueueSize - 1 : /\ i # Slot(release) => slots'[i] = slots[i]
                                         /\ slots'[i].msg = slots[i].msg
        /\ setup.cons = "seq" => \A i \in 0 .. QueueSize - 1 : slots'[i].pos = slots[i].pos
        /\ setup.cons = "reorder" => slots'[Slot(release)].pos = -slots[Slot(release)].pos
        /\ \A n \in Nat : Slot(n) \in 0 .. QueueSize - 1
    BY <1>w, <1>v, SlotType DEF TypeOK, Slot
  <1>q. setup.cons = "reorder" => slots[Slot(release)].pos = -release
    BY <1>w, <1>u DEF EntryInv, Entry
  <1>1. TypeOK'
    <2>1. cpc' \in [Consumers -> ConsSteps] /\ cnum' \in [Consumers -> Nat]
      BY DEF TypeOK, ConsSteps
    <2>2. release' \in Nat /\ release' <= head /\ head <= release' + QueueSize
      BY <1>w, <1>v, Sizes
    <2>3. slots' \in [0 .. QueueSize - 1 -> [pos : Int, msg : 0 .. MaxPush]]
      <3>1. Slot(cnum[c]) \in 0 .. QueueSize - 1
        BY <1>w, SlotType
      <3>2. CASE setup.cons = "seq"
        BY <3>1, <3>2 DEF TypeOK
      <3>3. CASE setup.cons # "seq"
        <4>1. slots' = [slots EXCEPT ![Slot(cnum[c])].pos = -slots[Slot(cnum[c])].pos]
          BY <3>3
        <4>2. -slots[Slot(cnum[c])].pos \in Int
          BY <3>1 DEF TypeOK
        <4> QED
          BY <3>1, <4>1, <4>2 DEF TypeOK
      <3> QED
        BY <3>2, <3>3
    <2> QED
      BY <1>w, <2>1, <2>2, <2>3 DEF TypeOK, Numbered
  <1>2. BoundInv'
    BY <1>w, ReleaseBounds
  <1>3. StepInv'
    BY <1>w, ReleaseSteps
  <1>4. MessageInv'
    BY MessageInvFrame
  <1>5. HeldInv'
    BY HeldInvFrame
  <1>6. SentInv'
    BY <1>w, <1>u DEF SentInv, Numbered
  <1>7. PostInv'
    <2>1. \A q \in Producers : pnum[q] \in Nat
      BY DEF TypeOK
    <2> QED
      BY <1>w, <1>r, <2>1 DEF PostInv, Entry
  <1>8. EntryInv'
    <2> SUFFICES ASSUME NEW n \in Nat, NEW m \in Nat, <<n, m>> \in sent, release + 1 <= n
                 PROVE  /\ n < release + 1 + QueueSize
                        /\ Entry(n)'.msg = m
                        /\ setup.prod \in {"cas", "single", "seq"} => Entry(n)'.pos = n
                        /\ setup.prod = "reorder" => Entry(n)'.pos = -n
      BY <1>w, <1>r DEF EntryInv, Entry
    <2>1. /\ n < release + QueueSize
          /\ Entry(n).msg = m
          /\ setup.prod \in {"cas", "single", "seq"} => Entry(n).pos = n
          /\ setup.prod = "reorder" => Entry(n).pos = -n
      BY <1>w DEF EntryInv
    <2>2. Slot(n) # Slot(release)
      BY <1>w, <2>1, SlotInjective, Sizes
    <2>3. Entry(n)' = Entry(n)
      BY <1>r, <2>2 DEF Entry
    <2> QED
      BY <1>w, <2>1, <2>3, Sizes
  <1>9. SignInv'
    <2> SUFFICES ASSUME NEW i \in 0 .. QueueSize - 1
                 PROVE  /\ setup.prod = "reorder" /\ slots'[i].pos < 0 =>
                               \E n \in Nat : /\ slots'[i].pos = -n /\ release + 1 <= n
                                              /\ Slot(n) = i /\ <<n, n>> \in sent
                        /\ setup.prod = "seq" /\ slots'[i].pos # 0 =>
                               \E n \in Nat : slots'[i].pos = n /\ <<n, n>> \in sent
      BY <1>w, <1>r DEF SignInv
    <2>1. CASE setup.prod = "seq"
      BY <1>w, <1>r, <2>1 DEF SignInv
    <2>2. CASE setup.prod = "reorder" /\ slots'[i].pos < 0
      <3>1. i # Slot(release)
        BY <1>w, <1>r, <1>q, <2>2
      <3>2. PICK n \in Nat : slots[i].pos = -n /\ release <= n /\ Slot(n) = i /\ <<n, n>> \in sent
        BY <1>r, <2>2, <3>1 DEF SignInv
      <3>3. release + 1 <= n
        BY <1>w, <3>1, <3>2
      <3> QED
        BY <1>r, <2>2, <3>1, <3>2, <3>3
    <2> QED
      BY <2>1, <2>2
  <1>10. UseInv'
    BY <1>t DEF UseInv, Uses
  <1>11. DistinctInv'
    BY <1>t DEF DistinctInv, Uses
  <1>12. OneInv'
    BY <1>w, <1>v, <1>t DEF OneInv, OneConsumer, Uses
  <1> QED
    BY <1>1, <1>2, <1>3, <1>4, <1>5, <1>6, <1>7, <1>8, <1>9, <1>10, <1>11, <1>12

-----------------------------------------------------------------------------
(* Restarts.                                                               *)

\* What a restart leaves alone, and where it puts head and release.
LEMMA RestartFacts ==
    ASSUME Inv, Restart
    PROVE  /\ UNCHANGED <<setup, tail, slots, pushes, sent, handled>> /\ ~Numbered
           /\ crashes' = crashes + 1 /\ crashes' \in 0 .. MaxCrash
           /\ head \in Nat /\ release \in Nat /\ tail \in Nat /\ release <= head /\ head <= tail
           /\ 1 <= release /\ tail <= release + QueueSize /\ tail <= reserve
  BY Sizes DEF Inv, Restart, TypeOK, BoundInv

\* The producers are gone.
LEMMA ProducersGoneInv ==
    ASSUME Inv, Restart, ProducersGone, reserve' = tail, release' \in Nat, release <= release'
    PROVE  /\ ppc' \in [Producers -> ProdSteps] /\ pnum' \in [Producers -> Nat]
           /\ pmsg' \in [Producers -> 0 .. MaxPush] /\ read_release' \in [Producers -> Nat]
           /\ reserve_threshold' \in [Producers -> Nat] /\ reserve' \in Nat
           /\ \A p \in Producers : /\ reserve_threshold'[p] <= release' + QueueSize
                                   /\ read_release'[p] <= release'
           /\ StepInv' /\ MessageInv' /\ HeldInv' /\ PostInv'
  <1>1. /\ ppc' \in [Producers -> ProdSteps] /\ pnum' \in [Producers -> Nat]
        /\ pmsg' \in [Producers -> 0 .. MaxPush] /\ read_release' \in [Producers -> Nat]
        /\ reserve_threshold' \in [Producers -> Nat] /\ reserve' \in Nat
    BY RestartFacts, Sizes DEF ProducersGone, ProdSteps
  <1>2. \A p \in Producers : /\ reserve_threshold'[p] <= release' + QueueSize
                             /\ read_release'[p] <= release'
    <2>1. \A r \in Nat : QueueSize <= r + QueueSize /\ 0 <= r
      BY Sizes
    <2>2. \A p \in Producers : reserve_threshold'[p] = QueueSize /\ read_release'[p] = 0
      BY DEF ProducersGone
    <2> QED
      BY <2>1, <2>2
  <1>3. \A p \in Producers : ppc'[p] = "idle"
    BY DEF ProducersGone
  <1>4. ~Numbered'
    BY RestartFacts DEF Numbered
  <1>5. HeldInv'
    <2>1. \A n \in Nat : ~(tail' <= n /\ n < reserve')
      BY RestartFacts
    <2> QED
      BY <1>3, <2>1 DEF HeldInv, Holds
  <1> QED
    BY <1>1, <1>2, <1>3, <1>4, <1>5 DEF StepInv, MessageInv, PostInv

\* The consumers are gone.
LEMMA ConsumersGoneInv ==
    ASSUME Inv, Restart, ConsumersGone, NEW fix \in BOOLEAN, RestoreHead(fix)
    PROVE  /\ cpc' \in [Consumers -> ConsSteps] /\ cnum' \in [Consumers -> Nat]
           /\ read_tail' \in [Consumers -> Nat] /\ head_threshold' \in [Consumers -> Nat]
           /\ \A c \in Consumers : head_threshold'[c] <= tail' /\ read_tail'[c] <= tail'
           /\ release' \in Nat /\ head' = release' /\ release <= release' /\ head' <= tail'
           /\ UseInv' /\ DistinctInv' /\ OneInv'
  <1>1. /\ cpc' \in [Consumers -> ConsSteps] /\ cnum' \in [Consumers -> Nat]
        /\ read_tail' \in [Consumers -> Nat] /\ head_threshold' \in [Consumers -> Nat]
    BY DEF ConsumersGone, ConsSteps
  <1>2. \A c \in Consumers : head_threshold'[c] <= tail' /\ read_tail'[c] <= tail'
    BY RestartFacts DEF ConsumersGone
  <1>3. \A c \in Consumers : cpc'[c] = "idle"
    BY DEF ConsumersGone
  <1>4. release' \in Nat /\ head' = release' /\ release <= release' /\ head' <= tail'
    BY RestartFacts DEF RestoreHead
  <1>5. Consumer1 \in Consumers
    BY SetupFacts DEF Inv
  <1>6. UseInv' /\ DistinctInv'
    BY <1>3 DEF UseInv, DistinctInv, Uses
  <1>7. OneInv'
    BY <1>3, <1>4, <1>5 DEF OneInv, OneConsumer, Uses
  <1> QED
    BY <1>1, <1>2, <1>4, <1>6, <1>7

\* The messages that were sent, and their entries.
LEMMA RestartEntries ==
    ASSUME Inv, Restart, release' \in Nat, release <= release'
    PROVE  SentInv' /\ EntryInv' /\ SignInv'
  <1>1. UNCHANGED <<setup, tail, slots, pushes, sent>> /\ ~Numbered
    BY RestartFacts
  <1>2. SentInv'
    BY <1>1 DEF Inv, SentInv, Numbered
  <1>3. EntryInv'
    BY <1>1, ReleaseEntries DEF Inv
  <1>4. SignInv'
    BY <1>1 DEF SignInv, Numbered
  <1> QED
    BY <1>2, <1>3, <1>4

\* The consumers' process starts again; what it had taken is handed out again, or over.
LEMMA ConsumerEndConsistentInv ==
    ASSUME Inv, NEW fix \in BOOLEAN, ConsumerEndConsistent(fix)
    PROVE  Inv'
  <1> USE DEF ConsumerEndConsistent
  <1>1. /\ UNCHANGED <<reserve, ppc, pnum, pmsg, read_release, reserve_threshold>>
        /\ UNCHANGED <<setup, tail, slots, pushes, sent>>
    BY RestartFacts
  <1>2. /\ release' \in Nat /\ head' = release' /\ release <= release' /\ head' <= tail
        /\ tail <= release' + QueueSize
    BY ConsumersGoneInv, RestartFacts, Sizes
  <1>3. TypeOK'
    <2>0. \A r \in Nat : r <= r /\ r <= r + QueueSize
      BY Sizes
    <2>1. head' \in Nat /\ release' <= head' /\ head' <= release' + QueueSize
      BY <1>2, <2>0
    <2>2. /\ cpc' \in [Consumers -> ConsSteps] /\ cnum' \in [Consumers -> Nat]
          /\ read_tail' \in [Consumers -> Nat] /\ head_threshold' \in [Consumers -> Nat]
      BY ConsumersGoneInv
    <2>3. crashes' \in 0 .. MaxCrash
      BY RestartFacts
    <2> HIDE DEF ConsumerEndConsistent
    <2> QED
      BY <1>1, <1>2, <2>1, <2>2, <2>3 DEF Inv, TypeOK, Numbered
  <1>4. BoundInv'
    <2>1. \A p \in Producers : /\ reserve_threshold[p] <= release' + QueueSize
                               /\ read_release[p] <= release'
      BY <1>2, Sizes DEF Inv, BoundInv, TypeOK
    <2> QED
      BY <1>1, <1>2, <2>1, RestartFacts, ConsumersGoneInv DEF BoundInv
  <1>5. StepInv' /\ MessageInv' /\ HeldInv' /\ PostInv'
    BY <1>1, <1>2, ReleaseSteps, MessageInvFrame, HeldInvFrame, PostInvFrame DEF Inv
  <1>6. SentInv' /\ EntryInv' /\ SignInv'
    BY <1>2, RestartEntries
  <1> QED
    BY <1>3, <1>4, <1>5, <1>6, ConsumersGoneInv DEF Inv

\* The producers' process starts again; numbers that were not posted are free.
LEMMA ProducerEndConsistentInv ==
    ASSUME Inv, ProducerEndConsistent
    PROVE  Inv'
  <1> USE DEF ProducerEndConsistent
  <1>1. /\ UNCHANGED <<head, release, cpc, cnum, read_tail, head_threshold>>
        /\ UNCHANGED <<setup, tail, slots, pushes, sent, handled>>
    BY RestartFacts
  <1>2. release' \in Nat /\ release <= release'
    BY <1>1, RestartFacts
  <1>3. TypeOK'
    BY <1>1, <1>2, RestartFacts, ProducersGoneInv DEF Inv, TypeOK, Numbered
  <1>4. BoundInv'
    BY <1>1, <1>2, RestartFacts, ProducersGoneInv DEF Inv, BoundInv
  <1>5. UseInv' /\ DistinctInv' /\ OneInv'
    BY <1>1, UseInvFrame, DistinctInvFrame, OneInvFrame DEF Inv
  <1>6. SentInv' /\ EntryInv' /\ SignInv'
    BY <1>2, RestartEntries
  <1> QED
    BY <1>2, <1>3, <1>4, <1>5, <1>6, ProducersGoneInv DEF Inv

\* Both ends start again.
LEMMA ConsistentInv ==
    ASSUME Inv, NEW fix \in BOOLEAN, Consistent(fix)
    PROVE  Inv'
  <1> USE DEF Consistent
  <1>1. UNCHANGED <<setup, tail, slots, pushes, sent>>
    BY RestartFacts
  <1>2. /\ release' \in Nat /\ head' = release' /\ release <= release' /\ head' <= tail
        /\ tail <= release' + QueueSize
    BY ConsumersGoneInv, RestartFacts, Sizes
  <1>3. TypeOK'
    <2>0. \A r \in Nat : r <= r /\ r <= r + QueueSize
      BY Sizes
    <2>1. head' \in Nat /\ release' <= head' /\ head' <= release' + QueueSize
      BY <1>2, <2>0
    <2>2. /\ cpc' \in [Consumers -> ConsSteps] /\ cnum' \in [Consumers -> Nat]
          /\ read_tail' \in [Consumers -> Nat] /\ head_threshold' \in [Consumers -> Nat]
      BY ConsumersGoneInv
    <2>3. /\ ppc' \in [Producers -> ProdSteps] /\ pnum' \in [Producers -> Nat]
          /\ pmsg' \in [Producers -> 0 .. MaxPush] /\ read_release' \in [Producers -> Nat]
          /\ reserve_threshold' \in [Producers -> Nat] /\ reserve' \in Nat
      BY <1>2, ProducersGoneInv
    <2>4. crashes' \in 0 .. MaxCrash
      BY RestartFacts
    <2> HIDE DEF Consistent
    <2> QED
      BY <1>1, <1>2, <2>1, <2>2, <2>3, <2>4 DEF Inv, TypeOK, Numbered
  <1>4. BoundInv'
    BY <1>1, <1>2, RestartFacts, ConsumersGoneInv, ProducersGoneInv DEF BoundInv
  <1>5. SentInv' /\ EntryInv' /\ SignInv'
    BY <1>2, RestartEntries
  <1> QED
    BY <1>2, <1>3, <1>4, <1>5, ConsumersGoneInv, ProducersGoneInv DEF Inv

-----------------------------------------------------------------------------
(* The theorems.                                                           *)

\* The queue as CreateQueue leaves it.
LEMMA InitInv == Init => Inv
  <1> SUFFICES ASSUME Init PROVE Inv
    OBVIOUS
  <1> USE DEF Init, QUEUE_CURSOR_INIT_VALUE
  <1>1. TypeOK
    BY Sizes DEF TypeOK, Numbered, ProdSteps, ConsSteps
  <1>2. Producer1 \in Producers /\ Consumer1 \in Consumers
    BY <1>1, SetupFacts
  <1>3. BoundInv
    BY Sizes DEF BoundInv
  <1>4. HeldInv
    <2>1. \A n \in Nat : ~(tail <= n /\ n < reserve)
      OBVIOUS
    <2> QED
      BY <2>1 DEF HeldInv, Holds
  <1>5. StepInv /\ MessageInv /\ PostInv
    BY DEF StepInv, MessageInv, PostInv
  <1>6. SentInv /\ EntryInv
    BY DEF SentInv, EntryInv
  <1>7. SignInv
    BY DEF SignInv
  <1>8. UseInv /\ DistinctInv /\ OneInv
    BY <1>2 DEF UseInv, DistinctInv, OneInv, Uses
  <1> QED
    BY <1>1, <1>3, <1>4, <1>5, <1>6, <1>7, <1>8 DEF Inv

\* Every step keeps the invariant.
LEMMA NextInv == Inv /\ [Next]_vars => Inv'
  <1> SUFFICES ASSUME Inv, [Next]_vars PROVE Inv'
    OBVIOUS
  <1>1. ASSUME NEW p \in Producers, CallPush(p) PROVE Inv'
    BY <1>1, CallPushInv
  <1>2. ASSUME NEW p \in Producers, ProducerStep(p) PROVE Inv'
    BY <1>2, FindRoomInv, ReadReleaseInv, RefreshThresholdInv, CasReserveInv, RollBackInv,
       AllocEntryInv, TryAgainInv, QueueFullInv, WritePayloadInv, PostEntryInv,
       RecorderPostEntryInv DEF ProducerStep
  <1>3. ASSUME NEW c \in Consumers, ConsumerStep(c) PROVE Inv'
    BY <1>3, WaitEntryInv, ReadHeadInv, ReadTailInv, StoreTailInv, CasHeadInv,
       RecorderWaitEntryInv, HandleInv, MoveHeadInv, FreeEntryInv, RecorderFreeEntryInv
       DEF ConsumerStep
  <1>4. ASSUME Restarts PROVE Inv'
    BY <1>4, ConsumerEndConsistentInv, ProducerEndConsistentInv, ConsistentInv DEF Restarts
  <1>5. ASSUME UNCHANGED vars PROVE Inv'
    <2>1. TypeOK'
      BY <1>5 DEF Inv, TypeOK, Numbered, vars, cursors, prodVars, consVars
    <2>2. BoundInv'
      BY <1>5 DEF Inv, BoundInv, Numbered, vars, cursors, prodVars, consVars
    <2>3. StepInv' /\ MessageInv' /\ HeldInv' /\ SentInv' /\ PostInv'
      BY <1>5, StepInvFrame, MessageInvFrame, HeldInvFrame, SentInvFrame, PostInvFrame
         DEF Inv, vars, cursors, prodVars, consVars
    <2>4. EntryInv' /\ SignInv' /\ UseInv' /\ DistinctInv' /\ OneInv'
      BY <1>5, EntryInvFrame, SignInvFrame, UseInvFrame, DistinctInvFrame, OneInvFrame
         DEF Inv, vars, cursors, prodVars, consVars
    <2> QED
      BY <2>1, <2>2, <2>3, <2>4 DEF Inv
  <1> QED
    BY <1>1, <1>2, <1>3, <1>4, <1>5 DEF Next

\* The inductive invariant holds in every state of the queue.
THEOREM Invariance == Spec => []Inv
  BY InitInv, NextInv, PTL DEF Spec

\* The cursors of the queue are in order and at most QueueSize entries are in use,
\* whatever the producers, the consumers and their restarts do.
THEOREM TypeCorrect == Spec => []TypeOK
  <1>1. Inv => TypeOK
    BY DEF Inv
  <1> QED
    BY <1>1, Invariance, PTL

\* HeldInv says what ReservedIsHeld says.
LEMMA InvReserved == Inv => ReservedIsHeld
  <1> SUFFICES ASSUME Inv, ~Numbered
               PROVE  /\ {pnum[p] : p \in Holders} = tail .. reserve - 1
                      /\ \A p, q \in Holders : p # q => pnum[p] # pnum[q]
    BY DEF ReservedIsHeld
  <1>1. \A p : p \in Holders <=> p \in Producers /\ Holds(p)
    BY DEF Holders, Holds
  <1>2. tail \in Nat /\ reserve \in Nat /\ pnum \in [Producers -> Nat]
    BY DEF Inv, TypeOK
  <1>3. ASSUME NEW n \in {pnum[p] : p \in Holders} PROVE n \in tail .. reserve - 1
    BY <1>1, <1>2 DEF Inv, HeldInv
  <1>4. ASSUME NEW n \in tail .. reserve - 1 PROVE n \in {pnum[p] : p \in Holders}
    <2>1. n \in Nat /\ tail <= n /\ n < reserve
      BY <1>2
    <2>2. PICK p \in Producers : Holds(p) /\ pnum[p] = n
      BY <2>1 DEF Inv, HeldInv
    <2> QED
      BY <1>1, <2>2
  <1>5. \A p, q \in Holders : p # q => pnum[p] # pnum[q]
    BY <1>1 DEF Inv, HeldInv
  <1> QED
    BY <1>3, <1>4, <1>5

\* Every number between tail and reserve is held by exactly one producer, also after
\* GetFreeEntryExp gave one back and after a restart of the producers.
THEOREM ReservedHeld == Spec => []ReservedIsHeld
  BY Invariance, InvReserved, PTL

\* What lies in one lap has slots of its own.
LEMMA InvNoSharing == Inv => NoSharing
  <1> SUFFICES ASSUME Inv PROVE NoSharing
    OBVIOUS
  <1> USE DEF Inv
  <1>0. release \in Nat
    BY DEF TypeOK
  <1>1. \A n : n \in Writing <=> \E p \in Producers : ppc[p] \in {"write", "post"} /\ pnum[p] = n
    BY DEF Writing
  <1>2. \A n : n \in Unreleased <=> n \in Nat /\ release <= n /\ \E m \in Nat : <<n, m>> \in sent
    <2>1. sent \subseteq Nat \X Nat
      BY DEF SentInv
    <2>2. ASSUME NEW n \in Unreleased
          PROVE  n \in Nat /\ release <= n /\ \E m \in Nat : <<n, m>> \in sent
      <3>1. PICK s \in sent : s[1] >= release /\ n = s[1]
        BY DEF Unreleased
      <3>2. s = <<s[1], s[2]>> /\ s[1] \in Nat /\ s[2] \in Nat
        BY <2>1
      <3>3. <<n, s[2]>> \in sent
        BY <3>1, <3>2
      <3> QED
        BY <1>0, <3>1, <3>2, <3>3
    <2>3. ASSUME NEW n \in Nat, release <= n, NEW m \in Nat, <<n, m>> \in sent
          PROVE  n \in Unreleased
      <3>1. <<n, m>>[1] = n /\ <<n, m>>[1] >= release
        BY <1>0, <2>3
      <3> QED
        BY <2>3, <3>1 DEF Unreleased
    <2> QED
      BY <2>2, <2>3
  <1>3. \A n \in Writing : n \in Nat /\ release <= n /\ n < release + QueueSize /\ n \notin Unreleased
    <2> TAKE n \in Writing
    <2>1. PICK p \in Producers : ppc[p] \in {"write", "post"} /\ pnum[p] = n
      BY <1>1
    <2> QED
      BY <1>2, <2>1, WritersApart
  <1>4. \A n \in Unreleased : n \in Nat /\ release <= n /\ n < release + QueueSize
    BY <1>2 DEF EntryInv
  <1>5. \A m, n \in Writing \cup Unreleased : m # n => Slot(m) # Slot(n)
    BY <1>0, <1>3, <1>4, SlotInjective
  <1>6. \A c \in Using : cnum[c] \in Unreleased
    BY <1>2 DEF Using, UseInv, Uses, TypeOK
  <1>7. \A c, d \in Using : c # d => cnum[c] # cnum[d]
    BY DEF Using, DistinctInv, Uses
  <1> QED
    BY <1>3, <1>5, <1>6, <1>7 DEF NoSharing

\* No producer fills a slot that holds a message which is not released or that another
\* producer fills, and no two consumers have one message.
THEOREM EntryInOneHand == Spec => []NoSharing
  BY Invariance, InvNoSharing, PTL

-----------------------------------------------------------------------------
(* The queue implements RedeliveryQueue.                                   *)

\* The numbers that are posted are no more than the calls of Push: each carries a message
\* of its own.
LEMMA PostsAreCalls ==
    ASSUME Inv, ~Numbered, NEW p \in Producers, ppc[p] # "idle"
    PROVE  tail \in 1 .. MaxPush
  <1> USE DEF Inv
  <1>1. /\ tail \in Nat /\ pushes \in Nat /\ pushes <= MaxPush /\ 1 <= tail
        /\ pmsg[p] \in Nat /\ 1 <= pmsg[p] /\ pmsg[p] <= pushes
    BY Sizes DEF TypeOK, MessageInv, BoundInv
  <1> DEFINE f == [n \in 1 .. tail |-> IF n = tail THEN pmsg[p]
                                       ELSE CHOOSE m \in Nat : <<n, m>> \in sent]
  <1>2. \A n \in 1 .. tail : n # tail => f[n] \in Nat /\ <<n, f[n]>> \in sent
    <2> TAKE n \in 1 .. tail
    <2> HAVE n # tail
    <2>1. \E m \in Nat : <<n, m>> \in sent
      BY <1>1 DEF SentInv
    <2>2. f[n] = CHOOSE m \in Nat : <<n, m>> \in sent
      OBVIOUS
    <2> QED
      BY <2>1, <2>2
  <1>3. f[tail] = pmsg[p]
    BY <1>1
  <1>4. \A n \in 1 .. tail : f[n] \in 1 .. pushes
    <2> HIDE DEF f
    <2> TAKE n \in 1 .. tail
    <2>1. CASE n = tail
      BY <1>1, <1>3, <2>1
    <2>2. CASE n # tail
      <3>1. n \in Nat /\ f[n] \in Nat /\ <<n, f[n]>> \in sent
        BY <1>1, <1>2, <2>2
      <3>2. 1 <= f[n] /\ f[n] <= pushes
        BY <3>1 DEF SentInv
      <3> QED
        BY <1>1, <3>1, <3>2
    <2> QED
      BY <2>1, <2>2
  <1>5. \A m, n \in 1 .. tail : f[m] = f[n] => m = n
    <2> HIDE DEF f
    <2> TAKE m, n \in 1 .. tail
    <2> HAVE f[m] = f[n]
    <2>1. m \in Nat /\ n \in Nat
      BY <1>1
    <2>2. \A k \in Nat : <<k, pmsg[p]>> \notin sent
      BY DEF MessageInv
    <2>3. CASE m = tail \/ n = tail
      BY <1>2, <1>3, <2>1, <2>2, <2>3
    <2>4. CASE m # tail /\ n # tail
      BY <1>2, <2>1, <2>4 DEF SentInv
    <2> QED
      BY <2>3, <2>4
  <1>6. f \in [1 .. tail -> 1 .. pushes]
    BY <1>4
  <1> HIDE DEF f
  <1>7. f \in Injection(1 .. tail, 1 .. pushes)
    BY <1>5, <1>6 DEF Injection, IsInjective
  <1>8. IsFiniteSet(1 .. tail) /\ IsFiniteSet(1 .. pushes)
    BY <1>1, FS_Interval
  <1>9. Cardinality(1 .. tail) = tail /\ Cardinality(1 .. pushes) = pushes
    BY <1>1, FS_Interval
  <1>10. Cardinality(1 .. tail) <= Cardinality(1 .. pushes)
    BY <1>7, <1>8, FS_Injection
  <1>11. tail <= pushes
    BY <1>9, <1>10
  <1> QED
    BY <1>1, <1>11, Sizes

\* PostEntry sends a message under a number that was not used.
LEMMA RedeliverySend ==
    ASSUME Inv, NEW p \in Producers, PostEntry(p) \/ RecorderPostEntry(p)
    PROVE  Redelivery!Send
  <1> USE DEF Inv
  <1>1. ppc[p] = "post" /\ UNCHANGED <<handled, release, crashes>>
        /\ sent' = sent \cup {<<pnum[p], pmsg[p]>>}
    BY DEF PostEntry, RecorderPostEntry, cursors, consVars
  <1>2. pmsg[p] \in 1 .. MaxPush /\ pnum[p] \in Nat
    BY <1>1, Sizes DEF TypeOK, MessageInv
  <1>3. pnum[p] \in 1 .. MaxPush
    <2>1. CASE PostEntry(p)
      BY <1>1, <2>1, PostsAreCalls DEF PostEntry
    <2>2. CASE RecorderPostEntry(p)
      BY <1>1, <1>2, <2>2 DEF RecorderPostEntry, StepInv
    <2> QED
      BY <2>1, <2>2
  <1>4. \A s \in sent : s[1] # pnum[p]
    <2> TAKE s \in sent
    <2>1. s = <<s[1], s[2]>> /\ s[1] \in Nat /\ s[2] \in Nat
      BY DEF SentInv
    <2>2. CASE PostEntry(p)
      <3>1. <<s[1], s[2]>> \in sent /\ pnum[p] = tail /\ ~Numbered
        BY <2>1, <2>2 DEF PostEntry
      <3> QED
        BY <1>2, <2>1, <3>1 DEF SentInv
    <2>3. CASE RecorderPostEntry(p)
      <3>1. <<s[1], s[2]>> \in sent /\ pnum[p] = pmsg[p] /\ Numbered
        BY <1>1, <2>1, <2>3 DEF RecorderPostEntry, StepInv
      <3>2. s[1] = s[2]
        BY <2>1, <3>1 DEF SentInv
      <3> QED
        BY <1>1, <2>1, <3>1, <3>2 DEF MessageInv
    <2> QED
      BY <2>2, <2>3
  <1> QED
    BY <1>1, <1>2, <1>3, <1>4 DEF Redelivery!Send

\* A consumer handles a message that was sent and is not released.
LEMMA RedeliveryHandle ==
    ASSUME Inv, NEW c \in Consumers, Handle(c)
    PROVE  Redelivery!Handle
  <1> USE DEF Inv
  <1>1. cpc[c] = "held" /\ UNCHANGED <<sent, release, crashes>>
        /\ handled' = handled \cup {<<cnum[c], Entry(cnum[c]).msg>>}
    BY DEF Handle, ConsStep, cursors, prodVars
  <1>2. cnum[c] \in Nat /\ release \in Nat
    BY DEF TypeOK
  <1>3. PICK m \in Nat : <<cnum[c], m>> \in sent /\ release <= cnum[c]
    BY <1>1 DEF UseInv, Uses
  <1>4. Entry(cnum[c]).msg = m
    BY <1>2, <1>3 DEF EntryInv
  <1>5. <<cnum[c], m>>[1] > release - 1
    BY <1>2, <1>3
  <1> QED
    BY <1>1, <1>3, <1>4, <1>5 DEF Redelivery!Handle

\* FreeEntry releases the first message, which was handled.
LEMMA RedeliveryRelease ==
    ASSUME Inv, NEW c \in Consumers, FreeEntry(c) \/ RecorderFreeEntry(c)
    PROVE  Redelivery!Release
  <1> USE DEF Inv
  <1>1. cpc[c] = "free" /\ UNCHANGED <<sent, handled, crashes>> /\ release' = release + 1
    BY DEF FreeEntry, RecorderFreeEntry, cursors, prodVars
  <1>2. cnum[c] = release /\ release \in Nat
    <2>1. CASE FreeEntry(c)
      BY <2>1, FreedInOrder DEF FreeEntry, TypeOK
    <2>2. CASE RecorderFreeEntry(c)
      <3>1. OneConsumer
        BY <2>2, SetupFacts DEF RecorderFreeEntry, Numbered, OneConsumer
      <3> QED
        BY <1>1, <3>1 DEF OneInv, Uses, TypeOK
    <2> QED
      BY <2>1, <2>2
  <1>3. PICK m \in Nat : <<cnum[c], m>> \in handled
    BY <1>1 DEF UseInv
  <1>4. <<cnum[c], m>>[1] = (release - 1) + 1
    BY <1>2
  <1>5. release' - 1 = (release - 1) + 1
    BY <1>1, <1>2
  <1> QED
    BY <1>1, <1>3, <1>4, <1>5 DEF Redelivery!Release

\* A restart hands messages out again or drops what was taken.
LEMMA RedeliveryRestart ==
    ASSUME Inv, Restarts
    PROVE  Redelivery!Redeliver \/ Redelivery!Drop
  <1>1. Restart /\ release' \in {release, head}
    BY DEF Restarts, ConsumerEndConsistent, ProducerEndConsistent, Consistent, RestoreHead
  <1>2. /\ UNCHANGED <<sent, handled>> /\ crashes' = crashes + 1 /\ ~Numbered
        /\ head \in Nat /\ release \in Nat /\ tail \in Nat
        /\ release <= head /\ head <= tail /\ 1 <= release
    BY <1>1, RestartFacts
  <1>3. CASE release' = release
    BY <1>2, <1>3 DEF Redelivery!Redeliver
  <1>4. CASE release' = head /\ head # release
    <2>1. head - 1 \in Nat /\ 1 <= head - 1 /\ head - 1 < tail
      BY <1>2, <1>4
    <2>2. PICK m \in Nat : <<head - 1, m>> \in sent
      BY <1>2, <2>1 DEF Inv, SentInv
    <2>3. <<head - 1, m>>[1] = head - 1 /\ head - 1 > release - 1
      BY <1>2, <1>4
    <2>4. release' - 1 = head - 1
      BY <1>4
    <2> QED
      BY <1>2, <2>2, <2>3, <2>4 DEF Redelivery!Drop
  <1> QED
    BY <1>1, <1>3, <1>4

\* The queue implements RedeliveryQueue: messages are handled as they were posted, released
\* in order and after they were handled, and a restart hands out again or drops what was taken
\* and not released.
THEOREM Refinement == Spec => ImplementsRedelivery
  <1> DEFINE aVars == <<sent, handled, release - 1, crashes>>
  <1>1. Init => Redelivery!Init
    BY DEF Init, Redelivery!Init, QUEUE_CURSOR_INIT_VALUE
  <1>2. Inv /\ [Next]_vars => [Redelivery!Next]_aVars
    <2> SUFFICES ASSUME Inv, [Next]_vars PROVE Redelivery!Next \/ UNCHANGED aVars
      OBVIOUS
    <2> USE DEF Redelivery!Next
    <2>1. ASSUME NEW p \in Producers, CallPush(p) PROVE UNCHANGED aVars
      BY <2>1 DEF CallPush, cursors, consVars
    <2>2. ASSUME NEW p \in Producers, ProducerStep(p) PROVE Redelivery!Next \/ UNCHANGED aVars
      <3>1. CASE PostEntry(p) \/ RecorderPostEntry(p)
        BY <3>1, RedeliverySend
      <3>2. CASE FindRoom(p) \/ CasReserve(p) \/ RollBack(p) \/ AllocEntry(p)
        BY <3>2 DEF FindRoom, CasReserve, RollBack, AllocEntry, consVars
      <3>3. CASE \/ ReadRelease(p) \/ RefreshThreshold(p) \/ TryAgain(p) \/ QueueFull(p)
                 \/ WritePayload(p)
        BY <3>3 DEF ReadRelease, RefreshThreshold, TryAgain, QueueFull, WritePayload, cursors, consVars
      <3> QED
        BY <2>2, <3>1, <3>2, <3>3 DEF ProducerStep
    <2>3. ASSUME NEW c \in Consumers, ConsumerStep(c) PROVE Redelivery!Next \/ UNCHANGED aVars
      <3>1. CASE Handle(c)
        BY <3>1, RedeliveryHandle
      <3>2. CASE FreeEntry(c) \/ RecorderFreeEntry(c)
        BY <3>2, RedeliveryRelease
      <3>3. CASE WaitEntry(c) \/ CasHead(c) \/ RecorderWaitEntry(c) \/ MoveHead(c)
        BY <3>3 DEF WaitEntry, CasHead, RecorderWaitEntry, MoveHead, prodVars
      <3>4. CASE ReadHead(c) \/ ReadTail(c) \/ StoreTail(c)
        BY <3>4 DEF ReadHead, ReadTail, StoreTail, cursors, prodVars
      <3> QED
        BY <2>3, <3>1, <3>2, <3>3, <3>4 DEF ConsumerStep
    <2>4. ASSUME Restarts PROVE Redelivery!Next
      BY <2>4, RedeliveryRestart
    <2>5. ASSUME UNCHANGED vars PROVE UNCHANGED aVars
      BY <2>5 DEF vars, cursors, prodVars, consVars
    <2> QED
      BY <2>1, <2>2, <2>3, <2>4, <2>5 DEF Next
  <1> QED
    BY <1>1, <1>2, Invariance, PTL DEF Spec, ImplementsRedelivery, Redelivery!Spec

=============================================================================
