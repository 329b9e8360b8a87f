------------------------------ MODULE MsgQueue ------------------------------
(***************************************************************************)
(* The fixed-size message queues of ADK (MPSCQueue, SPMCQueue, SPSCQueue,  *)
(* SCSequentialQueue): entries in a ring, four cursors in a header that    *)
(* may lie in shared memory, and in every queue object a cached bound for  *)
(* the two tests for room and for data.                                    *)
(*                                                                         *)
(* setup names the calls the application uses:                             *)
(*   prod "cas"      MPSCQueue::Push, AllocEntry/PostEntry                 *)
(*        "exp"      MPSCQueue::PushExp                                    *)
(*        "single"   SPMCQueue::Push, SPSCQueue::Push, the only producer   *)
(*        "reorder"  SPSCQueue::ReorderPush, producers with numbers of     *)
(*                   the application                                       *)
(*        "seq"      SCSequentialQueue::Push, the same                     *)
(*   cons "entry"    MPSCQueue::WaitEntry by one thread, FreeEntry by any  *)
(*        "peek"     the same with is_peek                                 *)
(*        "pop"      MPSCQueue::Pop(T&), PopExp, SPSCQueue::Pop            *)
(*        "multi"    SPMCQueue::WaitEntry/FreeEntry by several threads     *)
(*        "reorder"  SPSCQueue::ReorderPop                                 *)
(*        "seq"      SCSequentialQueue::Pop                                *)
(*   shared          whether the threads of a role use one queue object    *)
(*                   (one process) or each its own (attached, Duplicate):  *)
(*                   the bounds are plain members, written without a lock  *)
(*                                                                         *)
(* Processes may crash and attach again (the ...Consistent calls).         *)
(* release_alert_ is left out: nothing but tests sets it on these classes. *)
(***************************************************************************)
EXTENDS Integers, FiniteSets

CONSTANTS Producers, Consumers,
          QueueSize,
          Setups,      \* the combinations of calls that are looked at
          MaxPush,     \* bound: calls of Push
          MaxCrash     \* bound: restarts

ProdKinds == {"cas", "exp", "single", "reorder", "seq"}
ConsKinds == {"entry", "peek", "pop", "multi", "reorder", "seq"}

ASSUME MsgQueueAssumption ==
    /\ Producers # {} /\ Consumers # {}
    /\ QueueSize \in Nat \ {0}
    /\ Setups \subseteq [prod : ProdKinds, cons : ConsKinds, shared : BOOLEAN]
    /\ \A s \in Setups : \A numbered \in {"reorder", "seq"} :
           s.prod = numbered <=> s.cons = numbered
    /\ \A s \in Setups : s.prod = "exp" => s.cons = "pop"
    /\ MaxPush \in Nat /\ MaxCrash \in Nat

VARIABLES
    setup,
    reserve, tail, head, release,  \* the cursors of QueueMemoryHeader
    slots,                         \* the entries: pos and payload
    ppc, pnum, pmsg,               \* producer: step, number, message
    read_release,                  \* the value of release it has read
    reserve_threshold,             \* per object: the bound for room
    cpc, cnum,                     \* consumer: step, number of its entry
    read_tail,                     \* the value of tail it has read
    head_threshold,                \* per object: the bound for data
    pushes, crashes,               \* calls of Push, restarts so far
    sent, handled                  \* histories: <<number, message>> posted, handled

cursors  == <<reserve, tail, head, release>>
prodVars == <<ppc, pnum, pmsg, read_release, reserve_threshold, pushes, sent>>
consVars == <<cpc, cnum, read_tail, head_threshold, handled>>
vars == <<setup, cursors, slots, prodVars, consVars, crashes>>

QUEUE_CURSOR_INIT_VALUE == 1

Init ==
    /\ setup \in Setups
    /\ reserve = QUEUE_CURSOR_INIT_VALUE /\ tail = QUEUE_CURSOR_INIT_VALUE
    /\ head = QUEUE_CURSOR_INIT_VALUE /\ release = QUEUE_CURSOR_INIT_VALUE
    /\ slots = [i \in 0 .. QueueSize - 1 |-> [pos |-> 0, msg |-> 0]]
    /\ ppc = [p \in Producers |-> "idle"] /\ pnum = [p \in Producers |-> 0]
    /\ pmsg = [p \in Producers |-> 0] /\ read_release = [p \in Producers |-> 0]
    /\ reserve_threshold = [p \in Producers |-> QueueSize]
    /\ cpc = [c \in Consumers |-> "idle"] /\ cnum = [c \in Consumers |-> 0]
    /\ read_tail = [c \in Consumers |-> 0] /\ head_threshold = [c \in Consumers |-> 0]
    /\ pushes = 0 /\ crashes = 0 /\ sent = {} /\ handled = {}

Slot(n) == n % QueueSize          \* GetInQueueIndex
Entry(n) == slots[Slot(n)]

\* The numbers come from the application.
Numbered == setup.prod \in {"reorder", "seq"}

\* The thread that is alone in its role where the class allows only one.
Producer1 == CHOOSE p \in Producers : TRUE
Consumer1 == CHOOSE c \in Consumers : TRUE

\* The thread whose name stands for the queue object a thread uses.
ProdObject(p) == IF setup.shared THEN Producer1 ELSE p
ConsObject(c) == IF setup.shared \/ setup.cons # "multi" THEN Consumer1 ELSE c

ProdStep(p, from, to) == ppc[p] = from /\ ppc' = [ppc EXCEPT ![p] = to]
ConsStep(c, from, to) == cpc[c] = from /\ cpc' = [cpc EXCEPT ![c] = to]

\* A call is over, and its locals with it.
PushReturns(p) ==
    /\ ppc' = [ppc EXCEPT ![p] = "idle"]
    /\ pnum' = [pnum EXCEPT ![p] = 0] /\ pmsg' = [pmsg EXCEPT ![p] = 0]

FreeReturns(c) == cpc' = [cpc EXCEPT ![c] = "idle"] /\ cnum' = [cnum EXCEPT ![c] = 0]

-----------------------------------------------------------------------------
(* A producer.                                                             *)

CallPush(p) ==
    /\ pushes < MaxPush
    /\ setup.prod = "single" => p = Producer1
    /\ ProdStep(p, "idle", "room")
    /\ pushes' = pushes + 1
    /\ pmsg' = [pmsg EXCEPT ![p] = pushes + 1]
    /\ UNCHANGED <<setup, cursors, slots, pnum, read_release, reserve_threshold, sent, consVars,
                   crashes>>

\* The number a producer has found room for leads on to:
Granted == CASE setup.prod = "cas" -> "cas"
             [] setup.prod = "single" -> "alloc"
             [] OTHER -> "write"

\* The first test of GetFreeEntry, AllocEntry and ReorderAllocEntry, with the
\* bound the object holds; GetFreeEntryExp takes the number first.
FindRoom(p) ==
    /\ pnum' = [pnum EXCEPT ![p] = IF Numbered THEN pmsg[p] ELSE reserve]
    /\ ProdStep(p, "room",
                IF pnum'[p] >= reserve_threshold[ProdObject(p)] THEN "refresh" ELSE Granted)
    /\ reserve' = IF setup.prod = "exp" THEN reserve + 1 ELSE reserve
    /\ UNCHANGED <<setup, tail, head, release, slots, pmsg, read_release,
                   reserve_threshold, pushes, sent, consVars, crashes>>

\* The bound is read again, and the test repeated; a store of another thread to
\* the same object's bound may come in between, and be overwritten.
ReadRelease(p) ==
    /\ ProdStep(p, "refresh", "bound")
    /\ read_release' = [read_release EXCEPT ![p] = release]
    /\ UNCHANGED <<setup, cursors, slots, pnum, pmsg, reserve_threshold, pushes, sent, consVars,
                   crashes>>

\* Mutant: room for one entry more.
RefreshThresholdOneMore(p) ==
    LET bound == read_release[p] + QueueSize + 1
    IN  /\ ProdStep(p, "bound", CASE pnum[p] < bound -> Granted
                                  [] pnum[p] >= bound /\ setup.prod = "exp" -> "rollback"
                                  [] OTHER -> "full")
        /\ reserve_threshold' = [reserve_threshold EXCEPT ![ProdObject(p)] = bound]
        /\ read_release' = [read_release EXCEPT ![p] = 0]
        /\ UNCHANGED <<setup, cursors, slots, pnum, pmsg, pushes, sent, consVars, crashes>>

RefreshThreshold(p) ==
    LET bound == read_release[p] + QueueSize
    IN  /\ ProdStep(p, "bound", CASE pnum[p] < bound -> Granted
                                  [] pnum[p] >= bound /\ setup.prod = "exp" -> "rollback"
                                  [] OTHER -> "full")
        /\ reserve_threshold' = [reserve_threshold EXCEPT ![ProdObject(p)] = bound]
        /\ read_release' = [read_release EXCEPT ![p] = 0]
        /\ UNCHANGED <<setup, cursors, slots, pnum, pmsg, pushes, sent, consVars, crashes>>

\* GetFreeEntry: the number is taken unless another producer was faster.
CasReserve(p) ==
    /\ ProdStep(p, "cas", IF reserve = pnum[p] THEN "write" ELSE "room")
    /\ reserve' = IF reserve = pnum[p] THEN reserve + 1 ELSE reserve
    /\ UNCHANGED <<setup, tail, head, release, slots, pnum, pmsg, read_release,
                   reserve_threshold, pushes, sent, consVars, crashes>>

\* Mutant: the number goes back without a look at who came later.
RollBackAlways(p) ==
    /\ ProdStep(p, "rollback", "full")
    /\ reserve' = reserve - 1
    /\ UNCHANGED <<setup, tail, head, release, slots, pnum, pmsg, read_release,
                   reserve_threshold, pushes, sent, consVars, crashes>>

\* GetFreeEntryExp: the number goes back if it is still the last one taken,
\* otherwise the loop starts again with the bound the object holds by now.
RollBack(p) ==
    /\ ProdStep(p, "rollback", CASE reserve = pnum[p] + 1 -> "full"
                                 [] reserve # pnum[p] + 1 /\ pnum[p] < reserve_threshold[ProdObject(p)]
                                       -> Granted
                                 [] OTHER -> "refresh")
    /\ reserve' = IF reserve = pnum[p] + 1 THEN pnum[p] ELSE reserve
    /\ UNCHANGED <<setup, tail, head, release, slots, pnum, pmsg, read_release,
                   reserve_threshold, pushes, sent, consVars, crashes>>

\* SPMCQueue::AllocEntry.
AllocEntry(p) ==
    /\ ProdStep(p, "alloc", "write")
    /\ reserve' = reserve + 1
    /\ UNCHANGED <<setup, tail, head, release, slots, pnum, pmsg, read_release,
                   reserve_threshold, pushes, sent, consVars, crashes>>

\* kQueueFull: the caller tries again, or drops the message; numbers of the
\* application have to come, so ReorderPush is repeated.
TryAgain(p) ==
    /\ ProdStep(p, "full", "room")
    /\ UNCHANGED <<setup, cursors, slots, pnum, pmsg, read_release,
                   reserve_threshold, pushes, sent, consVars, crashes>>

QueueFull(p) ==
    /\ ~Numbered
    /\ ppc[p] = "full" /\ PushReturns(p)
    /\ UNCHANGED <<setup, cursors, slots, read_release, reserve_threshold, pushes, sent,
                   consVars, crashes>>

\* The entry's pos, where the call sets it, and the payload.
WritePayload(p) ==
    /\ ProdStep(p, "write", "post")
    /\ slots' = [slots EXCEPT ![Slot(pnum[p])] =
                    [pos |-> IF setup.prod \in {"cas", "single"} THEN pnum[p] ELSE @.pos,
                     msg |-> pmsg[p]]]
    /\ UNCHANGED <<setup, cursors, pnum, pmsg, read_release, reserve_threshold, pushes, sent, consVars,
                   crashes>>

\* PostEntry, PostEntryExp: it waits for its turn.
PostEntry(p) ==
    /\ ~Numbered /\ ppc[p] = "post" /\ tail = pnum[p]
    /\ tail' = pnum[p] + 1
    /\ sent' = sent \cup {<<pnum[p], pmsg[p]>>}
    /\ PushReturns(p)
    /\ UNCHANGED <<setup, reserve, head, release, slots, read_release, reserve_threshold, pushes,
                   consVars, crashes>>

\* The pos says that the entry of this number is there: it is negative, or, in
\* SCSequentialQueue, the number itself.
RecorderPostEntry(p) ==
    /\ Numbered /\ ppc[p] = "post"
    /\ slots' = [slots EXCEPT ![Slot(pnum[p])].pos =
                                    IF setup.prod = "seq" THEN pnum[p] ELSE -pnum[p]]
    /\ sent' = sent \cup {<<pnum[p], pmsg[p]>>}
    /\ PushReturns(p)
    /\ UNCHANGED <<setup, cursors, read_release, reserve_threshold, pushes, consVars, crashes>>

-----------------------------------------------------------------------------
(* A consumer.                                                             *)

\* MPSCQueue::WaitEntry, called by one thread; the entry goes to whoever will
\* free it.
WaitEntry(c) ==
    LET known == head_threshold[ConsObject(c)]
        bound == IF head >= known THEN tail ELSE known
    IN  /\ setup.cons \in {"entry", "peek", "pop"}
        /\ setup.cons # "entry" => c = Consumer1
        /\ head_threshold' = [head_threshold EXCEPT ![ConsObject(c)] = bound]
        /\ ConsStep(c, "idle", IF head < bound THEN "held" ELSE "idle")
        /\ cnum' = [cnum EXCEPT ![c] = IF head < bound THEN head ELSE @]
        /\ head' = IF head < bound /\ setup.cons # "peek" THEN head + 1 ELSE head
        /\ UNCHANGED <<setup, reserve, tail, release, slots, read_tail, handled, prodVars, crashes>>

\* SPMCQueue::GetPostEntry, its loop.
ReadHead(c) ==
    /\ setup.cons = "multi"
    /\ cpc[c] \in {"idle", "again"}
    /\ cpc' = [cpc EXCEPT ![c] = IF head >= head_threshold[ConsObject(c)] THEN "tail" ELSE "cas"]
    /\ cnum' = [cnum EXCEPT ![c] = head]
    /\ UNCHANGED <<setup, cursors, slots, read_tail, head_threshold, handled, prodVars, crashes>>

ReadTail(c) ==
    /\ ConsStep(c, "tail", "bound")
    /\ read_tail' = [read_tail EXCEPT ![c] = tail]
    /\ UNCHANGED <<setup, cursors, slots, cnum, head_threshold, handled, prodVars, crashes>>

StoreTail(c) ==
    /\ ConsStep(c, "bound", IF cnum[c] >= read_tail[c] THEN "idle" ELSE "cas")
    /\ head_threshold' = [head_threshold EXCEPT ![ConsObject(c)] = read_tail[c]]
    /\ read_tail' = [read_tail EXCEPT ![c] = 0]
    /\ UNCHANGED <<setup, cursors, slots, cnum, handled, prodVars, crashes>>

\* Mutant: the head is moved without comparing it.
MoveHeadBlindly(c) ==
    /\ ConsStep(c, "cas", "held")
    /\ head' = cnum[c] + 1
    /\ UNCHANGED <<setup, reserve, tail, release, slots, cnum, read_tail, head_threshold,
                   handled, prodVars, crashes>>

CasHead(c) ==
    /\ ConsStep(c, "cas", IF head = cnum[c] THEN "held" ELSE "again")
    /\ head' = IF head = cnum[c] THEN head + 1 ELSE head
    /\ UNCHANGED <<setup, reserve, tail, release, slots, cnum, read_tail, head_threshold, handled,
                   prodVars, crashes>>

RecorderWaitEntry(c) ==
    /\ Numbered /\ c = Consumer1
    /\ IF setup.cons = "seq" THEN Entry(head).pos = head ELSE Entry(head).pos < 0
    /\ ConsStep(c, "idle", "held")
    /\ cnum' = [cnum EXCEPT ![c] = head]
    /\ head' = head + 1
    /\ UNCHANGED <<setup, reserve, tail, release, slots, read_tail, head_threshold, handled,
                   prodVars, crashes>>

\* The application reads the entry, or Pop copies it.
Handle(c) ==
    /\ ConsStep(c, "held", IF setup.cons = "peek" THEN "head" ELSE "free")
    /\ handled' = handled \cup {<<cnum[c], Entry(cnum[c]).msg>>}
    /\ UNCHANGED <<setup, cursors, slots, cnum, read_tail, head_threshold, prodVars, crashes>>

\* FreeEntry<peek> moves the head first.
MoveHead(c) ==
    /\ ConsStep(c, "head", "free")
    /\ head' = Entry(cnum[c]).pos + 1
    /\ UNCHANGED <<setup, reserve, tail, release, slots, cnum, read_tail, head_threshold, handled,
                   prodVars, crashes>>

\* Mutant: entries are freed in any order.
FreeEntryAtOnce(c) ==
    /\ ~Numbered /\ cpc[c] = "free"
    /\ release' = release + 1
    /\ FreeReturns(c)
    /\ UNCHANGED <<setup, reserve, tail, head, slots, read_tail, head_threshold, handled,
                   prodVars, crashes>>

\* FreeEntry waits until all earlier entries are free; the end of Pop and
\* SPSCQueue::FreeEntry do not.
FreeEntry(c) ==
    /\ ~Numbered /\ cpc[c] = "free"
    /\ setup.cons # "pop" => release = Entry(cnum[c]).pos
    /\ release' = release + 1
    /\ FreeReturns(c)
    /\ UNCHANGED <<setup, reserve, tail, head, slots, read_tail, head_threshold, handled,
                   prodVars, crashes>>

RecorderFreeEntry(c) ==
    /\ Numbered /\ cpc[c] = "free"
    /\ slots' = [slots EXCEPT ![Slot(cnum[c])].pos =
                                    IF setup.cons = "seq" THEN @ ELSE -@]
    /\ release' = release + 1
    /\ FreeReturns(c)
    /\ UNCHANGED <<setup, reserve, tail, head, read_tail, head_threshold, handled, prodVars,
                   crashes>>

-----------------------------------------------------------------------------
(* Restarts.  A process is gone with its threads; its successor attaches   *)
(* to the queue, whose object starts with fresh bounds (Init).             *)

ProducersGone ==
    /\ ppc' = [p \in Producers |-> "idle"] /\ pnum' = [p \in Producers |-> 0]
    /\ pmsg' = [p \in Producers |-> 0] /\ read_release' = [p \in Producers |-> 0]
    /\ reserve_threshold' = [p \in Producers |-> QueueSize]

ConsumersGone ==
    /\ cpc' = [c \in Consumers |-> "idle"] /\ cnum' = [c \in Consumers |-> 0]
    /\ read_tail' = [c \in Consumers |-> 0] /\ head_threshold' = [c \in Consumers |-> 0]

\* The calls exist for MPSCQueue and SPMCQueue.
Restart == /\ crashes < MaxCrash
           /\ ~Numbered /\ <<setup.prod, setup.cons>> # <<"single", "pop">>
           /\ crashes' = crashes + 1
           /\ UNCHANGED <<setup, tail, slots, pushes, sent, handled>>

RestoreHead(fix_elem_leak) ==
    /\ head' = IF fix_elem_leak THEN release ELSE head
    /\ release' = IF fix_elem_leak THEN release ELSE head

ConsumerEndConsistent(fix_elem_leak) ==
    /\ Restart /\ ConsumersGone /\ RestoreHead(fix_elem_leak)
    /\ UNCHANGED <<reserve, ppc, pnum, pmsg, read_release, reserve_threshold>>

\* Mutant: numbers that were taken and not posted stay taken.
ProducerEndConsistentLeaks ==
    /\ Restart /\ ProducersGone
    /\ UNCHANGED <<reserve, head, release, cpc, cnum, read_tail, head_threshold>>

ProducerEndConsistent ==
    /\ Restart /\ ProducersGone
    /\ reserve' = tail
    /\ UNCHANGED <<head, release, cpc, cnum, read_tail, head_threshold>>

\* Both ends were in the process that crashed.
Consistent(fix_elem_leak) ==
    /\ Restart /\ ProducersGone /\ ConsumersGone
    /\ RestoreHead(fix_elem_leak)
    /\ reserve' = tail

-----------------------------------------------------------------------------
ProducerStep(p) ==
    \/ FindRoom(p) \/ ReadRelease(p) \/ RefreshThreshold(p) \/ CasReserve(p) \/ RollBack(p)
    \/ AllocEntry(p) \/ TryAgain(p) \/ QueueFull(p) \/ WritePayload(p) \/ PostEntry(p)
    \/ RecorderPostEntry(p)

ConsumerStep(c) ==
    \/ WaitEntry(c) \/ ReadHead(c) \/ ReadTail(c) \/ StoreTail(c) \/ CasHead(c)
    \/ RecorderWaitEntry(c) \/ Handle(c) \/ MoveHead(c) \/ FreeEntry(c) \/ RecorderFreeEntry(c)

Restarts == \/ \E fix \in BOOLEAN : ConsumerEndConsistent(fix)
            \/ ProducerEndConsistent
            \/ \E fix \in BOOLEAN : Consistent(fix)

Next == \/ \E p \in Producers : CallPush(p) \/ ProducerStep(p)
        \/ \E c \in Consumers : ConsumerStep(c)
        \/ Restarts

Spec == Init /\ [][Next]_vars

\* Threads inside a call are scheduled, and consumers keep polling; calls of Push
\* and crashes need not happen.
FairSpec == /\ Spec
            /\ \A p \in Producers : WF_vars(ProducerStep(p))
            /\ \A c \in Consumers : WF_vars(ConsumerStep(c))

-----------------------------------------------------------------------------
(* Properties.                                                             *)

ProdSteps == {"idle", "room", "refresh", "bound", "cas", "alloc", "rollback", "full", "write",
              "post"}
ConsSteps == {"idle", "again", "tail", "bound", "cas", "held", "head", "free"}

\* The state of the queue and its users; the cursors are in order and at most
\* QueueSize entries are in use.
TypeOK ==
    /\ setup \in Setups
    /\ reserve \in Nat /\ tail \in Nat /\ head \in Nat /\ release \in Nat
    /\ release <= head /\ head <= release + QueueSize
    /\ ~Numbered => head <= tail /\ tail <= release + QueueSize
    /\ slots \in [0 .. QueueSize - 1 -> [pos : Int, msg : 0 .. MaxPush]]
    /\ ppc \in [Producers -> ProdSteps] /\ cpc \in [Consumers -> ConsSteps]
    /\ pnum \in [Producers -> Nat] /\ cnum \in [Consumers -> Nat]
    /\ pmsg \in [Producers -> 0 .. MaxPush] /\ pushes \in 0 .. MaxPush
    /\ read_release \in [Producers -> Nat] /\ read_tail \in [Consumers -> Nat]
    /\ reserve_threshold \in [Producers -> Nat] /\ head_threshold \in [Consumers -> Nat]
    /\ crashes \in 0 .. MaxCrash

Holders == {p \in Producers : ppc[p] \in {"write", "post"}
                \/ (setup.prod = "exp" /\ ppc[p] \in {"refresh", "bound", "rollback"})}

\* The numbers between tail and reserve are held by producers, each by one:
\* else PostEntry would wait for a number that nobody posts, or two would post
\* the same.  RollBack and a restart of the producers give numbers back.
ReservedIsHeld ==
    ~Numbered =>
        /\ {pnum[p] : p \in Holders} = tail .. reserve - 1
        /\ \A p, q \in Holders : p # q => pnum[p] # pnum[q]

Writing == {pnum[p] : p \in {q \in Producers : ppc[q] \in {"write", "post"}}}
Unreleased == {s[1] : s \in {t \in sent : t[1] >= release}}
Using == {c \in Consumers : cpc[c] \in {"held", "head", "free"}}

\* An entry is in one hand: no producer fills a slot whose message is not yet
\* released, or that another one fills, and no two consumers get one message.
NoSharing ==
    /\ Writing \cap Unreleased = {}
    /\ \A m, n \in Writing \cup Unreleased : m # n => Slot(m) # Slot(n)
    /\ \A c \in Using : cnum[c] \in Unreleased
    /\ \A c, d \in Using : c # d => cnum[c] # cnum[d]

Redelivery == INSTANCE RedeliveryQueue WITH
                  Number <- 1 .. MaxPush, Message <- 1 .. MaxPush,
                  released <- release - 1, restarts <- crashes

\* Whatever the interleaving, and whoever crashes: each message is handled as
\* it was posted, released in order and not before it was handled, and a restart
\* hands out again what was not released ("队列中未消费的消息，可能有重复消息",
\* ConsumerEndConsistent).
ImplementsRedelivery == Redelivery!Spec

\* In the end everything that was posted has been released, and no producer is
\* left waiting for its turn.
Drained == <>[](/\ \A p \in Producers : ppc[p] = "idle"
                /\ Unreleased = {})
=============================================================================
