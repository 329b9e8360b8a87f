----------------------------- MODULE MemoryPool -----------------------------
(***************************************************************************)
(* MemoryPool: blocks of shared memory whose free ones lie in two          *)
(* SPMCQueues, the regular and the emergent one.  NewBuffer takes from the *)
(* first, NewEmergentBuffer from the second, else the first, else it       *)
(* spins; a flag in the block tells DeleteBuffer which queue it came from. *)
(* Several threads may take, one gives back (the queues have a single      *)
(* producer).  WaitEntry and AllocEntry are single steps here: module      *)
(* MsgQueue shows what the queues do under interleaving.                   *)
(*                                                                         *)
(* A crash ends the threads of the pool's process; what applications hold  *)
(* they still hold afterwards, and Consistent is called.                   *)
(***************************************************************************)
EXTENDS Naturals, FiniteSets

CONSTANTS Users,        \* threads that call NewBuffer, NewEmergentBuffer
          BlockNum,     \* mp_block_num
          EmergentNum,  \* mp_emergent_block_num
          MaxNew,       \* bound: calls
          MaxCrash      \* bound: crashes

ASSUME MemoryPoolAssumption ==
    /\ BlockNum \in Nat \ {0} /\ EmergentNum \in Nat \ {0}
    /\ MaxNew \in Nat /\ MaxCrash \in Nat

Queues == {"buffer", "emergent"}      \* buffer_queue_, emergent_buffer_queue_
QueueSize(q) == IF q = "buffer" THEN BlockNum ELSE EmergentNum
Regular == 1 .. BlockNum
Emergent == BlockNum + 1 .. BlockNum + EmergentNum
Blocks == Regular \cup Emergent

VARIABLES
    reserve, tail, head, release,    \* per queue: its cursors
    slots,                           \* per queue: its entries
    flagged,                         \* blocks with ADK_MEMORY_BUFFER_EMERGENT
    upc, uqueue, upos,               \* user: step, queue and number of its entry
    dpc, dqueue, dbuf,               \* deleter: step, queue, block
    is_release_alert, is_release_alert_always,
    owned,                           \* blocks the applications hold
    lost, refused, torn,             \* histories: blocks in the hands of a user that
                                     \* crashed; blocks DeleteBuffer did not take;
                                     \* whether a crash hit a DeleteBuffer of an
                                     \* emergent block after its flag was reset
    news, crashes

cursors == <<reserve, tail, head, release>>
userVars == <<upc, uqueue, upos, news>>
deleteVars == <<dpc, dqueue, dbuf>>
alerts == <<is_release_alert, is_release_alert_always>>
histories == <<lost, refused, torn>>
vars == <<cursors, slots, flagged, userVars, deleteVars, alerts, owned, histories, crashes>>

\* CreateSharedPool sets the cursors to 0; MemoryPool::Init posts every block.
Init ==
    /\ reserve = [q \in Queues |-> QueueSize(q)] /\ tail = [q \in Queues |-> QueueSize(q)]
    /\ head = [q \in Queues |-> 0] /\ release = [q \in Queues |-> 0]
    /\ slots = [q \in Queues |-> [i \in 0 .. QueueSize(q) - 1 |->
                   IF q = "buffer" THEN i + 1 ELSE BlockNum + i + 1]]
    /\ flagged = {}
    /\ upc = [u \in Users |-> "idle"] /\ uqueue = [u \in Users |-> "buffer"]
    /\ upos = [u \in Users |-> 0] /\ news = 0
    /\ dpc = "idle" /\ dqueue = "buffer" /\ dbuf = 0
    /\ is_release_alert = FALSE /\ is_release_alert_always = FALSE
    /\ owned = {} /\ lost = {} /\ refused = {} /\ torn = FALSE /\ crashes = 0

Block(q, n) == slots[q][n % QueueSize(q)]
Buffer(u) == Block(uqueue[u], upos[u])

-----------------------------------------------------------------------------
(* NewBuffer and NewEmergentBuffer.                                        *)

UserStep(u, from, to) == upc[u] = from /\ upc' = [upc EXCEPT ![u] = to]

\* NewBuffer starts with "new", NewEmergentBuffer with "emergent".
CallNew(u, first) ==
    /\ news < MaxNew
    /\ news' = news + 1
    /\ UserStep(u, "idle", first)
    /\ UNCHANGED <<cursors, slots, flagged, uqueue, upos, deleteVars, alerts, owned, histories,
                   crashes>>

\* SPMCQueue::WaitEntry: the user goes on to one of two steps.
WaitEntry(u, q, from, taken, empty) ==
    /\ UserStep(u, from, IF head[q] < tail[q] THEN taken ELSE empty)
    /\ IF head[q] < tail[q]
       THEN /\ head' = [head EXCEPT ![q] = @ + 1]
            /\ uqueue' = [uqueue EXCEPT ![u] = q] /\ upos' = [upos EXCEPT ![u] = head[q]]
       ELSE UNCHANGED <<head, uqueue, upos>>
    /\ UNCHANGED <<reserve, tail, release, slots, flagged, news, deleteVars, alerts, owned,
                   histories, crashes>>

NewBuffer(u) == WaitEntry(u, "buffer", "new", "free", "idle")

\* The loop of NewEmergentBuffer.
WaitEmergent(u) == WaitEntry(u, "emergent", "emergent", "mark", "regular")

\* Mutant: a block of the regular queue gets the flag, too.
WaitRegularMarks(u) == WaitEntry(u, "buffer", "regular", "mark", "alert")

WaitRegular(u) == WaitEntry(u, "buffer", "regular", "free", "alert")

CheckAlert(u) ==
    /\ UserStep(u, "alert", CASE is_release_alert -> "clear"
                              [] ~is_release_alert /\ is_release_alert_always -> "idle"
                              [] OTHER -> "emergent")
    /\ UNCHANGED <<cursors, slots, flagged, uqueue, upos, news, deleteVars, alerts, owned,
                   histories, crashes>>

ClearAlert(u) ==
    /\ UserStep(u, "clear", "idle")
    /\ is_release_alert' = FALSE
    /\ UNCHANGED <<cursors, slots, flagged, uqueue, upos, news, deleteVars,
                   is_release_alert_always, owned, histories, crashes>>

\* Mutant: the flag is not set.
SetNoFlag(u) ==
    /\ UserStep(u, "mark", "free")
    /\ UNCHANGED <<cursors, slots, flagged, uqueue, upos, news, deleteVars, alerts, owned,
                   histories, crashes>>

SetEmergentFlag(u) ==
    /\ UserStep(u, "mark", "free")
    /\ flagged' = flagged \cup {Buffer(u)}
    /\ UNCHANGED <<cursors, slots, uqueue, upos, news, deleteVars, alerts, owned, histories,
                   crashes>>

\* Mutant: entries are freed in any order.
FreeEntryAtOnce(u) ==
    /\ UserStep(u, "free", "idle")
    /\ release' = [release EXCEPT ![uqueue[u]] = @ + 1]
    /\ owned' = owned \cup {Buffer(u)}
    /\ uqueue' = [uqueue EXCEPT ![u] = "buffer"] /\ upos' = [upos EXCEPT ![u] = 0]
    /\ UNCHANGED <<reserve, tail, head, slots, flagged, news, deleteVars, alerts, histories,
                   crashes>>

\* SPMCQueue::FreeEntry, in the order of the entries; then the block is returned.
FreeEntry(u) ==
    /\ UserStep(u, "free", "idle")
    /\ release[uqueue[u]] = upos[u]
    /\ release' = [release EXCEPT ![uqueue[u]] = @ + 1]
    /\ owned' = owned \cup {Buffer(u)}
    /\ uqueue' = [uqueue EXCEPT ![u] = "buffer"] /\ upos' = [upos EXCEPT ![u] = 0]
    /\ UNCHANGED <<reserve, tail, head, slots, flagged, news, deleteVars, alerts, histories,
                   crashes>>

ReleaseAllocThread ==
    /\ is_release_alert' = TRUE
    /\ UNCHANGED <<cursors, slots, flagged, userVars, deleteVars, is_release_alert_always, owned,
                   histories, crashes>>

ReleaseAllocThreadAlways ==
    /\ is_release_alert_always' = TRUE
    /\ UNCHANGED <<cursors, slots, flagged, userVars, deleteVars, is_release_alert, owned,
                   histories, crashes>>

-----------------------------------------------------------------------------
(* DeleteBuffer.                                                           *)

\* The flag chooses the queue.
DeleteBuffer(b) ==
    /\ dpc = "idle" /\ b \in owned
    /\ dpc' = "alloc" /\ dbuf' = b
    /\ dqueue' = IF b \in flagged THEN "emergent" ELSE "buffer"
    /\ UNCHANGED <<cursors, slots, flagged, userVars, alerts, owned, histories, crashes>>

\* kMemPoolDoubleDelete: the queue is full; the application is rid of the block.
DoubleDelete ==
    /\ dpc = "alloc" /\ reserve[dqueue] >= release[dqueue] + QueueSize(dqueue)
    /\ dpc' = "idle" /\ dbuf' = 0 /\ dqueue' = "buffer"
    /\ refused' = refused \cup {dbuf} /\ owned' = owned \ {dbuf}
    /\ UNCHANGED <<cursors, slots, flagged, userVars, alerts, lost, torn, crashes>>

AllocEntry ==
    /\ dpc = "alloc" /\ reserve[dqueue] < release[dqueue] + QueueSize(dqueue)
    /\ dpc' = "reset"
    /\ reserve' = [reserve EXCEPT ![dqueue] = @ + 1]
    /\ UNCHANGED <<tail, head, release, slots, flagged, userVars, dqueue, dbuf, alerts, owned,
                   histories, crashes>>

\* MemoryBuffer::reset clears the flag.
Reset ==
    /\ dpc = "reset"
    /\ dpc' = "post"
    /\ flagged' = flagged \ {dbuf}
    /\ UNCHANGED <<cursors, slots, userVars, dqueue, dbuf, alerts, owned, histories, crashes>>

PostEntry ==
    /\ dpc = "post"
    /\ slots' = [slots EXCEPT ![dqueue][tail[dqueue] % QueueSize(dqueue)] = dbuf]
    /\ tail' = [tail EXCEPT ![dqueue] = @ + 1]
    /\ owned' = owned \ {dbuf}
    /\ dpc' = "idle" /\ dbuf' = 0 /\ dqueue' = "buffer"
    /\ UNCHANGED <<reserve, head, release, flagged, userVars, alerts, histories, crashes>>

-----------------------------------------------------------------------------
Taking == {u \in Users : upc[u] \in {"mark", "free"}}

\* The process is gone, its threads and its MemoryPool object with it.
Crash ==
    /\ crashes < MaxCrash
    /\ crashes' = crashes + 1
    /\ upc' = [u \in Users |-> "idle"] /\ uqueue' = [u \in Users |-> "buffer"]
    /\ upos' = [u \in Users |-> 0]
    /\ dpc' = "idle" /\ dqueue' = "buffer" /\ dbuf' = 0
    /\ is_release_alert' = FALSE /\ is_release_alert_always' = FALSE
    /\ lost' = lost \cup {Buffer(u) : u \in Taking}
    /\ torn' = (torn \/ (dpc = "post" /\ dqueue = "emergent"))
    /\ UNCHANGED <<tail, head, slots, flagged, news, owned, refused>>

\* Mutant: the queues' producer end is left as it was.
ConsistentNoReserve == Crash /\ release' = head /\ UNCHANGED reserve

\* Mutant: the queues' consumer end is left as it was.
ConsistentNoRelease == Crash /\ reserve' = tail /\ UNCHANGED release

\* Its successor attaches (Init without do_init) and calls Consistent, that is,
\* Consistent(false) of both queues.
Consistent == Crash /\ release' = head /\ reserve' = tail

-----------------------------------------------------------------------------
NewStep(u) ==
    \/ NewBuffer(u) \/ WaitEmergent(u) \/ WaitRegular(u) \/ CheckAlert(u) \/ ClearAlert(u)
    \/ SetEmergentFlag(u) \/ FreeEntry(u)

DeleteStep == DoubleDelete \/ AllocEntry \/ Reset \/ PostEntry

Next ==
    \/ \E u \in Users, first \in {"new", "emergent"} : CallNew(u, first)
    \/ \E u \in Users : NewStep(u)
    \/ ReleaseAllocThread \/ ReleaseAllocThreadAlways
    \/ \E b \in Blocks : DeleteBuffer(b)
    \/ DeleteStep
    \/ Consistent

Spec == Init /\ [][Next]_vars

\* Threads inside a call are scheduled, and the applications give back what they
\* hold; nobody has to ask for blocks, to alert or to crash.
FairSpec == /\ Spec
            /\ \A u \in Users : WF_vars(NewStep(u))
            /\ WF_vars(DeleteStep)
            /\ WF_vars(\E b \in Blocks : DeleteBuffer(b))

-----------------------------------------------------------------------------
(* Properties.                                                             *)

\* The state of the pool; the cursors of both queues are in order.
TypeOK ==
    /\ \A q \in Queues : /\ release[q] <= head[q] /\ head[q] <= tail[q]
                         /\ tail[q] <= reserve[q] /\ reserve[q] <= tail[q] + 1
                         /\ reserve[q] <= release[q] + QueueSize(q)
    /\ \A q \in Queues : slots[q] \in [0 .. QueueSize(q) - 1 -> Blocks]
    /\ upc \in [Users -> {"idle", "new", "emergent", "regular", "alert", "clear", "mark", "free"}]
    /\ uqueue \in [Users -> Queues] /\ upos \in [Users -> Nat] /\ news \in 0 .. MaxNew
    /\ dpc \in {"idle", "alloc", "reset", "post"} /\ dqueue \in Queues
    /\ dbuf \in Blocks \cup {0}
    /\ is_release_alert \in BOOLEAN /\ is_release_alert_always \in BOOLEAN
    /\ flagged \subseteq Blocks /\ owned \subseteq Blocks
    /\ lost \subseteq Blocks /\ refused \subseteq Blocks /\ torn \in BOOLEAN
    /\ crashes \in 0 .. MaxCrash

Available(q) == {Block(q, n) : n \in head[q] .. tail[q] - 1}

\* No block is in two places and none disappears: it is free, in the hands of
\* NewBuffer, with an application, refused, or was in the hands of a user that
\* crashed.
EachBlockOnce ==
    LET taken == {Buffer(u) : u \in Taking}
    IN  /\ Available("buffer") \cup Available("emergent") \cup taken
               \cup owned \cup lost \cup refused = Blocks
        /\ (tail["buffer"] - head["buffer"]) + (tail["emergent"] - head["emergent"])
               + Cardinality(Taking) + Cardinality(owned) + Cardinality(lost)
               + Cardinality(refused) = Cardinality(Blocks)

\* What the recovery test takes for granted when it takes all blocks but the one that
\* was handed out: between calls, a block that no application holds (or gave back in
\* vain) can be taken, also after Consistent.
RestIsFree ==
    (\A u \in Users : upc[u] = "idle") /\ dpc = "idle" =>
        Available("buffer") \cup Available("emergent") \cup owned \cup refused = Blocks

\* Emergent blocks come back to their queue and regular ones do not fill it up,
\* unless a crash lost the flag of a block (DeleteBuffer resets it before it
\* posts the block).
EmergentReserveKept ==
    ~torn => Available("buffer") \subseteq Regular /\ Available("emergent") \subseteq Emergent

\* No delete of a block that an application holds is called a double delete: the
\* entry a block came from is free before the block is returned.
DeleteAccepted == refused # {} => torn

\* NewEmergentBuffer, which spins until there is a block ("FIXME: deadlock!"),
\* and NewBuffer return, as long as the applications give blocks back and crashes
\* have left some; calls are bounded, so no caller is starved by the others.
NewReturns ==
    \A u \in Users : upc[u] # "idle" ~> (upc[u] = "idle" \/ lost \cup refused = Blocks)
=============================================================================
