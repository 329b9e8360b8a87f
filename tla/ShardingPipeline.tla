-------------------------- MODULE ShardingPipeline --------------------------
(***************************************************************************)
(* The way of a message through a sharded application: the agent's        *)
(* message thread (ShardingAgent::OnMessage) notes it in the sort queue   *)
(* and puts it into the rx ring of its shard, or of every shard; the      *)
(* shard's proxy hands it to the application and puts what that sends,    *)
(* and then a process-done record, into its tx ring; the agent's sort     *)
(* thread empties the tx rings in the order of the sort queue.  Beside    *)
(* it: events, which a second AMI thread pushes to all shards, the        *)
(* sharding channel (Request, OnRequset, PostTo, OnResponse), and the     *)
(* messages an advance follower discards.                                 *)
(*                                                                         *)
(* The rings are FIFO queues of bounded length, what module               *)
(* ContinueMemory shows them to be; AllocEntry on a full one spins, and   *)
(* nothing ever sets its release_alert_.                                  *)
(***************************************************************************)
EXTENDS Integers, Sequences, FiniteSets

CONSTANTS ShardNum,     \* sharding_num_
          Dsts,         \* what DoRoute may return; 0 is all shards
          RxSize, SortSize,   \* entries an rx ring and the sort queue hold
          MaxSends,     \* bound: SendMsg and Request calls in one callback
          MaxSqn,       \* bound: messages
          Setups        \* the applications and tx rings that are looked at

Shards == 1 .. ShardNum

ASSUME PipelineAssumption ==
    /\ ShardNum \in Nat \ {0} /\ Dsts \subseteq Int
    /\ RxSize \in Nat \ {0} /\ SortSize \in Nat \ {0}
    /\ MaxSends \in Nat /\ MaxSqn \in Nat
    /\ Setups \subseteq [tx : Nat \ {0}, messages : Nat, events : Nat,
                         channel : BOOLEAN, skips : BOOLEAN, fails : BOOLEAN]

VARIABLES
    setup,                  \* the application's habits and the size of its tx rings
    next,                   \* total-order number of the next AMI message
    amiPc, amiTodo,         \* message thread: step, shards message next - 1 still goes to
    evPc, evIndex,          \* event thread: step, its index in the loop over shards
    evWaits,                \* whether its event is OnRecoverySuccess
    rx_spinlock,            \* which thread holds rx_spinlock_
    sort,                   \* sort_queue_, of <<total_sqn, sharding_index>>
    rx, tx,                 \* per shard: its rings
    spc, sends, want,       \* shard: step, calls made in this callback, tx record
                            \* it is allocating
    apc, postTo,            \* sort thread: step, shard its PostTo goes to
    jobs, log, made,        \* histories: all sort queue elements; what left the
                            \* agent for messages, or failed to; outputs per
                            \* message and shard
    pushed, handled, joined \* histories: events pushed, events each shard has
                            \* handled, events pushed when OnRecoverySuccess
                            \* returned last

amiVars   == <<next, amiPc, amiTodo, jobs>>
evVars    == <<evPc, evIndex, evWaits, pushed, joined>>
shardVars == <<spc, sends, want, made, handled>>
actorVars == <<apc, postTo, log>>
vars == <<setup, amiVars, evVars, shardVars, actorVars, rx_spinlock, sort, rx, tx>>

TxSize == setup.tx              \* entries a tx ring holds
MaxMessages == setup.messages   \* bound: messages, beside MaxSqn
MaxEvents == setup.events       \* bound: events
Channel == setup.channel        \* whether there is a sharding channel, so that
                                \* callbacks send requests and OnRequset may PostTo
Skips == setup.skips            \* whether messages kill trial processes (module
                                \* AdvanceFollower)
Fails == setup.fails            \* whether sending a message through AMI may fail

Job == (1 .. MaxSqn) \X Shards

\* Entries of an rx ring: messages, events and channel posts.
RxMessage(n) == [type |-> "msg", sqn |-> n]
AmiEvent     == [type |-> "event", sqn |-> 0]
ShardingPost == [type |-> "post", sqn |-> 0]

\* Records of a tx ring, with the message whose callback wrote them.
TxRecord(kind, n) == [kind |-> kind, sqn |-> n]
NoRecord == TxRecord("none", 0)

Init ==
    /\ setup \in Setups
    /\ next = 1 /\ amiPc = "idle" /\ amiTodo = << >> /\ jobs = << >>
    /\ evPc = "idle" /\ evIndex = 1 /\ evWaits = FALSE /\ pushed = 0 /\ joined = 0
    /\ rx_spinlock = "free" /\ sort = << >>
    /\ rx = [s \in Shards |-> << >>] /\ tx = [s \in Shards |-> << >>]
    /\ spc = [s \in Shards |-> "poll"] /\ sends = [s \in Shards |-> 0]
    /\ want = [s \in Shards |-> NoRecord]
    /\ made = [j \in Job |-> 0] /\ handled = [s \in Shards |-> 0]
    /\ apc = "tx" /\ postTo = 0 /\ log = << >>

\* Mutant: no check for room.
PostRxUnchecked(s, entry) ==
    /\ rx' = [rx EXCEPT ![s] = Append(@, entry)]
    /\ rx_spinlock' = "free"

\* A thread in AllocEntry, PostEntry and the end of its lock_guard.
PostRx(s, entry) ==
    /\ Len(rx[s]) < RxSize
    /\ rx' = [rx EXCEPT ![s] = Append(@, entry)]
    /\ rx_spinlock' = "free"

LockRx(thread) == rx_spinlock = "free" /\ rx_spinlock' = thread

-----------------------------------------------------------------------------
(* The agent's message thread.                                             *)

\* OnMessage: DoRoute names a shard, all of them, or none that exists.
OnMessage(dst) ==
    /\ amiPc = "idle" /\ next <= MaxSqn /\ next <= MaxMessages
    /\ next' = next + 1
    /\ amiTodo' = CASE dst = 0 -> [i \in Shards |-> i]
                    [] dst \in Shards -> <<dst>>
                    [] OTHER -> << >>
    /\ amiPc' = IF amiTodo' = << >> THEN "idle" ELSE "push"
    /\ UNCHANGED <<setup, jobs, evVars, shardVars, actorVars, rx_spinlock, sort, rx, tx>>

\* DeliverMessage: the element goes into the sort queue first ...
PushSort ==
    LET elem == <<next - 1, Head(amiTodo)>>
    IN  /\ amiPc = "push" /\ Len(sort) < SortSize
        /\ sort' = Append(sort, elem)
        /\ jobs' = Append(jobs, elem)
        /\ amiPc' = "lock"
        /\ UNCHANGED <<setup, next, amiTodo, evVars, shardVars, actorVars, rx_spinlock, rx, tx>>

\* ... then rx_spinlock_ is taken, and AllocEntry called with it held.
LockMessage ==
    /\ amiPc = "lock" /\ LockRx("ami")
    /\ amiPc' = "alloc"
    /\ UNCHANGED <<setup, next, amiTodo, jobs, evVars, shardVars, actorVars, sort, rx, tx>>

PostMessage ==
    /\ amiPc = "alloc" /\ PostRx(Head(amiTodo), RxMessage(next - 1))
    /\ amiTodo' = Tail(amiTodo)
    /\ amiPc' = IF amiTodo' = << >> THEN "idle" ELSE "push"
    /\ UNCHANGED <<setup, next, jobs, evVars, shardVars, actorVars, sort, tx>>

-----------------------------------------------------------------------------
(* The event thread: the On... callbacks of ShardingAgent.                 *)

CallPushEvent(recovery) ==
    /\ evPc = "idle" /\ pushed < MaxEvents
    /\ pushed' = pushed + 1
    /\ evPc' = "lock" /\ evIndex' = 1 /\ evWaits' = recovery
    /\ UNCHANGED <<setup, joined, amiVars, shardVars, actorVars, rx_spinlock, sort, rx, tx>>

LockEvent ==
    /\ evPc = "lock" /\ LockRx("event")
    /\ evPc' = "alloc"
    /\ UNCHANGED <<setup, evIndex, evWaits, pushed, joined, amiVars, shardVars, actorVars, sort,
                   rx, tx>>

\* One turn of PushEvent's loop over the shards.  After the last one
\* OnRecoverySuccess goes on to WaitConsumeComplete.
PostEvent ==
    /\ evPc = "alloc" /\ PostRx(evIndex, AmiEvent)
    /\ evIndex' = IF evIndex = ShardNum THEN 1 ELSE evIndex + 1
    /\ evPc' = CASE evIndex < ShardNum -> "lock"
                 [] evIndex = ShardNum /\ evWaits -> "complete"
                 [] OTHER -> "idle"
    /\ UNCHANGED <<setup, evWaits, pushed, joined, amiVars, shardVars, actorVars, sort, tx>>

\* Mutant: only the last shard's ring decides.
WaitConsumeCompleteLast ==
    /\ evPc = "complete"
    /\ IF evIndex < ShardNum
       THEN evIndex' = evIndex + 1 /\ UNCHANGED <<evPc, joined>>
       ELSE /\ evIndex' = 1
            /\ evPc' = IF rx[evIndex] = << >> THEN "idle" ELSE evPc
            /\ joined' = IF rx[evIndex] = << >> THEN pushed ELSE joined
    /\ UNCHANGED <<setup, evWaits, pushed, amiVars, shardVars, actorVars, rx_spinlock, sort, rx, tx>>

\* Mutant: the loop is not left when every ring was found empty.
WaitConsumeCompleteNoBreak ==
    /\ evPc = "complete"
    /\ evIndex' = IF rx[evIndex] # << >> \/ evIndex = ShardNum THEN 1 ELSE evIndex + 1
    /\ UNCHANGED <<setup, evPc, joined, evWaits, pushed, amiVars, shardVars, actorVars,
                   rx_spinlock, sort, rx, tx>>

\* One turn of WaitConsumeComplete's loop: the counters of a ring agree when
\* it is empty; it starts again from the first shard when they do not.
WaitConsumeComplete ==
    /\ evPc = "complete"
    /\ IF rx[evIndex] # << >>
       THEN evIndex' = 1 /\ UNCHANGED <<evPc, joined>>
       ELSE /\ evIndex' = IF evIndex = ShardNum THEN 1 ELSE evIndex + 1
            /\ evPc' = IF evIndex = ShardNum THEN "idle" ELSE evPc
            /\ joined' = IF evIndex = ShardNum THEN pushed ELSE joined
    /\ UNCHANGED <<setup, evWaits, pushed, amiVars, shardVars, actorVars, rx_spinlock, sort, rx, tx>>

-----------------------------------------------------------------------------
(* A shard: PollingMessage, and what its callbacks may call.               *)

Poll(s) ==
    /\ spc[s] = "poll" /\ rx[s] # << >>
    /\ spc' = [spc EXCEPT ![s] = "app"]
    /\ UNCHANGED <<setup, sends, want, made, handled, amiVars, evVars, actorVars, rx_spinlock,
                   sort, rx, tx>>

\* Whoever writes to the tx ring waits in AllocEntry for room.
Want(s, kind) ==
    /\ want' = [want EXCEPT ![s] = TxRecord(kind, Head(rx[s]).sqn)]
    /\ spc' = [spc EXCEPT ![s] = "alloc"]
    /\ UNCHANGED <<setup, handled, amiVars, evVars, actorVars, rx_spinlock, sort, rx, tx>>

\* The application calls SendMsg or ShardingRequest; an answer to a request does
\* not lead to another request.
Call(s, kind) ==
    /\ spc[s] = "app" /\ sends[s] < MaxSends
    /\ kind = "req" => Channel /\ Head(rx[s]).type # "post"
    /\ sends' = [sends EXCEPT ![s] = @ + 1]
    /\ made' = [j \in Job |-> IF kind = "out" /\ j = <<Head(rx[s]).sqn, s>>
                             THEN made[j] + 1 ELSE made[j]]
    /\ Want(s, kind)

\* The callback returns; after a message comes ProcessMessageDone.
CallbackReturns(s) ==
    /\ spc[s] = "app"
    /\ sends' = [sends EXCEPT ![s] = 0]
    /\ IF Head(rx[s]).type = "msg"
       THEN Want(s, "done") /\ UNCHANGED made
       ELSE /\ spc' = [spc EXCEPT ![s] = "free"]
            /\ UNCHANGED <<setup, want, made, handled, amiVars, evVars, actorVars, rx_spinlock,
                           sort, rx, tx>>

\* Mutant: the record is not written when the ring is full.
PostTxGivesUp(s) ==
    /\ spc[s] = "alloc"
    /\ tx' = IF Len(tx[s]) < TxSize THEN [tx EXCEPT ![s] = Append(@, want[s])] ELSE tx
    /\ want' = [want EXCEPT ![s] = NoRecord]
    /\ spc' = [spc EXCEPT ![s] = IF want[s].kind = "done" THEN "free" ELSE "app"]
    /\ UNCHANGED <<setup, sends, made, handled, amiVars, evVars, actorVars, rx_spinlock, sort, rx>>

PostTx(s) ==
    /\ spc[s] = "alloc" /\ Len(tx[s]) < TxSize
    /\ tx' = [tx EXCEPT ![s] = Append(@, want[s])]
    /\ want' = [want EXCEPT ![s] = NoRecord]
    /\ spc' = [spc EXCEPT ![s] = IF want[s].kind = "done" THEN "free" ELSE "app"]
    /\ UNCHANGED <<setup, sends, made, handled, amiVars, evVars, actorVars, rx_spinlock, sort, rx>>

FreeEntry(s) ==
    /\ spc[s] = "free"
    /\ rx' = [rx EXCEPT ![s] = Tail(@)]
    /\ handled' = [handled EXCEPT ![s] = IF Head(rx[s]).type = "event" THEN @ + 1 ELSE @]
    /\ spc' = [spc EXCEPT ![s] = "poll"]
    /\ UNCHANGED <<setup, sends, want, made, amiVars, evVars, actorVars, rx_spinlock, sort, tx>>

\* OnTrialError: a message that killed the trial process is taken off the ring,
\* then reported discarded and done.
SkipMessage(s) ==
    /\ Skips /\ spc[s] = "poll" /\ rx[s] # << >> /\ Head(rx[s]).type = "msg"
    /\ rx' = [rx EXCEPT ![s] = Tail(@)]
    /\ want' = [want EXCEPT ![s] = TxRecord("discard", Head(rx[s]).sqn)]
    /\ made' = [made EXCEPT ![<<Head(rx[s]).sqn, s>>] = @ + 1]
    /\ spc' = [spc EXCEPT ![s] = "skip"]
    /\ UNCHANGED <<setup, sends, handled, amiVars, evVars, actorVars, rx_spinlock, sort, tx>>

\* DiscardMessage, then ProcessMessageDone.
PostSkip(s) ==
    /\ spc[s] = "skip" /\ Len(tx[s]) < TxSize
    /\ tx' = [tx EXCEPT ![s] = Append(@, want[s])]
    /\ want' = [want EXCEPT ![s] = IF @.kind = "discard" THEN TxRecord("done", @.sqn)
                                                         ELSE NoRecord]
    /\ spc' = [spc EXCEPT ![s] = IF want[s].kind = "discard" THEN "skip" ELSE "poll"]
    /\ UNCHANGED <<setup, sends, made, handled, amiVars, evVars, actorVars, rx_spinlock, sort,
                   rx>>

-----------------------------------------------------------------------------
(* The agent's sort thread: SortRecvActor and ProcessTxMsg.                *)

\* The tx ring of the shard at the head of the sort queue has a record.
NextRecord(kind) ==
    /\ apc = "tx" /\ sort # << >>
    /\ tx[Head(sort)[2]] # << >> /\ Head(tx[Head(sort)[2]]).kind = kind

FreeTx == tx' = [tx EXCEPT ![Head(sort)[2]] = Tail(@)]

\* What becomes of a message's record of shard s, as it is seen outside.
Record(result, s) == <<result, <<Head(tx[s]).sqn, s>>>>
LogOutput(result, s) ==
    log' = IF Head(tx[s]).sqn > 0 THEN Append(log, Record(result, s)) ELSE log

\* Mutant: the rings are read in turn, as RecvActor does it.
OnShmTxMessageUnsorted(result) ==
    \E s \in Shards :
        /\ apc = "tx" /\ tx[s] # << >> /\ Head(tx[s]).kind = "out"
        /\ result = "failed" => Fails
        /\ LogOutput(result, s)
        /\ tx' = [tx EXCEPT ![s] = Tail(@)]
        /\ UNCHANGED <<setup, apc, postTo, amiVars, evVars, shardVars, rx_spinlock, sort, rx>>

\* OnShmTxMessage: the application's message leaves ("out"), or there is no such
\* endpoint or SendMsg fails, and an error line is all that remains ("failed").
OnShmTxMessage(result) ==
    /\ NextRecord("out") /\ (result = "failed" => Fails)
    /\ LogOutput(result, Head(sort)[2])
    /\ FreeTx
    /\ UNCHANGED <<setup, apc, postTo, amiVars, evVars, shardVars, rx_spinlock, sort, rx>>

\* The number of a discarded message goes to the core_sqn file and to AMI; the
\* thread goes on reading the ring up to the process-done record.
ProcessMessageDiscard ==
    /\ NextRecord("discard")
    /\ log' = Append(log, Record("discard", Head(sort)[2]))
    /\ FreeTx
    /\ UNCHANGED <<setup, apc, postTo, amiVars, evVars, shardVars, rx_spinlock, sort, rx>>

\* Mutant: the sort queue's element not freed.
ProcessMessageDoneNoFree ==
    /\ NextRecord("done")
    /\ log' = Append(log, Record("done", Head(sort)[2]))
    /\ FreeTx
    /\ UNCHANGED <<setup, sort, apc, postTo, amiVars, evVars, shardVars, rx_spinlock, rx>>

\* The process-done record goes to AMI, and the sort queue's element is over.
ProcessMessageDone ==
    /\ NextRecord("done")
    /\ log' = Append(log, Record("done", Head(sort)[2]))
    /\ FreeTx
    /\ sort' = Tail(sort)
    /\ UNCHANGED <<setup, apc, postTo, amiVars, evVars, shardVars, rx_spinlock, rx>>

\* OnRequset returns at once, or answers with PostTo.
OnRequset ==
    /\ NextRecord("req")
    /\ FreeTx
    /\ UNCHANGED <<setup, actorVars, amiVars, evVars, shardVars, rx_spinlock, sort, rx>>

CallPostTo(s) ==
    /\ Channel /\ NextRecord("req")
    /\ apc' = "lock" /\ postTo' = s
    /\ UNCHANGED <<setup, log, amiVars, evVars, shardVars, rx_spinlock, sort, rx, tx>>

LockPost ==
    /\ apc = "lock" /\ LockRx("sort")
    /\ apc' = "alloc"
    /\ UNCHANGED <<setup, log, postTo, amiVars, evVars, shardVars, sort, rx, tx>>

\* The post goes out, OnRequset returns and the request is freed.
PostResponse ==
    /\ apc = "alloc" /\ PostRx(postTo, ShardingPost)
    /\ FreeTx
    /\ apc' = "tx" /\ postTo' = 0
    /\ UNCHANGED <<setup, log, amiVars, evVars, shardVars, sort>>

-----------------------------------------------------------------------------
MessageStep == PushSort \/ LockMessage \/ PostMessage

EventStep == LockEvent \/ PostEvent \/ WaitConsumeComplete

ShardStep(s) == \/ Poll(s) \/ CallbackReturns(s) \/ PostTx(s) \/ FreeEntry(s)
                \/ \E kind \in {"out", "req"} : Call(s, kind)
                \/ SkipMessage(s) \/ PostSkip(s)

SortStep == \/ \E result \in {"out", "failed"} : OnShmTxMessage(result)
            \/ ProcessMessageDiscard \/ ProcessMessageDone \/ OnRequset
            \/ \E s \in Shards : CallPostTo(s)
            \/ LockPost \/ PostResponse

Next == \/ \E dst \in Dsts : OnMessage(dst)
        \/ \E recovery \in BOOLEAN : CallPushEvent(recovery)
        \/ MessageStep
        \/ EventStep
        \/ \E s \in Shards : ShardStep(s)
        \/ SortStep

Spec == Init /\ [][Next]_vars

\* Every thread and process keeps running, and callbacks return; messages and
\* events need not come.
FairSpec == /\ Spec
            /\ WF_vars(MessageStep) /\ WF_vars(EventStep) /\ WF_vars(SortStep)
            /\ \A s \in Shards : WF_vars(ShardStep(s))

-----------------------------------------------------------------------------
(* Properties.                                                             *)

Service == INSTANCE SequentialService WITH at <- Len(jobs) - Len(sort) + 1

\* Whatever the shards' relative speed, the outside sees one sequential
\* service: outputs leave in the total order of the messages that caused them,
\* and a message's done report follows them (SortRecvActor's purpose).
ImplementsService == Service!Spec

\* The state of the threads and shards; no queue exceeds its size.
TypeOK ==
    /\ setup \in Setups /\ next \in 1 .. MaxSqn + 1
    /\ amiPc \in {"idle", "push", "lock", "alloc"} /\ amiTodo \in Seq(Shards)
    /\ evPc \in {"idle", "lock", "alloc", "complete"} /\ evIndex \in Shards
    /\ evWaits \in BOOLEAN /\ pushed \in Nat /\ joined \in 0 .. pushed
    /\ rx_spinlock \in {"free", "ami", "event", "sort"}
    /\ sort \in Seq(Job) /\ jobs \in Seq(Job)
    /\ \A s \in Shards : Len(rx[s]) <= RxSize /\ Len(tx[s]) <= TxSize
    /\ spc \in [Shards -> {"poll", "app", "alloc", "free", "skip"}]
    /\ apc \in {"tx", "lock", "alloc"} /\ postTo \in 0 .. ShardNum

Outputs(j, k) == Cardinality({i \in 1 .. k : log[i][1] # "done" /\ log[i][2] = j})

\* A message is reported done for a shard only after everything the shard sent
\* while handling it has been handed to AMI or has its failure logged, and after the
\* report that it was discarded: ProcessTxMsg stops at that very record, and no
\* record is lost before it.
DoneAfterOutputs ==
    \A k \in 1 .. Len(log) :
        log[k][1] = "done" => Outputs(log[k][2], k) = made[log[k][2]]

\* When OnRecoverySuccess returns, every shard has handled the event, whatever
\* else arrives meanwhile ("加组" follows the handling, sharding_agent.h).
RecoveryHandled == \A s \in Shards : handled[s] >= joined

\* A shard waits in the callback of an event or of a response for room in its tx
\* ring.  ProcessTxMsg empties the ring of a shard only for the sake of a message in
\* the sort queue: the shard may wait for ever, and whoever waits for room in its rx
\* ring with it, rx_spinlock_ in hand.
Stuck(s) == spc[s] = "alloc" /\ want[s].sqn = 0 /\ Len(tx[s]) >= TxSize

\* Once no more messages come, every message that was routed has been delivered
\* and reported done for each of its shards: the bounded queues bring the three
\* parties to a halt in no other way than by a shard that is stuck outside messages.
\* What a message's callback sent has left, too; only records of other callbacks may
\* stay in a tx ring until a message comes by.
AllDone ==
    <>[](\/ /\ amiPc = "idle" /\ sort = << >>
            /\ \A s \in Shards : \A i \in 1 .. Len(tx[s]) : tx[s][i].sqn = 0
         \/ \E s \in Shards : Stuck(s))

\* OnRecoverySuccess returns, unless a shard is stuck outside messages: it never
\* waits for a ring that is being emptied.
RecoveryReturns == evPc = "complete" ~> (evPc = "idle" \/ \E s \in Shards : Stuck(s))

\* DeliverMessage's AllocEntry succeeds in the end.
AllocSucceeds == amiPc = "alloc" ~> amiPc # "alloc"
=============================================================================
