----------------------- MODULE ShardingPipelineProofs -----------------------
(***************************************************************************)
(* Proofs about the sharding pipeline: its state stays within its types,   *)
(* OnRecoverySuccess returns only after every shard has handled the event, *)
(* the agent and its shards are one sequential service, and a message is   *)
(* reported done only after all its outputs.                               *)
(*                                                                         *)
(* The argument.  A message that is noted in the sort queue and not over   *)
(* yet is for each of its shards in exactly one place: about to be posted, *)
(* in the rx ring, in OnTrialError's hands, or done in the tx ring.  Along *)
(* that way the numbers never fall, and they rise behind a process-done    *)
(* record.  So the first record of the ring that the sort thread reads     *)
(* belongs to the message at the head of the sort queue.  Outputs, and     *)
(* events, are counted: none is lost or made on the way.                   *)
(***************************************************************************)
EXTENDS ShardingPipeline, FiniteSetTheorems, SequenceTheorems, TLAPS

\* How often a sequence has a member of S.
Count(q, S) == Cardinality({i \in 1 .. Len(q) : q[i] \in S})

Kinds == {"out", "req", "done", "discard", "none"}

RxEntry == {RxMessage(n) : n \in 1 .. MaxSqn} \union {AmiEvent, ShardingPost}

TxEntry == {e \in [kind : Kinds, sqn : 0 .. MaxSqn] : e.kind \in {"done", "discard"} => e.sqn > 0}

\* What the rings, the histories and the counters may hold.
FlowTypes ==
    /\ rx \in [Shards -> Seq(RxEntry)] /\ tx \in [Shards -> Seq(TxEntry)]
    /\ want \in [Shards -> TxEntry] /\ sends \in [Shards -> Nat]
    /\ made \in [Job -> Nat] /\ handled \in [Shards -> Nat]
    /\ log \in Seq({"out", "failed", "discard", "done"} \X Job)

\* What the message thread has before it.
AgentInv ==
    /\ amiPc = "idle" <=> amiTodo = << >>
    /\ amiPc # "idle" => next >= 2
    /\ \A i, j \in 1 .. Len(amiTodo) : i # j => amiTodo[i] # amiTodo[j]

\* What a shard is about.
ShardOK(s) ==
    /\ spc[s] \in {"app", "alloc", "free"} => rx[s] # << >>
    /\ spc[s] = "alloc" =>
           /\ want[s].kind \in {"out", "req", "done"} /\ want[s].sqn = rx[s][1].sqn
           /\ want[s].kind = "done" => rx[s][1].type = "msg"
    /\ spc[s] = "skip" => want[s].kind \in {"discard", "done"} /\ want[s].sqn > 0
    /\ spc[s] \notin {"alloc", "skip"} => want[s] = NoRecord

ShardInv == \A s \in Shards : ShardOK(s)

\* In PostTo, the request is still the first record of its ring.
SortInv ==
    apc # "tx" => /\ postTo \in Shards /\ sort # << >>
                  /\ tx[sort[1][2]] # << >> /\ tx[sort[1][2]][1].kind = "req"

TypeInv == TypeOK /\ FlowTypes /\ AgentInv /\ ShardInv /\ SortInv

\* Events posted to a shard: the last one only once the loop has passed it.
Posted(s) == IF evPc \in {"lock", "alloc"} /\ s >= evIndex THEN pushed - 1 ELSE pushed

\* An event a shard was sent is in its rx ring or handled; WaitConsumeComplete has
\* seen the shards before evIndex through.
EventInv ==
    /\ \A s \in Shards : handled[s] + Count(rx[s], {AmiEvent}) = Posted(s)
    /\ evPc = "complete" => \A s \in Shards : s < evIndex => handled[s] = pushed

\* The sort queue is the end of the jobs, which come in the order of their
\* messages and only once; the ones still to come are new.
JobsInv ==
    /\ Len(sort) <= Len(jobs)
    /\ \A i \in 1 .. Len(sort) : sort[i] = jobs[Len(jobs) - Len(sort) + i]
    /\ \A i \in 1 .. Len(jobs) : jobs[i][1] < next
    /\ \A i, j \in 1 .. Len(jobs) : i < j => jobs[i][1] <= jobs[j][1] /\ jobs[i] # jobs[j]
    /\ \A i \in 1 .. Len(jobs) : \A k \in 1 .. Len(amiTodo) :
           (amiPc = "push" \/ k > 1) => jobs[i] # <<next - 1, amiTodo[k]>>

\* DeliverMessage has noted message next - 1 for s, and not yet posted it.
Sending(s) == amiPc \in {"lock", "alloc"} /\ amiTodo[1] = s

\* Shard s has yet to write the process-done record of message n.
Open(s, n) ==
    \/ \E i \in 1 .. Len(rx[s]) : /\ rx[s][i].type = "msg" /\ rx[s][i].sqn = n
                                  /\ i = 1 => spc[s] # "free"
    \/ spc[s] = "skip" /\ want[s].sqn = n
    \/ Sending(s) /\ n = next - 1

InSort(s, n) == \E k \in 1 .. Len(sort) : sort[k] = <<n, s>>
InJobs(s, n) == \E k \in 1 .. Len(jobs) : jobs[k] = <<n, s>>

\* Messages reach a shard in the order of their numbers ...
RxOK(s) ==
    /\ \A i, j \in 1 .. Len(rx[s]) :
           i < j /\ rx[s][i].type = "msg" /\ rx[s][j].type = "msg" => rx[s][i].sqn < rx[s][j].sqn
    /\ \A i \in 1 .. Len(rx[s]) : rx[s][i].type = "msg" =>
           /\ InJobs(s, rx[s][i].sqn)
           /\ spc[s] = "skip" => want[s].sqn < rx[s][i].sqn
           /\ Sending(s) => rx[s][i].sqn < next - 1
    /\ spc[s] = "skip" /\ Sending(s) => want[s].sqn < next - 1

RxOrder == \A s \in Shards : RxOK(s)

\* ... and its records leave in that order, process-done being a message's last.
TxOrder ==
    \A s \in Shards : \A i \in 1 .. Len(tx[s]) : tx[s][i].sqn > 0 =>
        /\ \A j \in 1 .. Len(tx[s]) : i < j /\ tx[s][j].sqn > 0 =>
               /\ tx[s][i].sqn <= tx[s][j].sqn
               /\ tx[s][i].kind = "done" => tx[s][i].sqn # tx[s][j].sqn
        /\ \A n \in 1 .. MaxSqn : Open(s, n) =>
               /\ tx[s][i].sqn <= n
               /\ tx[s][i].kind = "done" => tx[s][i].sqn # n

\* Shard s has written the process-done record of message n.
Written(s, n) == \E i \in 1 .. Len(tx[s]) : tx[s][i].kind = "done" /\ tx[s][i].sqn = n

\* The messages of the sort queue are the ones whose process-done record is
\* in a tx ring, or to be written; no record is about another message.
PresentInv ==
    /\ \A s \in Shards : \A n \in 1 .. MaxSqn :
           /\ InSort(s, n) => Open(s, n) \/ Written(s, n)
           /\ Open(s, n) => InSort(s, n)
    /\ \A s \in Shards : \A i \in 1 .. Len(tx[s]) :
           tx[s][i].sqn > 0 => InSort(s, tx[s][i].sqn)

FlowInv == JobsInv /\ RxOrder /\ TxOrder /\ PresentInv

\* What a message's handling in a shard puts out.
OutRecords(j) == {TxRecord("out", j[1]), TxRecord("discard", j[1])}
OutReports(j) == {<<"out", j>>, <<"failed", j>>, <<"discard", j>>}

\* An output that was made has left, is in the tx ring or waits for room there.
CountInv ==
    \A j \in Job :
        made[j] = Count(log, OutReports(j)) + Count(tx[j[2]], OutRecords(j))
                  + (IF want[j[2]] \in OutRecords(j) THEN 1 ELSE 0)

\* A job reported done has left the sort queue.
DoneInv ==
    \A k \in 1 .. Len(log) :
        log[k][1] = "done" => \E i \in 1 .. Len(jobs) - Len(sort) : jobs[i] = log[k][2]

Inv == /\ TypeInv /\ EventInv /\ FlowInv /\ CountInv /\ DoneInv
       /\ DoneAfterOutputs /\ RecoveryHandled

-----------------------------------------------------------------------------
(* Sequences, rings and their records.                                     *)

\* The first element, and what Tail leaves.
LEMMA HeadTail ==
    ASSUME NEW E, NEW q \in Seq(E), q # << >>
    PROVE  /\ Len(q) \in Nat /\ Len(q) >= 1 /\ Head(q) = q[1] /\ q[1] \in E
           /\ Tail(q) \in Seq(E) /\ Len(Tail(q)) = Len(q) - 1
           /\ \A i \in 1 .. Len(q) - 1 : Tail(q)[i] = q[i + 1]
<1>1. Len(q) \in Nat /\ Len(q) >= 1 /\ Head(q) = q[1] /\ q[1] \in E
  BY EmptySeq
<1> QED BY <1>1, HeadTailProperties

\* What Append adds.
LEMMA AddLast ==
    ASSUME NEW E, NEW q \in Seq(E), NEW e \in E
    PROVE  /\ Len(q) \in Nat /\ Append(q, e) \in Seq(E) /\ Append(q, e) # << >>
           /\ Len(Append(q, e)) = Len(q) + 1 /\ Append(q, e)[Len(q) + 1] = e
           /\ \A i \in 1 .. Len(q) : Append(q, e)[i] = q[i]
BY AppendProperties, LenProperties

\* The indices of a sequence that grew by one.
LEMMA LastIndex ==
    ASSUME NEW n \in Nat
    PROVE  /\ \A k \in 1 .. n + 1 : k \in 1 .. n \/ k = n + 1
           /\ \A k \in 1 .. n : k \in 1 .. n + 1
OBVIOUS

\* A count is a number, and 0 where there is nothing to count.
LEMMA CountBasics ==
    ASSUME NEW E, NEW q \in Seq(E), NEW S
    PROVE  /\ Count(q, S) \in Nat
           /\ (\A i \in 1 .. Len(q) : q[i] \notin S) => Count(q, S) = 0
<1> DEFINE T == {i \in 1 .. Len(q) : q[i] \in S}
<1>1. Len(q) \in Nat
  OBVIOUS
<1>2. IsFiniteSet(T)
  <2>1. IsFiniteSet(1 .. Len(q)) /\ T \subseteq 1 .. Len(q)
    BY <1>1, FS_Interval
  <2> QED BY <2>1, FS_Subset
<1>3. Cardinality(T) \in Nat
  BY <1>2, FS_CardinalityType
<1>4. ASSUME \A i \in 1 .. Len(q) : q[i] \notin S PROVE T = {}
  BY <1>4
<1> QED BY <1>3, <1>4, FS_EmptySet DEF Count

\* Append counts its element.
LEMMA CountAppend ==
    ASSUME NEW E, NEW q \in Seq(E), NEW e \in E, NEW S
    PROVE  Count(Append(q, e), S) = Count(q, S) + (IF e \in S THEN 1 ELSE 0)
<1> DEFINE T == {i \in 1 .. Len(q) : q[i] \in S}
           r == Append(q, e)
           U == {i \in 1 .. Len(r) : r[i] \in S}
           n == Len(q)
<1>1. /\ n \in Nat /\ Len(r) = n + 1 /\ r[n + 1] = e
      /\ \A i \in 1 .. n : r[i] = q[i]
  BY AddLast
<1>2. IsFiniteSet(T) /\ n + 1 \notin T
  <2>1. IsFiniteSet(1 .. n) /\ T \subseteq 1 .. n
    BY <1>1, FS_Interval
  <2> QED BY <1>1, <2>1, FS_Subset
<1>3. Cardinality(T) \in Nat
  BY <1>2, FS_CardinalityType
<1> HIDE DEF n, r
<1>4. CASE e \in S
  <2>1. U = T \cup {n + 1}
    <3>1. ASSUME NEW i \in U PROVE i \in T \cup {n + 1}
      <4>1. i \in 1 .. n \/ i = n + 1
        BY <1>1, LastIndex
      <4> QED BY <1>1, <4>1 DEF n
    <3>2. ASSUME NEW i \in T PROVE i \in U
      BY <1>1 DEF n
    <3>3. n + 1 \in U
      BY <1>1, <1>4
    <3> QED BY <3>1, <3>2, <3>3
  <2>2. Cardinality(U) = Cardinality(T) + 1
    BY <1>2, <2>1, FS_AddElement
  <2> QED BY <1>4, <2>2 DEF Count, n, r
<1>5. CASE e \notin S
  <2>1. U = T
    <3>1. ASSUME NEW i \in U PROVE i \in T
      <4>1. i \in 1 .. n \/ i = n + 1
        BY <1>1, LastIndex
      <4> QED BY <1>1, <1>5, <4>1 DEF n
    <3>2. ASSUME NEW i \in T PROVE i \in U
      BY <1>1 DEF n
    <3> QED BY <3>1, <3>2
  <2> HIDE DEF T, U
  <2>2. Cardinality(U) = Cardinality(T) + 0
    BY <1>3, <2>1
  <2> QED BY <1>5, <2>2 DEF Count, n, r, T, U
<1> QED BY <1>4, <1>5

\* Tail takes the first element off the count.
LEMMA CountTail ==
    ASSUME NEW E, NEW q \in Seq(E), q # << >>, NEW S
    PROVE  Count(q, S) = Count(Tail(q), S) + (IF q[1] \in S THEN 1 ELSE 0)
<1> DEFINE T == {i \in 1 .. Len(q) : q[i] \in S}
           r == Tail(q)
           U == {i \in 1 .. Len(r) : r[i] \in S}
           n == Len(q)
           V == T \ {1}
           f == [i \in U |-> i + 1]
<1>1. /\ n \in Nat /\ n >= 1 /\ Len(r) = n - 1
      /\ \A i \in 1 .. n - 1 : r[i] = q[i + 1]
  BY HeadTail
<1>2. IsFiniteSet(T) /\ IsFiniteSet(U)
  <2>1. IsFiniteSet(1 .. n) /\ T \subseteq 1 .. n /\ IsFiniteSet(1 .. n - 1) /\ U \subseteq 1 .. n - 1
    BY <1>1, FS_Interval
  <2> QED BY <2>1, FS_Subset
<1>3. Cardinality(T) \in Nat /\ Cardinality(U) \in Nat
  BY <1>2, FS_CardinalityType
<1> HIDE DEF n, r
<1>4. f \in Bijection(U, V)
  <2>1. \A i \in U : i \in 1 .. n - 1 /\ i + 1 \in V
    BY <1>1 DEF n
  <2>2. \A i, j \in U : f[i] = f[j] => i = j
    BY <1>1, <2>1
  <2>3. \A k \in V : k \in 2 .. n /\ k - 1 \in U /\ f[k - 1] = k
    BY <1>1 DEF n
  <2>4. f \in [U -> V]
    BY <2>1
  <2> HIDE DEF f, U, V
  <2> QED BY <2>2, <2>3, <2>4 DEF Bijection, Injection, Surjection, IsInjective
<1>5. Cardinality(V) = Cardinality(U)
  BY <1>2, <1>4, FS_Bijection DEF ExistsBijection
<1>6. Cardinality(V) = IF 1 \in T THEN Cardinality(T) - 1 ELSE Cardinality(T)
  BY <1>2, FS_RemoveElement
<1>7. 1 \in T <=> q[1] \in S
  BY <1>1 DEF n
<1> HIDE DEF T, U, V
<1>8. Cardinality(T) = Cardinality(U) + (IF q[1] \in S THEN 1 ELSE 0)
  BY <1>3, <1>5, <1>6, <1>7
<1> QED BY <1>8 DEF Count, n, r, T, U

\* A ring in which an entry is posted, and the others.
LEMMA PostedRing ==
    ASSUME NEW E, NEW f \in [Shards -> Seq(E)], NEW s \in Shards, NEW e \in E, NEW g,
           g = [f EXCEPT ![s] = Append(@, e)]
    PROVE  /\ g \in [Shards -> Seq(E)] /\ \A t \in Shards : t # s => g[t] = f[t]
           /\ g[s] = Append(f[s], e) /\ g[s] # << >>
           /\ Len(f[s]) \in Nat /\ Len(g[s]) = Len(f[s]) + 1 /\ g[s][Len(f[s]) + 1] = e
           /\ \A i \in 1 .. Len(f[s]) : g[s][i] = f[s][i]
<1>1. f[s] \in Seq(E) /\ g[s] = Append(f[s], e) /\ \A t \in Shards : t # s => g[t] = f[t]
  OBVIOUS
<1>2. Append(f[s], e) \in Seq(E)
  BY <1>1, AddLast
<1>3. g \in [Shards -> Seq(E)]
  BY <1>2
<1> QED BY <1>1, <1>3, AddLast

\* A ring whose first entry is freed, and the others.
LEMMA FreedRing ==
    ASSUME NEW E, NEW f \in [Shards -> Seq(E)], NEW s \in Shards, f[s] # << >>, NEW g,
           g = [f EXCEPT ![s] = Tail(@)]
    PROVE  /\ g \in [Shards -> Seq(E)] /\ \A t \in Shards : t # s => g[t] = f[t]
           /\ g[s] = Tail(f[s]) /\ Head(f[s]) = f[s][1] /\ f[s][1] \in E
           /\ Len(f[s]) \in Nat /\ Len(f[s]) >= 1 /\ Len(g[s]) = Len(f[s]) - 1
           /\ \A i \in 1 .. Len(f[s]) - 1 : g[s][i] = f[s][i + 1]
<1>1. f[s] \in Seq(E) /\ g[s] = Tail(f[s]) /\ \A t \in Shards : t # s => g[t] = f[t]
  OBVIOUS
<1>2. Tail(f[s]) \in Seq(E)
  BY <1>1, HeadTail
<1>3. g \in [Shards -> Seq(E)]
  BY <1>2
<1> QED BY <1>1, <1>3, HeadTail

\* The entries of an rx ring.
LEMMA RxEntries ==
    /\ \A e \in RxEntry :
           /\ e.type \in {"msg", "event", "post"} /\ e.sqn \in Nat /\ e.sqn \in 0 .. MaxSqn
           /\ e.type = "msg" => e.sqn \in 1 .. MaxSqn /\ e = RxMessage(e.sqn)
           /\ e.type # "msg" => e.sqn = 0
           /\ e \in {AmiEvent} <=> e.type = "event"
    /\ AmiEvent \in RxEntry /\ AmiEvent.type = "event"
    /\ ShardingPost \in RxEntry /\ ShardingPost.type = "post"
    /\ \A n \in 1 .. MaxSqn : RxMessage(n) \in RxEntry
    /\ \A n : RxMessage(n).type = "msg" /\ RxMessage(n).sqn = n
BY PipelineAssumption DEF RxEntry, RxMessage, AmiEvent, ShardingPost

\* The records of a tx ring.
LEMMA TxEntries ==
    /\ \A e \in TxEntry : e.kind \in Kinds /\ e = TxRecord(e.kind, e.sqn)
    /\ \A kind \in Kinds : \A n \in 0 .. MaxSqn :
           (kind \in {"done", "discard"} => n > 0) => TxRecord(kind, n) \in TxEntry
    /\ \A kind, n : TxRecord(kind, n).kind = kind /\ TxRecord(kind, n).sqn = n
    /\ NoRecord \in TxEntry /\ NoRecord.kind = "none" /\ NoRecord.sqn = 0
BY PipelineAssumption DEF TxEntry, TxRecord, NoRecord, Kinds

\* The numbers in them.
LEMMA TxNumbers ==
    ASSUME NEW e \in TxEntry
    PROVE  /\ e.sqn \in Nat /\ e.sqn \in 0 .. MaxSqn
           /\ e.sqn > 0 => e.sqn \in 1 .. MaxSqn
           /\ e.kind \in {"done", "discard"} => e.sqn > 0 /\ e.sqn \in 1 .. MaxSqn
BY PipelineAssumption DEF TxEntry

\* A job is a message and a shard.
LEMMA Jobs ==
    /\ \A j \in Job : j[1] \in 1 .. MaxSqn /\ j[2] \in Shards /\ j = <<j[1], j[2]>>
    /\ \A n \in 1 .. MaxSqn : \A s \in Shards : <<n, s>> \in Job
    /\ \A n \in 1 .. MaxSqn : n \in Nat /\ n >= 1 /\ n \in 0 .. MaxSqn
BY PipelineAssumption DEF Job

-----------------------------------------------------------------------------
(* The type invariant, action by action.                                   *)

\* The types that the steps need one by one.
LEMMA Types ==
    ASSUME TypeInv
    PROVE  /\ \A s \in Shards : /\ rx[s] \in Seq(RxEntry) /\ tx[s] \in Seq(TxEntry)
                                /\ want[s] \in TxEntry /\ handled[s] \in Nat /\ sends[s] \in Nat
                                /\ rx[s] # << >> => Head(rx[s]) = rx[s][1] /\ rx[s][1] \in RxEntry
                                /\ tx[s] # << >> => Head(tx[s]) = tx[s][1] /\ tx[s][1] \in TxEntry
           /\ sort # << >> => /\ Head(sort) = sort[1] /\ sort[1] \in Job
                              /\ sort[1][1] \in 1 .. MaxSqn /\ sort[1][2] \in Shards
           /\ amiTodo # << >> => Head(amiTodo) = amiTodo[1] /\ amiTodo[1] \in Shards
           /\ amiPc # "idle" => /\ amiTodo # << >>
                                /\ next - 1 \in 1 .. MaxSqn /\ next - 1 \in 0 .. MaxSqn
           /\ next \in Nat /\ pushed \in Nat /\ joined \in Nat /\ joined <= pushed
           /\ evIndex \in Nat /\ evIndex >= 1 /\ evIndex <= ShardNum
           /\ \A s \in Shards : s \in Nat /\ 1 <= s /\ s <= ShardNum
           /\ ShardNum \in Nat /\ ShardNum \in Shards /\ 1 \in Shards
<1>1. /\ \A s \in Shards : /\ rx[s] \in Seq(RxEntry) /\ tx[s] \in Seq(TxEntry)
                           /\ want[s] \in TxEntry /\ handled[s] \in Nat /\ sends[s] \in Nat
      /\ amiTodo \in Seq(Shards) /\ sort \in Seq(Job)
  BY DEF TypeInv, TypeOK, FlowTypes
<1>2. /\ next \in Nat /\ pushed \in Nat /\ joined \in Nat /\ joined <= pushed
      /\ evIndex \in Shards /\ next <= MaxSqn + 1 /\ MaxSqn \in Nat
  BY PipelineAssumption DEF TypeInv, TypeOK
<1>3. /\ \A s \in Shards : s \in Nat /\ 1 <= s /\ s <= ShardNum
      /\ ShardNum \in Nat /\ ShardNum \in Shards /\ 1 \in Shards
  BY PipelineAssumption DEF Shards
<1>4. amiPc # "idle" => amiTodo # << >> /\ next >= 2
  BY DEF TypeInv, AgentInv
<1>5. amiPc # "idle" => next - 1 \in 1 .. MaxSqn /\ next - 1 \in 0 .. MaxSqn
  BY <1>2, <1>4
<1>6. \A s \in Shards : /\ rx[s] # << >> => Head(rx[s]) = rx[s][1] /\ rx[s][1] \in RxEntry
                        /\ tx[s] # << >> => Head(tx[s]) = tx[s][1] /\ tx[s][1] \in TxEntry
  BY <1>1, HeadTail
<1>7. /\ sort # << >> => Head(sort) = sort[1] /\ sort[1] \in Job
      /\ amiTodo # << >> => Head(amiTodo) = amiTodo[1] /\ amiTodo[1] \in Shards
  BY <1>1, HeadTail
<1>8. sort # << >> => sort[1][1] \in 1 .. MaxSqn /\ sort[1][2] \in Shards
  BY <1>7, Jobs
<1> QED BY <1>1, <1>2, <1>3, <1>4, <1>5, <1>6, <1>7, <1>8

\* What AgentInv, ShardInv and SortInv do not look at may change.
LEMMA AgentFrame ==
    ASSUME AgentInv, UNCHANGED <<amiPc, amiTodo, next>> PROVE AgentInv'
BY DEF AgentInv

\* A step that leaves the shards and their rx rings.
LEMMA ShardFrame ==
    ASSUME ShardInv, UNCHANGED <<spc, want, rx>> PROVE ShardInv'
BY DEF ShardInv, ShardOK

\* A step that leaves the sort thread and what it reads.
LEMMA SortFrame ==
    ASSUME SortInv, UNCHANGED <<apc, postTo, sort, tx>> PROVE SortInv'
BY DEF SortInv

\* OnMessage: what the message thread has before it.
LEMMA OnMessageType ==
    ASSUME TypeInv, NEW dst \in Dsts, OnMessage(dst) PROVE TypeInv'
<1> USE DEF OnMessage, evVars, shardVars, actorVars
<1>1. /\ dst \in Int /\ next \in Nat /\ MaxSqn \in Nat /\ next <= MaxSqn
      /\ next >= 1 /\ next' = next + 1 /\ ShardNum \in Nat
  BY PipelineAssumption DEF TypeInv, TypeOK
<1>2. next' \in 1 .. MaxSqn + 1 /\ next' >= 2
  BY <1>1
<1>3. /\ amiTodo' \in Seq(Shards)
      /\ \A i, j \in 1 .. Len(amiTodo') : i # j => amiTodo'[i] # amiTodo'[j]
  <2>1. CASE dst = 0
    <3>1. amiTodo' = [i \in 1 .. ShardNum |-> i] /\ Shards = 1 .. ShardNum
      BY <2>1 DEF Shards
    <3>2. amiTodo' \in [1 .. ShardNum -> Shards]
      BY <3>1
    <3>3. amiTodo' \in Seq(Shards) /\ Len(amiTodo') = ShardNum
      BY <1>1, <3>2, SeqDef
    <3> QED BY <3>1, <3>3
  <2>2. CASE dst \in Shards
    <3>1. dst # 0
      BY <2>2, <1>1 DEF Shards
    <3>2. amiTodo' = <<dst>>
      BY <2>2, <3>1
    <3> QED BY <2>2, <3>2
  <2>3. CASE dst # 0 /\ dst \notin Shards
    <3>1. amiTodo' = << >>
      BY <2>3
    <3> QED BY <3>1
  <2> QED BY <2>1, <2>2, <2>3
<1>4. amiPc' \in {"idle", "push"} /\ (amiPc' = "idle" <=> amiTodo' = << >>)
  OBVIOUS
<1>5. TypeOK'
  BY <1>2, <1>3, <1>4 DEF TypeInv, TypeOK, TxSize
<1>6. FlowTypes'
  BY DEF TypeInv, FlowTypes
<1>7. AgentInv'
  BY <1>2, <1>3, <1>4 DEF AgentInv
<1> QED BY <1>5, <1>6, <1>7, ShardFrame, SortFrame DEF TypeInv

\* PushSort: the element is a job.
LEMMA PushSortType ==
    ASSUME TypeInv, PushSort
    PROVE  /\ TypeInv' /\ amiPc = "push" /\ amiPc' = "lock" /\ amiTodo # << >>
           /\ <<next - 1, amiTodo[1]>> \in Job
           /\ sort' = Append(sort, <<next - 1, amiTodo[1]>>)
           /\ jobs' = Append(jobs, <<next - 1, amiTodo[1]>>)
<1> USE DEF PushSort, evVars, shardVars, actorVars
<1> DEFINE e == <<next - 1, amiTodo[1]>>
<1>1. /\ amiTodo # << >> /\ Head(amiTodo) = amiTodo[1] /\ amiTodo[1] \in Shards
      /\ next - 1 \in 1 .. MaxSqn
  BY Types
<1>2. e \in Job
  BY <1>1, Jobs
<1>3. sort' = Append(sort, e) /\ jobs' = Append(jobs, e)
  BY <1>1
<1> HIDE DEF e
<1>4. sort' \in Seq(Job) /\ jobs' \in Seq(Job)
  <2>1. sort \in Seq(Job) /\ jobs \in Seq(Job)
    BY DEF TypeInv, TypeOK
  <2>2. Append(sort, e) \in Seq(Job)
    BY <1>2, <2>1, AddLast
  <2>3. Append(jobs, e) \in Seq(Job)
    BY <1>2, <2>1, AddLast
  <2> QED BY <1>3, <2>2, <2>3
<1>5. TypeOK'
  BY <1>4 DEF TypeInv, TypeOK, TxSize
<1>6. FlowTypes'
  BY DEF TypeInv, FlowTypes
<1>7. AgentInv'
  BY DEF TypeInv, AgentInv
<1>8. SortInv'
  <2>1. CASE sort = << >>
    BY <2>1 DEF TypeInv, SortInv
  <2>2. CASE sort # << >>
    <3>1. sort' # << >> /\ sort'[1] = sort[1]
      BY <1>2, <1>3, <2>2, AddLast, HeadTail DEF TypeInv, TypeOK
    <3> QED BY <3>1 DEF TypeInv, SortInv
  <2> QED BY <2>1, <2>2
<1> QED BY <1>1, <1>2, <1>3, <1>5, <1>6, <1>7, <1>8, ShardFrame DEF TypeInv, e

\* DeliverMessage takes the lock.
LEMMA LockMessageType == ASSUME TypeInv, LockMessage PROVE TypeInv'
<1> USE DEF LockMessage, LockRx, evVars, shardVars, actorVars
<1>1. TypeOK'
  BY DEF TypeInv, TypeOK, TxSize
<1>2. FlowTypes'
  BY DEF TypeInv, FlowTypes
<1>3. AgentInv'
  BY DEF TypeInv, AgentInv
<1> QED BY <1>1, <1>2, <1>3, ShardFrame, SortFrame DEF TypeInv

\* Posting to an rx ring: its length, and what the shard is about.
LEMMA PostRxType ==
    ASSUME TypeInv, NEW s \in Shards, NEW e \in RxEntry, PostRx(s, e), UNCHANGED <<spc, want>>
    PROVE  /\ rx' \in [Shards -> Seq(RxEntry)] /\ rx_spinlock' = "free"
           /\ \A t \in Shards : Len(rx'[t]) <= RxSize
           /\ ShardInv'
<1> USE DEF PostRx
<1>1. rx \in [Shards -> Seq(RxEntry)]
  BY DEF TypeInv, FlowTypes
<1>2. rx' = [rx EXCEPT ![s] = Append(@, e)] /\ Len(rx[s]) < RxSize /\ rx_spinlock' = "free"
  OBVIOUS
<1>3. /\ rx' \in [Shards -> Seq(RxEntry)] /\ \A t \in Shards : t # s => rx'[t] = rx[t]
      /\ rx'[s] # << >> /\ Len(rx[s]) \in Nat /\ Len(rx'[s]) = Len(rx[s]) + 1
      /\ \A i \in 1 .. Len(rx[s]) : rx'[s][i] = rx[s][i]
  BY <1>1, <1>2, PostedRing
<1>4. \A t \in Shards : Len(rx'[t]) <= RxSize
  BY <1>2, <1>3, PipelineAssumption DEF TypeInv, TypeOK
<1>5. \A t \in Shards : rx[t] # << >> => rx'[t] # << >> /\ rx'[t][1] = rx[t][1]
  <2>1. rx[s] # << >> => 1 \in 1 .. Len(rx[s])
    BY <1>1, HeadTail
  <2> QED BY <1>3, <2>1
<1>6. ShardInv'
  BY <1>5 DEF TypeInv, ShardInv, ShardOK
<1> QED BY <1>2, <1>3, <1>4, <1>6

\* PostMessage: one shard less before the message thread.
LEMMA PostMessageType ==
    ASSUME TypeInv, PostMessage
    PROVE  /\ TypeInv' /\ amiTodo[1] \in Shards /\ next - 1 \in 1 .. MaxSqn
           /\ Len(rx[amiTodo[1]]) < RxSize
           /\ rx' = [rx EXCEPT ![amiTodo[1]] = Append(@, RxMessage(next - 1))]
<1> USE DEF PostMessage, evVars, shardVars, actorVars
<1>1. /\ amiTodo # << >> /\ Head(amiTodo) = amiTodo[1] /\ amiTodo[1] \in Shards
      /\ next - 1 \in 1 .. MaxSqn
  BY Types
<1>2. RxMessage(next - 1) \in RxEntry
  BY <1>1, RxEntries
<1>3. PostRx(amiTodo[1], RxMessage(next - 1))
  BY <1>1
<1>4. PICK s \in Shards : s = amiTodo[1]
  BY <1>1
<1>5. PICK e \in RxEntry : e = RxMessage(next - 1)
  BY <1>2
<1>6. /\ rx' \in [Shards -> Seq(RxEntry)] /\ rx_spinlock' = "free"
      /\ \A t \in Shards : Len(rx'[t]) <= RxSize
      /\ ShardInv'
  BY <1>3, <1>4, <1>5, PostRxType
<1>7. /\ amiTodo \in Seq(Shards) /\ amiTodo' = Tail(amiTodo)
      /\ amiTodo' \in Seq(Shards) /\ Len(amiTodo') = Len(amiTodo) - 1 /\ Len(amiTodo) \in Nat
      /\ \A i \in 1 .. Len(amiTodo) - 1 : amiTodo'[i] = amiTodo[i + 1]
  BY <1>1, HeadTail DEF TypeInv, TypeOK
<1>8. amiPc' \in {"idle", "push"} /\ (amiPc' = "idle" <=> amiTodo' = << >>)
  OBVIOUS
<1>9. TypeOK'
  BY <1>6, <1>7, <1>8 DEF TypeInv, TypeOK, TxSize
<1>10. FlowTypes'
  BY <1>6 DEF TypeInv, FlowTypes
<1>11. AgentInv'
  <2>1. ASSUME NEW i \in 1 .. Len(amiTodo'), NEW j \in 1 .. Len(amiTodo'), i # j
        PROVE  amiTodo'[i] # amiTodo'[j]
    <3>1. i + 1 \in 1 .. Len(amiTodo) /\ j + 1 \in 1 .. Len(amiTodo) /\ i + 1 # j + 1
      BY <1>7, <2>1
    <3> QED BY <1>7, <3>1 DEF TypeInv, AgentInv
  <2>2. next' >= 2
    BY DEF TypeInv, AgentInv
  <2> QED BY <1>8, <2>1, <2>2 DEF AgentInv
<1> QED BY <1>1, <1>3, <1>6, <1>9, <1>10, <1>11, SortFrame DEF TypeInv, PostRx

\* An event comes.
LEMMA CallPushEventType ==
    ASSUME TypeInv, NEW recovery \in BOOLEAN, CallPushEvent(recovery) PROVE TypeInv'
<1> USE DEF CallPushEvent, amiVars, shardVars, actorVars
<1>1. pushed' \in Nat /\ joined' \in 0 .. pushed' /\ evIndex' \in Shards
  BY Types
<1>2. TypeOK'
  BY <1>1 DEF TypeInv, TypeOK, TxSize
<1>3. FlowTypes'
  BY DEF TypeInv, FlowTypes
<1> QED BY <1>2, <1>3, AgentFrame, ShardFrame, SortFrame DEF TypeInv

\* PushEvent takes the lock.
LEMMA LockEventType == ASSUME TypeInv, LockEvent PROVE TypeInv'
<1> USE DEF LockEvent, LockRx, amiVars, shardVars, actorVars
<1>1. TypeOK'
  BY DEF TypeInv, TypeOK, TxSize
<1>2. FlowTypes'
  BY DEF TypeInv, FlowTypes
<1> QED BY <1>1, <1>2, AgentFrame, ShardFrame, SortFrame DEF TypeInv

\* PushEvent's loop goes on, or ends.
LEMMA PostEventType == ASSUME TypeInv, PostEvent PROVE TypeInv'
<1> USE DEF PostEvent, amiVars, shardVars, actorVars
<1>1. evIndex \in Shards /\ AmiEvent \in RxEntry
  BY RxEntries DEF TypeInv, TypeOK
<1>2. /\ rx' \in [Shards -> Seq(RxEntry)] /\ rx_spinlock' = "free"
      /\ \A t \in Shards : Len(rx'[t]) <= RxSize
      /\ ShardInv'
  BY <1>1, PostRxType
<1>3. evIndex' \in Shards
  BY <1>1, Types DEF Shards
<1>4. evPc' \in {"idle", "lock", "complete"}
  <2>1. evIndex < ShardNum \/ evIndex = ShardNum
    BY <1>1, Types
  <2>2. evIndex < ShardNum => evIndex # ShardNum
    BY <1>1, Types
  <2>3. evWaits \in BOOLEAN
    BY DEF TypeInv, TypeOK
  <2> QED BY <2>1, <2>2, <2>3
<1>5. TypeOK'
  BY <1>2, <1>3, <1>4 DEF TypeInv, TypeOK, TxSize
<1>6. FlowTypes'
  BY <1>2 DEF TypeInv, FlowTypes
<1> QED BY <1>2, <1>5, <1>6, AgentFrame, SortFrame DEF TypeInv

\* joined never passes pushed.
LEMMA WaitConsumeCompleteType == ASSUME TypeInv, WaitConsumeComplete PROVE TypeInv'
<1> USE DEF WaitConsumeComplete, amiVars, shardVars, actorVars
<1>1. evIndex \in Shards /\ evPc \in {"idle", "lock", "alloc", "complete"}
      /\ pushed \in Nat /\ joined \in 0 .. pushed
  BY DEF TypeInv, TypeOK
<1>2. evIndex' \in Shards
  BY <1>1, Types DEF Shards
<1>3. evPc' \in {"idle", "lock", "alloc", "complete"}
  BY <1>1
<1>4. pushed' = pushed /\ joined' \in 0 .. pushed
  BY <1>1
<1>5. TypeOK'
  BY <1>2, <1>3, <1>4 DEF TypeInv, TypeOK, TxSize
<1>6. FlowTypes'
  BY DEF TypeInv, FlowTypes
<1> QED BY <1>5, <1>6, AgentFrame, ShardFrame, SortFrame DEF TypeInv

-----------------------------------------------------------------------------
(* A shard's steps.                                                        *)

\* One shard's step: the others are what they were.
LEMMA OneShard ==
    ASSUME ShardInv, NEW s \in Shards, ShardOK(s)',
           \A t \in Shards : t # s => spc'[t] = spc[t] /\ want'[t] = want[t] /\ rx'[t] = rx[t]
    PROVE  ShardInv'
BY DEF ShardInv, ShardOK

\* A shard that goes on to step pc and has record w in hand.
LEMMA ShardMoves ==
    ASSUME TypeInv, NEW s \in Shards, NEW pc \in {"poll", "app", "alloc", "free", "skip"},
           NEW w \in TxEntry, spc' = [spc EXCEPT ![s] = pc], want' = [want EXCEPT ![s] = w]
    PROVE  /\ spc' \in [Shards -> {"poll", "app", "alloc", "free", "skip"}]
           /\ want' \in [Shards -> TxEntry] /\ spc'[s] = pc /\ want'[s] = w
           /\ \A t \in Shards : t # s => spc'[t] = spc[t] /\ want'[t] = want[t]
<1>1. /\ spc \in [Shards -> {"poll", "app", "alloc", "free", "skip"}]
      /\ want \in [Shards -> TxEntry]
  BY DEF TypeInv, TypeOK, FlowTypes
<1> QED BY <1>1

\* The entry a shard handles is in its ring.
LEMMA PollType ==
    ASSUME TypeInv, NEW s \in Shards, Poll(s)
    PROVE  TypeInv'
<1> USE DEF Poll, amiVars, evVars, actorVars
<1>1. spc \in [Shards -> {"poll", "app", "alloc", "free", "skip"}] /\ ShardInv
  BY DEF TypeInv, TypeOK
<1>2. /\ spc' \in [Shards -> {"poll", "app", "alloc", "free", "skip"}]
      /\ spc'[s] = "app" /\ \A t \in Shards : t # s => spc'[t] = spc[t]
  BY <1>1
<1>3. TypeOK'
  BY <1>2 DEF TypeInv, TypeOK, TxSize
<1>4. FlowTypes'
  BY DEF TypeInv, FlowTypes
<1>5. ShardOK(s)'
  BY <1>1, <1>2 DEF ShardInv, ShardOK
<1>6. ShardInv'
  BY <1>1, <1>2, <1>5, OneShard
<1> QED BY <1>3, <1>4, <1>6, AgentFrame, SortFrame DEF TypeInv

\* Want: a record about the entry that is being handled.
LEMMA WantType ==
    ASSUME TypeInv, NEW s \in Shards, NEW kind \in {"out", "req", "done"}, Want(s, kind),
           spc[s] = "app", kind = "done" => rx[s][1].type = "msg",
           made' \in [Job -> Nat], sends' \in [Shards -> Nat]
    PROVE  /\ TypeInv' /\ spc'[s] = "alloc" /\ want'[s] = TxRecord(kind, rx[s][1].sqn)
           /\ rx[s] # << >> /\ rx[s][1] \in RxEntry /\ want[s] = NoRecord
           /\ \A t \in Shards : t # s => spc'[t] = spc[t] /\ want'[t] = want[t]
<1> USE DEF Want, amiVars, evVars, actorVars
<1>1. rx[s] # << >> /\ ShardInv /\ want[s] = NoRecord
  BY DEF TypeInv, ShardInv, ShardOK
<1>2. Head(rx[s]) = rx[s][1] /\ rx[s][1] \in RxEntry /\ rx[s][1].sqn \in 0 .. MaxSqn
  BY <1>1, Types, RxEntries
<1>3. PICK w \in TxEntry : w = TxRecord(kind, rx[s][1].sqn) /\ w.kind = kind /\ w.sqn = rx[s][1].sqn
  <2>1. kind = "done" => rx[s][1].sqn > 0
    BY <1>2, RxEntries, PipelineAssumption
  <2> QED BY <1>2, <2>1, TxEntries DEF Kinds
<1>4. spc' = [spc EXCEPT ![s] = "alloc"] /\ want' = [want EXCEPT ![s] = w]
  BY <1>2, <1>3
<1>5. /\ spc' \in [Shards -> {"poll", "app", "alloc", "free", "skip"}]
      /\ want' \in [Shards -> TxEntry] /\ spc'[s] = "alloc" /\ want'[s] = w
      /\ \A t \in Shards : t # s => spc'[t] = spc[t] /\ want'[t] = want[t]
  BY <1>4, ShardMoves
<1>6. TypeOK'
  BY <1>5 DEF TypeInv, TypeOK, TxSize
<1>7. FlowTypes'
  BY <1>5 DEF TypeInv, FlowTypes
<1>8. ShardOK(s)'
  BY <1>1, <1>3, <1>5 DEF ShardOK
<1>9. ShardInv'
  BY <1>1, <1>5, <1>8, OneShard
<1> QED BY <1>1, <1>2, <1>3, <1>5, <1>6, <1>7, <1>9, AgentFrame, SortFrame DEF TypeInv

\* Call: SendMsg and ShardingRequest.
LEMMA CallType ==
    ASSUME TypeInv, NEW s \in Shards, NEW kind \in {"out", "req"}, Call(s, kind)
    PROVE  /\ TypeInv' /\ spc[s] = "app" /\ spc'[s] = "alloc"
           /\ want'[s] = TxRecord(kind, rx[s][1].sqn)
           /\ rx[s] # << >> /\ rx[s][1] \in RxEntry /\ want[s] = NoRecord
           /\ \A t \in Shards : t # s => spc'[t] = spc[t] /\ want'[t] = want[t]
           /\ made' = [j \in Job |-> IF kind = "out" /\ j = <<rx[s][1].sqn, s>>
                                     THEN made[j] + 1 ELSE made[j]]
<1>1. rx[s] # << >> /\ spc[s] = "app"
  BY DEF TypeInv, ShardInv, ShardOK, Call
<1>2. Head(rx[s]) = rx[s][1]
  BY <1>1, Types
<1>3. made' = [j \in Job |-> IF kind = "out" /\ j = <<rx[s][1].sqn, s>>
                             THEN made[j] + 1 ELSE made[j]]
  BY <1>2 DEF Call
<1>4. made' \in [Job -> Nat]
  BY <1>3 DEF TypeInv, FlowTypes
<1>5. sends' \in [Shards -> Nat]
  BY DEF TypeInv, FlowTypes, Call
<1>6. Want(s, kind)
  BY DEF Call
<1> QED BY <1>1, <1>3, <1>4, <1>5, <1>6, WantType

\* CallbackReturns: ProcessMessageDone after a message.
LEMMA CallbackReturnsType ==
    ASSUME TypeInv, NEW s \in Shards, CallbackReturns(s)
    PROVE  /\ TypeInv' /\ spc[s] = "app" /\ rx[s] # << >> /\ want[s] = NoRecord
           /\ \A t \in Shards : t # s => spc'[t] = spc[t] /\ want'[t] = want[t]
           /\ \/ /\ rx[s][1].type = "msg" /\ spc'[s] = "alloc"
                 /\ want'[s] = TxRecord("done", rx[s][1].sqn)
              \/ rx[s][1].type # "msg" /\ spc'[s] = "free" /\ want'[s] = want[s]
           /\ UNCHANGED <<setup, made, handled, amiVars, evVars, actorVars, rx_spinlock, sort, rx, tx>>
<1> USE DEF CallbackReturns
<1>1. rx[s] # << >> /\ spc[s] = "app" /\ ShardInv /\ want[s] = NoRecord
  BY DEF TypeInv, ShardInv, ShardOK
<1>2. Head(rx[s]) = rx[s][1]
  BY <1>1, Types
<1>3. sends' \in [Shards -> Nat]
  BY DEF TypeInv, FlowTypes
<1>4. CASE rx[s][1].type = "msg"
  <2>1. Want(s, "done") /\ made' = made
    BY <1>2, <1>4
  <2>2. made' \in [Job -> Nat]
    BY <2>1 DEF TypeInv, FlowTypes
  <2>3. UNCHANGED <<setup, made, handled, amiVars, evVars, actorVars, rx_spinlock, sort, rx, tx>>
    BY <2>1 DEF Want
  <2> QED BY <1>1, <1>3, <1>4, <2>1, <2>2, <2>3, WantType
<1>5. CASE rx[s][1].type # "msg"
  <2>1. /\ spc' = [spc EXCEPT ![s] = "free"]
        /\ UNCHANGED <<setup, want, made, handled, amiVars, evVars, actorVars, rx_spinlock, sort,
                       rx, tx>>
    BY <1>2, <1>5
  <2>2. spc \in [Shards -> {"poll", "app", "alloc", "free", "skip"}]
    BY DEF TypeInv, TypeOK
  <2>3. /\ spc' \in [Shards -> {"poll", "app", "alloc", "free", "skip"}]
        /\ spc'[s] = "free" /\ \A t \in Shards : t # s => spc'[t] = spc[t]
    BY <2>1, <2>2
  <2>4. TypeOK'
    BY <2>1, <2>3 DEF TypeInv, TypeOK, TxSize, amiVars, evVars, actorVars
  <2>5. FlowTypes'
    BY <1>3, <2>1 DEF TypeInv, FlowTypes, amiVars, evVars, actorVars
  <2>6. ShardOK(s)'
    BY <1>1, <2>1, <2>3 DEF ShardInv, ShardOK
  <2>7. ShardInv'
    BY <1>1, <2>1, <2>3, <2>6, OneShard
  <2>8. AgentInv' /\ SortInv'
    BY <2>1, AgentFrame, SortFrame DEF TypeInv, amiVars, actorVars
  <2> QED BY <1>1, <1>5, <2>1, <2>3, <2>4, <2>5, <2>7, <2>8 DEF TypeInv
<1> QED BY <1>4, <1>5

\* Posting to a tx ring: its length, and the request that PostTo is about.
LEMMA PostTxRing ==
    ASSUME TypeInv, NEW s \in Shards, Len(tx[s]) < TxSize,
           tx' = [tx EXCEPT ![s] = Append(@, want[s])], UNCHANGED <<setup, apc, postTo, sort>>
    PROVE  /\ tx' \in [Shards -> Seq(TxEntry)] /\ SortInv'
           /\ \A t \in Shards : Len(tx'[t]) <= TxSize'
<1>1. tx \in [Shards -> Seq(TxEntry)]
  BY DEF TypeInv, FlowTypes
<1>2. PICK w \in TxEntry : w = want[s]
  BY Types
<1>3. /\ tx' \in [Shards -> Seq(TxEntry)] /\ \A t \in Shards : t # s => tx'[t] = tx[t]
      /\ tx'[s] # << >> /\ Len(tx[s]) \in Nat /\ Len(tx'[s]) = Len(tx[s]) + 1
      /\ \A i \in 1 .. Len(tx[s]) : tx'[s][i] = tx[s][i]
  BY <1>1, <1>2, PostedRing
<1>4. TxSize' = TxSize /\ TxSize \in Nat
  BY PipelineAssumption DEF TypeInv, TypeOK, TxSize
<1>5. \A t \in Shards : Len(tx[t]) <= TxSize
  BY DEF TypeInv, TypeOK
<1>6. \A t \in Shards : Len(tx'[t]) <= TxSize'
  BY <1>3, <1>4, <1>5
<1>7. \A t \in Shards : tx[t] # << >> => tx'[t] # << >> /\ tx'[t][1] = tx[t][1]
  <2>1. tx[s] # << >> => 1 \in 1 .. Len(tx[s])
    BY <1>1, HeadTail
  <2> QED BY <1>3, <2>1
<1>8. sort # << >> => sort[1][2] \in Shards
  BY Types
<1>9. SortInv'
  BY <1>7, <1>8 DEF TypeInv, SortInv
<1> QED BY <1>3, <1>6, <1>9

\* The record in hand goes into the tx ring, which has room for it.
LEMMA PostTxType ==
    ASSUME TypeInv, NEW s \in Shards, PostTx(s)
    PROVE  /\ TypeInv' /\ spc[s] = "alloc" /\ rx[s] # << >> /\ want'[s] = NoRecord
           /\ spc'[s] = IF want[s].kind = "done" THEN "free" ELSE "app"
           /\ \A t \in Shards : t # s => spc'[t] = spc[t] /\ want'[t] = want[t]
<1> USE DEF PostTx, amiVars, evVars, actorVars
<1>1. rx[s] # << >> /\ ShardInv /\ spc[s] = "alloc"
  BY DEF TypeInv, ShardInv, ShardOK
<1>2. PICK w \in TxEntry : w = NoRecord
  BY TxEntries
<1>3. PICK pc \in {"poll", "app", "alloc", "free", "skip"} :
          pc = IF want[s].kind = "done" THEN "free" ELSE "app"
  OBVIOUS
<1>4. /\ spc' \in [Shards -> {"poll", "app", "alloc", "free", "skip"}]
      /\ want' \in [Shards -> TxEntry] /\ spc'[s] = pc /\ want'[s] = w
      /\ \A t \in Shards : t # s => spc'[t] = spc[t] /\ want'[t] = want[t]
  <2>1. spc' = [spc EXCEPT ![s] = pc] /\ want' = [want EXCEPT ![s] = w]
    BY <1>2, <1>3
  <2> QED BY <2>1, ShardMoves
<1>5. /\ tx' \in [Shards -> Seq(TxEntry)] /\ SortInv'
      /\ \A t \in Shards : Len(tx'[t]) <= TxSize'
  BY PostTxRing
<1>6. TypeOK'
  BY <1>4, <1>5 DEF TypeInv, TypeOK
<1>7. FlowTypes'
  BY <1>4, <1>5 DEF TypeInv, FlowTypes
<1>8. ShardOK(s)'
  BY <1>1, <1>2, <1>3, <1>4 DEF ShardOK
<1>9. ShardInv'
  BY <1>1, <1>4, <1>8, OneShard
<1> QED BY <1>1, <1>2, <1>3, <1>4, <1>5, <1>6, <1>7, <1>9, AgentFrame DEF TypeInv

\* An rx ring whose first entry is freed.
LEMMA FreeRxRing ==
    ASSUME TypeInv, NEW s \in Shards, rx[s] # << >>, rx' = [rx EXCEPT ![s] = Tail(@)]
    PROVE  /\ rx' \in [Shards -> Seq(RxEntry)] /\ \A t \in Shards : Len(rx'[t]) <= RxSize
           /\ \A t \in Shards : t # s => rx'[t] = rx[t]
           /\ Head(rx[s]) = rx[s][1] /\ rx[s][1] \in RxEntry
<1>1. rx \in [Shards -> Seq(RxEntry)]
  BY DEF TypeInv, FlowTypes
<1>2. /\ rx' \in [Shards -> Seq(RxEntry)] /\ \A t \in Shards : t # s => rx'[t] = rx[t]
      /\ Head(rx[s]) = rx[s][1] /\ rx[s][1] \in RxEntry
      /\ Len(rx[s]) \in Nat /\ Len(rx[s]) >= 1 /\ Len(rx'[s]) = Len(rx[s]) - 1
  BY <1>1, FreedRing
<1>3. \A t \in Shards : Len(rx'[t]) <= RxSize
  BY <1>2, PipelineAssumption DEF TypeInv, TypeOK
<1> QED BY <1>2, <1>3

\* A handled entry is freed.
LEMMA FreeEntryType ==
    ASSUME TypeInv, NEW s \in Shards, FreeEntry(s)
    PROVE  /\ TypeInv' /\ spc[s] = "free" /\ rx[s] # << >> /\ spc'[s] = "poll"
           /\ Head(rx[s]) = rx[s][1] /\ rx[s][1] \in RxEntry
           /\ \A t \in Shards : t # s => spc'[t] = spc[t]
<1> USE DEF FreeEntry, amiVars, evVars, actorVars
<1>1. rx[s] # << >> /\ ShardInv /\ spc[s] = "free" /\ want[s] = NoRecord
  BY DEF TypeInv, ShardInv, ShardOK
<1>2. spc \in [Shards -> {"poll", "app", "alloc", "free", "skip"}] /\ handled \in [Shards -> Nat]
  BY DEF TypeInv, TypeOK, FlowTypes
<1>3. /\ spc' \in [Shards -> {"poll", "app", "alloc", "free", "skip"}]
      /\ spc'[s] = "poll" /\ \A t \in Shards : t # s => spc'[t] = spc[t]
      /\ handled' \in [Shards -> Nat]
  BY <1>2
<1>4. /\ rx' \in [Shards -> Seq(RxEntry)] /\ \A t \in Shards : Len(rx'[t]) <= RxSize
      /\ \A t \in Shards : t # s => rx'[t] = rx[t]
      /\ Head(rx[s]) = rx[s][1] /\ rx[s][1] \in RxEntry
  BY <1>1, FreeRxRing
<1>5. TypeOK'
  BY <1>3, <1>4 DEF TypeInv, TypeOK, TxSize
<1>6. FlowTypes'
  BY <1>3, <1>4 DEF TypeInv, FlowTypes
<1>7. ShardOK(s)'
  BY <1>1, <1>3 DEF ShardOK
<1>8. ShardInv'
  BY <1>1, <1>3, <1>4, <1>7, OneShard
<1> QED BY <1>1, <1>3, <1>4, <1>5, <1>6, <1>8, AgentFrame, SortFrame DEF TypeInv

\* OnTrialError has a discard record in hand, of a message.
LEMMA SkipMessageType ==
    ASSUME TypeInv, NEW s \in Shards, SkipMessage(s)
    PROVE  /\ TypeInv' /\ spc[s] = "poll" /\ want[s] = NoRecord /\ rx[s] # << >>
           /\ rx[s][1] \in RxEntry /\ rx[s][1].type = "msg" /\ rx[s][1].sqn \in 1 .. MaxSqn
           /\ spc'[s] = "skip" /\ want'[s] = TxRecord("discard", rx[s][1].sqn)
           /\ \A t \in Shards : t # s => spc'[t] = spc[t] /\ want'[t] = want[t]
           /\ made' = [made EXCEPT ![<<rx[s][1].sqn, s>>] = @ + 1]
<1> USE DEF SkipMessage, amiVars, evVars, actorVars
<1>1. rx[s] # << >> /\ ShardInv /\ spc[s] = "poll" /\ want[s] = NoRecord
  BY DEF TypeInv, ShardInv, ShardOK
<1>2. /\ rx' \in [Shards -> Seq(RxEntry)] /\ \A t \in Shards : Len(rx'[t]) <= RxSize
      /\ \A t \in Shards : t # s => rx'[t] = rx[t]
      /\ Head(rx[s]) = rx[s][1] /\ rx[s][1] \in RxEntry
  BY <1>1, FreeRxRing
<1>3. rx[s][1].type = "msg" /\ rx[s][1].sqn \in 1 .. MaxSqn /\ rx[s][1].sqn \in 0 .. MaxSqn
      /\ rx[s][1].sqn > 0
  BY <1>2, RxEntries, PipelineAssumption
<1>4. PICK w \in TxEntry : /\ w = TxRecord("discard", rx[s][1].sqn)
                           /\ w.kind = "discard" /\ w.sqn = rx[s][1].sqn
  BY <1>3, TxEntries DEF Kinds
<1>5. /\ spc' \in [Shards -> {"poll", "app", "alloc", "free", "skip"}]
      /\ want' \in [Shards -> TxEntry] /\ spc'[s] = "skip" /\ want'[s] = w
      /\ \A t \in Shards : t # s => spc'[t] = spc[t] /\ want'[t] = want[t]
  <2>1. spc' = [spc EXCEPT ![s] = "skip"] /\ want' = [want EXCEPT ![s] = w]
    BY <1>2, <1>4
  <2> QED BY <2>1, ShardMoves
<1>6. made' = [made EXCEPT ![<<rx[s][1].sqn, s>>] = @ + 1] /\ made' \in [Job -> Nat]
  <2>1. PICK j \in Job : j = <<rx[s][1].sqn, s>>
    BY <1>3, Jobs
  <2>2. made \in [Job -> Nat] /\ made' = [made EXCEPT ![j] = @ + 1]
    BY <1>2, <2>1 DEF TypeInv, FlowTypes
  <2>3. made' \in [Job -> Nat]
    BY ONLY <2>1, <2>2
  <2> QED BY <2>1, <2>2, <2>3
<1>7. TypeOK'
  BY <1>2, <1>5 DEF TypeInv, TypeOK, TxSize
<1>8. FlowTypes'
  BY <1>2, <1>5, <1>6 DEF TypeInv, FlowTypes
<1>9. ShardOK(s)'
  BY <1>3, <1>4, <1>5 DEF ShardOK
<1>10. ShardInv'
  BY <1>1, <1>2, <1>5, <1>9, OneShard
<1> QED BY <1>1, <1>2, <1>3, <1>4, <1>5, <1>6, <1>7, <1>8, <1>10, AgentFrame, SortFrame DEF TypeInv

\* After the discard record comes the process-done record of the same message.
LEMMA PostSkipType ==
    ASSUME TypeInv, NEW s \in Shards, PostSkip(s)
    PROVE  /\ TypeInv' /\ spc[s] = "skip" /\ want[s] \in TxEntry /\ want[s].sqn \in 1 .. MaxSqn
           /\ \A t \in Shards : t # s => spc'[t] = spc[t] /\ want'[t] = want[t]
           /\ \/ /\ want[s].kind = "discard" /\ spc'[s] = "skip"
                 /\ want'[s] = TxRecord("done", want[s].sqn)
              \/ want[s].kind = "done" /\ spc'[s] = "poll" /\ want'[s] = NoRecord
<1> USE DEF PostSkip, amiVars, evVars, actorVars
<1>1. /\ ShardInv /\ spc[s] = "skip" /\ want[s].kind \in {"discard", "done"} /\ want[s].sqn > 0
      /\ want[s] \in TxEntry /\ want \in [Shards -> TxEntry]
      /\ spc \in [Shards -> {"poll", "app", "alloc", "free", "skip"}]
  BY Types DEF TypeInv, TypeOK, FlowTypes, ShardInv, ShardOK
<1>2. want[s].sqn \in 0 .. MaxSqn /\ want[s].sqn \in 1 .. MaxSqn
  BY <1>1, TxNumbers
<1>3. PICK w \in TxEntry : w = IF want[s].kind = "discard" THEN TxRecord("done", want[s].sqn)
                                                           ELSE NoRecord
  <2>1. TxRecord("done", want[s].sqn) \in TxEntry
    BY <1>1, <1>2, TxEntries DEF Kinds
  <2> QED BY <2>1, TxEntries
<1>4. PICK pc \in {"poll", "app", "alloc", "free", "skip"} :
          pc = IF want[s].kind = "discard" THEN "skip" ELSE "poll"
  OBVIOUS
<1>5. /\ spc' \in [Shards -> {"poll", "app", "alloc", "free", "skip"}]
      /\ want' \in [Shards -> TxEntry] /\ spc'[s] = pc /\ want'[s] = w
      /\ \A t \in Shards : t # s => spc'[t] = spc[t] /\ want'[t] = want[t]
  <2>1. spc' = [spc EXCEPT ![s] = pc] /\ want' = [want EXCEPT ![s] = w]
    BY <1>1, <1>3, <1>4
  <2> QED BY <2>1, ShardMoves
<1>6. /\ tx' \in [Shards -> Seq(TxEntry)] /\ SortInv'
      /\ \A t \in Shards : Len(tx'[t]) <= TxSize'
  BY PostTxRing
<1>7. TypeOK'
  BY <1>5, <1>6 DEF TypeInv, TypeOK
<1>8. FlowTypes'
  BY <1>5, <1>6 DEF TypeInv, FlowTypes
<1>9. ShardOK(s)'
  <2>1. CASE want[s].kind = "discard"
    <3>1. w = TxRecord("done", want[s].sqn) /\ pc = "skip"
      BY <1>3, <1>4, <2>1
    <3>2. w.kind = "done" /\ w.sqn > 0
      BY <1>1, <3>1, TxEntries
    <3> QED BY <1>5, <3>1, <3>2 DEF ShardOK
  <2>2. CASE want[s].kind # "discard"
    BY <1>3, <1>4, <1>5, <2>2 DEF ShardOK
  <2> QED BY <2>1, <2>2
<1>10. ShardInv'
  BY <1>1, <1>5, <1>9, OneShard
<1>11. \/ want[s].kind = "discard" /\ spc'[s] = "skip" /\ want'[s] = TxRecord("done", want[s].sqn)
       \/ want[s].kind = "done" /\ spc'[s] = "poll" /\ want'[s] = NoRecord
  BY <1>1, <1>3, <1>4, <1>5
<1> QED BY <1>1, <1>2, <1>5, <1>6, <1>7, <1>8, <1>10, <1>11, AgentFrame DEF TypeInv

-----------------------------------------------------------------------------
(* The sort thread's steps.                                                *)

\* FreeTx: the tx ring of the shard at the head of the sort queue.
LEMMA FreeTxRing ==
    ASSUME TypeInv, sort # << >>, tx[sort[1][2]] # << >>, FreeTx, setup' = setup
    PROVE  /\ tx' = [tx EXCEPT ![sort[1][2]] = Tail(@)] /\ tx' \in [Shards -> Seq(TxEntry)]
           /\ sort[1][2] \in Shards /\ \A t \in Shards : Len(tx'[t]) <= TxSize'
<1>1. PICK s \in Shards : s = sort[1][2] /\ Head(sort) = sort[1]
  BY Types
<1>2. tx \in [Shards -> Seq(TxEntry)] /\ tx[s] # << >>
  BY <1>1 DEF TypeInv, FlowTypes
<1>3. tx' = [tx EXCEPT ![s] = Tail(@)]
  BY <1>1 DEF FreeTx
<1>4. /\ tx' \in [Shards -> Seq(TxEntry)] /\ \A t \in Shards : t # s => tx'[t] = tx[t]
      /\ Len(tx[s]) \in Nat /\ Len(tx[s]) >= 1 /\ Len(tx'[s]) = Len(tx[s]) - 1
  BY <1>2, <1>3, FreedRing
<1>5. TxSize' = TxSize /\ TxSize \in Nat
  BY PipelineAssumption DEF TypeInv, TypeOK, TxSize
<1>6. \A t \in Shards : Len(tx[t]) <= TxSize
  BY DEF TypeInv, TypeOK
<1>7. \A t \in Shards : Len(tx'[t]) <= TxSize'
  BY <1>4, <1>5, <1>6
<1> QED BY <1>1, <1>3, <1>4, <1>7

\* The record NextRecord is about.
LEMMA NextRecordIs ==
    ASSUME TypeInv, NEW kind, NextRecord(kind), NEW result
    PROVE  /\ apc = "tx" /\ sort # << >> /\ Head(sort) = sort[1] /\ sort[1] \in Job
           /\ sort[1][2] \in Shards /\ tx[sort[1][2]] # << >>
           /\ Head(tx[sort[1][2]]) = tx[sort[1][2]][1] /\ tx[sort[1][2]][1] \in TxEntry
           /\ tx[sort[1][2]][1].kind = kind
           /\ Record(result, Head(sort)[2]) = <<result, <<tx[sort[1][2]][1].sqn, sort[1][2]>>>>
           /\ Record(result, sort[1][2]) = <<result, <<tx[sort[1][2]][1].sqn, sort[1][2]>>>>
<1>1. apc = "tx" /\ sort # << >> /\ Head(sort) = sort[1] /\ sort[1] \in Job /\ sort[1][2] \in Shards
  BY Types DEF NextRecord
<1>2. /\ tx[sort[1][2]] # << >> /\ Head(tx[sort[1][2]]) = tx[sort[1][2]][1]
      /\ tx[sort[1][2]][1] \in TxEntry /\ tx[sort[1][2]][1].kind = kind
  BY <1>1, Types DEF NextRecord
<1> QED BY <1>1, <1>2 DEF Record

\* What the sort thread reports is about a job.
LEMMA ReportType ==
    ASSUME TypeInv, NEW kind, NextRecord(kind),
           NEW result \in {"out", "failed", "discard", "done"},
           tx[sort[1][2]][1].sqn > 0, log' = Append(log, Record(result, sort[1][2]))
    PROVE  log' \in Seq({"out", "failed", "discard", "done"} \X Job)
<1>1. /\ sort[1][2] \in Shards /\ tx[sort[1][2]][1] \in TxEntry
      /\ Record(result, sort[1][2]) = <<result, <<tx[sort[1][2]][1].sqn, sort[1][2]>>>>
  BY NextRecordIs
<1>2. tx[sort[1][2]][1].sqn \in 1 .. MaxSqn
  BY <1>1, TxNumbers
<1>3. PICK j \in Job : Record(result, sort[1][2]) = <<result, j>>
  BY <1>1, <1>2, Jobs
<1>4. PICK r \in {"out", "failed", "discard", "done"} \X Job : r = Record(result, sort[1][2])
  BY <1>3
<1>5. log \in Seq({"out", "failed", "discard", "done"} \X Job)
  BY DEF TypeInv, FlowTypes
<1> QED BY <1>4, <1>5, AddLast

\* A step of the sort thread that frees a record, and reports it or not.
LEMMA SortThreadType ==
    ASSUME TypeInv, sort # << >>, tx[sort[1][2]] # << >>, FreeTx,
           apc' = "tx", postTo' \in 0 .. ShardNum,
           log' \in Seq({"out", "failed", "discard", "done"} \X Job), sort' \in Seq(Job),
           rx' \in [Shards -> Seq(RxEntry)], \A t \in Shards : Len(rx'[t]) <= RxSize,
           ShardInv', rx_spinlock' \in {"free", "ami", "event", "sort"},
           UNCHANGED <<setup, amiVars, evVars, shardVars>>
    PROVE  TypeInv'
<1> USE DEF amiVars, evVars, shardVars
<1>1. tx' \in [Shards -> Seq(TxEntry)] /\ \A t \in Shards : Len(tx'[t]) <= TxSize'
  BY FreeTxRing
<1>2. TypeOK'
  BY <1>1 DEF TypeInv, TypeOK
<1>3. FlowTypes'
  BY <1>1 DEF TypeInv, FlowTypes
<1>4. SortInv'
  BY DEF SortInv
<1> QED BY <1>2, <1>3, <1>4, AgentFrame DEF TypeInv

\* What the sort thread leaves alone in all but PostTo.
LEMMA SortThreadKeeps ==
    ASSUME TypeInv, UNCHANGED <<rx, postTo, rx_spinlock, spc, want>>
    PROVE  /\ rx' \in [Shards -> Seq(RxEntry)] /\ \A t \in Shards : Len(rx'[t]) <= RxSize
           /\ ShardInv' /\ rx_spinlock' \in {"free", "ami", "event", "sort"}
           /\ postTo' \in 0 .. ShardNum /\ sort \in Seq(Job)
           /\ log \in Seq({"out", "failed", "discard", "done"} \X Job)
BY ShardFrame DEF TypeInv, TypeOK, FlowTypes

\* What leaves is about a job.
LEMMA OnShmTxMessageType ==
    ASSUME TypeInv, NEW result \in {"out", "failed"}, OnShmTxMessage(result)
    PROVE  TypeInv'
<1> USE DEF OnShmTxMessage, LogOutput
<1>1. NextRecord("out") /\ FreeTx
  OBVIOUS
<1>2. apc = "tx" /\ sort # << >> /\ Head(sort) = sort[1] /\ tx[sort[1][2]] # << >>
      /\ Head(tx[sort[1][2]]) = tx[sort[1][2]][1]
  BY <1>1, NextRecordIs
<1>3. /\ rx' \in [Shards -> Seq(RxEntry)] /\ \A t \in Shards : Len(rx'[t]) <= RxSize
      /\ ShardInv' /\ rx_spinlock' \in {"free", "ami", "event", "sort"}
      /\ postTo' \in 0 .. ShardNum /\ sort \in Seq(Job)
      /\ log \in Seq({"out", "failed", "discard", "done"} \X Job)
  BY SortThreadKeeps DEF shardVars
<1>4. log' \in Seq({"out", "failed", "discard", "done"} \X Job)
  <2>1. CASE tx[sort[1][2]][1].sqn > 0
    <3>1. log' = Append(log, Record(result, sort[1][2]))
      BY <1>2, <2>1
    <3> QED BY <1>1, <2>1, <3>1, ReportType
  <2>2. CASE ~(tx[sort[1][2]][1].sqn > 0)
    BY <1>2, <1>3, <2>2
  <2> QED BY <2>1, <2>2
<1>5. sort' = sort /\ apc' = "tx" /\ UNCHANGED <<setup, amiVars, evVars, shardVars>>
  BY <1>2
<1> HIDE DEF OnShmTxMessage, LogOutput
<1> QED BY <1>1, <1>2, <1>3, <1>4, <1>5, SortThreadType

\* A discard record is about a message, and so is its report.
LEMMA ProcessMessageDiscardType == ASSUME TypeInv, ProcessMessageDiscard PROVE TypeInv'
<1> USE DEF ProcessMessageDiscard
<1>1. NextRecord("discard") /\ FreeTx
  OBVIOUS
<1>2. apc = "tx" /\ sort # << >> /\ Head(sort) = sort[1] /\ tx[sort[1][2]] # << >>
      /\ tx[sort[1][2]][1].sqn > 0
  BY <1>1, NextRecordIs, TxNumbers
<1>3. /\ rx' \in [Shards -> Seq(RxEntry)] /\ \A t \in Shards : Len(rx'[t]) <= RxSize
      /\ ShardInv' /\ rx_spinlock' \in {"free", "ami", "event", "sort"}
      /\ postTo' \in 0 .. ShardNum /\ sort \in Seq(Job)
  BY SortThreadKeeps DEF shardVars
<1>4. log' \in Seq({"out", "failed", "discard", "done"} \X Job)
  <2>1. log' = Append(log, Record("discard", sort[1][2]))
    BY <1>2
  <2> QED BY <1>1, <1>2, <2>1, ReportType
<1>5. sort' = sort /\ apc' = "tx" /\ UNCHANGED <<setup, amiVars, evVars, shardVars>>
  BY <1>2
<1> HIDE DEF ProcessMessageDiscard
<1> QED BY <1>1, <1>2, <1>3, <1>4, <1>5, SortThreadType

\* A process-done record is about a message, and so is its report.
LEMMA ProcessMessageDoneType == ASSUME TypeInv, ProcessMessageDone PROVE TypeInv'
<1> USE DEF ProcessMessageDone
<1>1. NextRecord("done") /\ FreeTx
  OBVIOUS
<1>2. apc = "tx" /\ sort # << >> /\ Head(sort) = sort[1] /\ tx[sort[1][2]] # << >>
      /\ tx[sort[1][2]][1].sqn > 0
  BY <1>1, NextRecordIs, TxNumbers
<1>3. /\ rx' \in [Shards -> Seq(RxEntry)] /\ \A t \in Shards : Len(rx'[t]) <= RxSize
      /\ ShardInv' /\ rx_spinlock' \in {"free", "ami", "event", "sort"}
      /\ postTo' \in 0 .. ShardNum /\ sort \in Seq(Job)
  BY SortThreadKeeps DEF shardVars
<1>4. log' \in Seq({"out", "failed", "discard", "done"} \X Job)
  <2>1. log' = Append(log, Record("done", sort[1][2]))
    BY <1>2
  <2> QED BY <1>1, <1>2, <2>1, ReportType
<1>5. sort' \in Seq(Job) /\ apc' = "tx" /\ UNCHANGED <<setup, amiVars, evVars, shardVars>>
  BY <1>2, <1>3, HeadTail
<1> HIDE DEF ProcessMessageDone
<1> QED BY <1>1, <1>2, <1>3, <1>4, <1>5, SortThreadType

\* A request is freed.
LEMMA OnRequsetType == ASSUME TypeInv, OnRequset PROVE TypeInv'
<1> USE DEF OnRequset, actorVars
<1>1. NextRecord("req") /\ FreeTx
  OBVIOUS
<1>2. apc = "tx" /\ sort # << >> /\ tx[sort[1][2]] # << >>
  BY <1>1, NextRecordIs
<1>3. /\ rx' \in [Shards -> Seq(RxEntry)] /\ \A t \in Shards : Len(rx'[t]) <= RxSize
      /\ ShardInv' /\ rx_spinlock' \in {"free", "ami", "event", "sort"}
      /\ postTo' \in 0 .. ShardNum /\ sort \in Seq(Job)
      /\ log \in Seq({"out", "failed", "discard", "done"} \X Job)
  BY SortThreadKeeps DEF shardVars
<1>4. /\ sort' = sort /\ log' = log /\ apc' = "tx"
      /\ UNCHANGED <<setup, amiVars, evVars, shardVars>>
  BY <1>2
<1> HIDE DEF OnRequset
<1> QED BY <1>1, <1>2, <1>3, <1>4, SortThreadType

\* PostTo is called with the request still first in its ring.
LEMMA CallPostToType == ASSUME TypeInv, NEW s \in Shards, CallPostTo(s) PROVE TypeInv'
<1> USE DEF CallPostTo, amiVars, evVars, shardVars
<1>1. NextRecord("req")
  OBVIOUS
<1>2. sort # << >> /\ tx[sort[1][2]] # << >> /\ tx[sort[1][2]][1].kind = "req"
  BY <1>1, NextRecordIs
<1>3. postTo' \in 0 .. ShardNum
  BY PipelineAssumption DEF Shards
<1>4. TypeOK'
  BY <1>3 DEF TypeInv, TypeOK, TxSize
<1>5. FlowTypes'
  BY DEF TypeInv, FlowTypes
<1>6. SortInv'
  BY <1>2 DEF SortInv
<1> QED BY <1>4, <1>5, <1>6, AgentFrame, ShardFrame DEF TypeInv

\* PostTo takes the lock.
LEMMA LockPostType == ASSUME TypeInv, LockPost PROVE TypeInv'
<1> USE DEF LockPost, LockRx, amiVars, evVars, shardVars
<1>1. TypeOK'
  BY DEF TypeInv, TypeOK, TxSize
<1>2. FlowTypes'
  BY DEF TypeInv, FlowTypes
<1>3. SortInv'
  BY DEF TypeInv, SortInv
<1> QED BY <1>1, <1>2, <1>3, AgentFrame, ShardFrame DEF TypeInv

\* The post goes to a shard that exists, and the request is freed.
LEMMA PostResponseType ==
    ASSUME TypeInv, PostResponse
    PROVE  /\ TypeInv' /\ postTo \in Shards /\ sort # << >> /\ sort[1][2] \in Shards
           /\ tx[sort[1][2]] # << >> /\ tx[sort[1][2]][1].kind = "req"
<1> USE DEF PostResponse
<1>1. /\ postTo \in Shards /\ sort # << >> /\ sort[1][2] \in Shards
      /\ tx[sort[1][2]] # << >> /\ tx[sort[1][2]][1].kind = "req"
  BY Types DEF TypeInv, SortInv
<1>2. /\ rx' \in [Shards -> Seq(RxEntry)] /\ rx_spinlock' = "free"
      /\ \A t \in Shards : Len(rx'[t]) <= RxSize
      /\ ShardInv'
  <2>1. PICK s \in Shards : s = postTo
    BY <1>1
  <2>2. PostRx(s, ShardingPost) /\ UNCHANGED <<spc, want>> /\ ShardingPost \in RxEntry
    BY <2>1, RxEntries DEF shardVars
  <2> QED BY <2>2, PostRxType
<1>3. /\ FreeTx /\ apc' = "tx" /\ postTo' = 0 /\ sort' = sort /\ log' = log
      /\ UNCHANGED <<setup, amiVars, evVars, shardVars>>
  OBVIOUS
<1>4. /\ postTo' \in 0 .. ShardNum /\ sort' \in Seq(Job)
      /\ log' \in Seq({"out", "failed", "discard", "done"} \X Job)
  BY <1>3, PipelineAssumption DEF TypeInv, TypeOK, FlowTypes
<1> HIDE DEF PostResponse
<1> QED BY <1>1, <1>2, <1>3, <1>4, SortThreadType

-----------------------------------------------------------------------------
(* Events: each is in the rx ring of a shard until the shard has handled   *)
(* it, and WaitConsumeComplete sees every ring empty of them.              *)

EventPart == EventInv /\ RecoveryHandled

\* Steps that neither post nor handle an event.
LEMMA EventFrame ==
    ASSUME EventPart, UNCHANGED <<handled, evVars>>,
           \A s \in Shards : Count(rx'[s], {AmiEvent}) = Count(rx[s], {AmiEvent})
    PROVE  EventPart'
BY DEF EventPart, EventInv, RecoveryHandled, Posted, evVars

\* Posting an entry to a ring.
LEMMA PostRxCount ==
    ASSUME TypeInv, NEW s \in Shards, NEW e \in RxEntry, rx' = [rx EXCEPT ![s] = Append(@, e)]
    PROVE  /\ \A t \in Shards : t # s => rx'[t] = rx[t]
           /\ Count(rx'[s], {AmiEvent})
                  = Count(rx[s], {AmiEvent}) + (IF e.type = "event" THEN 1 ELSE 0)
           /\ Count(rx[s], {AmiEvent}) \in Nat
<1>1. rx \in [Shards -> Seq(RxEntry)] /\ rx[s] \in Seq(RxEntry)
  BY DEF TypeInv, FlowTypes
<1>2. rx'[s] = Append(rx[s], e) /\ \A t \in Shards : t # s => rx'[t] = rx[t]
  BY <1>1
<1>3. e \in {AmiEvent} <=> e.type = "event"
  BY RxEntries
<1>4. Count(Append(rx[s], e), {AmiEvent})
          = Count(rx[s], {AmiEvent}) + (IF e \in {AmiEvent} THEN 1 ELSE 0)
  BY <1>1, CountAppend
<1>5. Count(rx[s], {AmiEvent}) \in Nat
  BY <1>1, CountBasics
<1> QED BY <1>2, <1>3, <1>4, <1>5

\* Freeing the first entry of a ring.
LEMMA FreeRxCount ==
    ASSUME TypeInv, NEW s \in Shards, rx[s] # << >>, rx' = [rx EXCEPT ![s] = Tail(@)]
    PROVE  /\ \A t \in Shards : t # s => rx'[t] = rx[t]
           /\ Count(rx[s], {AmiEvent})
                  = Count(rx'[s], {AmiEvent}) + (IF rx[s][1].type = "event" THEN 1 ELSE 0)
           /\ Count(rx[s], {AmiEvent}) \in Nat /\ Count(rx'[s], {AmiEvent}) \in Nat
<1>1. rx \in [Shards -> Seq(RxEntry)] /\ rx[s] \in Seq(RxEntry)
  BY DEF TypeInv, FlowTypes
<1>2. rx'[s] = Tail(rx[s]) /\ \A t \in Shards : t # s => rx'[t] = rx[t]
  BY <1>1
<1>3. rx[s][1] \in RxEntry /\ Tail(rx[s]) \in Seq(RxEntry)
  BY <1>1, HeadTail
<1>4. rx[s][1] \in {AmiEvent} <=> rx[s][1].type = "event"
  BY <1>3, RxEntries
<1>5. Count(rx[s], {AmiEvent})
          = Count(Tail(rx[s]), {AmiEvent}) + (IF rx[s][1] \in {AmiEvent} THEN 1 ELSE 0)
  BY <1>1, CountTail
<1>6. Count(rx[s], {AmiEvent}) \in Nat /\ Count(Tail(rx[s]), {AmiEvent}) \in Nat
  BY <1>1, <1>3, CountBasics
<1> QED BY <1>2, <1>4, <1>5, <1>6

\* Messages and posts are not events.
LEMMA OtherPostEvent ==
    ASSUME TypeInv, EventPart, NEW s \in Shards, NEW e \in RxEntry, e.type # "event",
           rx' = [rx EXCEPT ![s] = Append(@, e)], UNCHANGED <<handled, evVars>>
    PROVE  EventPart'
<1>1. /\ \A t \in Shards : t # s => rx'[t] = rx[t]
      /\ Count(rx'[s], {AmiEvent}) = Count(rx[s], {AmiEvent}) + 0
      /\ Count(rx[s], {AmiEvent}) \in Nat
  BY PostRxCount
<1>2. \A t \in Shards : Count(rx'[t], {AmiEvent}) = Count(rx[t], {AmiEvent})
  BY ONLY <1>1
<1> QED BY <1>2, EventFrame

\* A new event is posted to no shard yet.
LEMMA CallPushEventEvent ==
    ASSUME TypeInv, EventPart, NEW recovery \in BOOLEAN, CallPushEvent(recovery)
    PROVE  EventPart'
<1> USE DEF CallPushEvent, shardVars
<1>1. pushed \in Nat /\ pushed' = pushed + 1 /\ \A s \in Shards : s >= 1
  BY Types
<1>2. ASSUME NEW s \in Shards PROVE Posted(s)' = Posted(s)
  BY <1>1 DEF Posted
<1>3. \A s \in Shards : handled'[s] + Count(rx'[s], {AmiEvent}) = Posted(s)'
  BY <1>2 DEF EventPart, EventInv
<1>4. evPc' # "complete" /\ RecoveryHandled'
  BY DEF EventPart, RecoveryHandled
<1> QED BY <1>3, <1>4 DEF EventPart, EventInv

\* The lock changes nothing for events.
LEMMA LockEventEvent == ASSUME EventPart, LockEvent PROVE EventPart'
BY DEF EventPart, EventInv, RecoveryHandled, Posted, LockEvent, shardVars

\* The event is in the ring of the shard the loop passes.
LEMMA PostEventEvent == ASSUME TypeInv, EventPart, PostEvent PROVE EventPart'
<1> USE DEF PostEvent, PostRx, shardVars
<1>1. PICK s \in Shards : s = evIndex
  BY DEF TypeInv, TypeOK
<1>2. /\ \A t \in Shards : t # s => rx'[t] = rx[t]
      /\ Count(rx'[s], {AmiEvent}) = Count(rx[s], {AmiEvent}) + 1
      /\ Count(rx[s], {AmiEvent}) \in Nat
  <2>1. rx' = [rx EXCEPT ![s] = Append(@, AmiEvent)]
    BY <1>1
  <2> QED BY <2>1, PostRxCount, RxEntries
<1>3. /\ pushed \in Nat /\ pushed' = pushed /\ evPc = "alloc" /\ evIndex = s
      /\ evIndex' = (IF s = ShardNum THEN 1 ELSE s + 1)
      /\ \A t \in Shards : handled[t] \in Nat /\ t \in Nat /\ t <= ShardNum /\ t >= 1
      /\ handled' = handled /\ ShardNum \in Nat
  BY <1>1, Types
<1>4. evPc' = IF s < ShardNum THEN "lock" ELSE IF evWaits THEN "complete" ELSE "idle"
  <2>1. s < ShardNum \/ s = ShardNum
    BY <1>1, <1>3
  <2>2. s < ShardNum => s # ShardNum
    BY <1>3
  <2>3. evWaits \in BOOLEAN
    BY DEF TypeInv, TypeOK
  <2> QED BY <1>1, <2>1, <2>2, <2>3
<1> HIDE DEF PostEvent, PostRx, shardVars
<1>5. ASSUME NEW t \in Shards PROVE Posted(t)' = IF t = s THEN Posted(t) + 1 ELSE Posted(t)
  <2>1. Posted(t) = IF t >= s THEN pushed - 1 ELSE pushed
    BY <1>3 DEF Posted
  <2>2. Posted(t)' = IF s < ShardNum /\ t >= s + 1 THEN pushed - 1 ELSE pushed
    BY <1>3, <1>4 DEF Posted
  <2> QED BY <1>3, <2>1, <2>2
<1>6. ASSUME NEW t \in Shards PROVE handled[t] + Count(rx'[t], {AmiEvent}) = Posted(t)'
  <2>1. handled[t] + Count(rx[t], {AmiEvent}) = Posted(t) /\ handled[t] \in Nat
    BY <1>3 DEF EventPart, EventInv
  <2>2. CASE t = s
    BY <1>2, <1>5, <2>1, <2>2
  <2>3. CASE t # s
    BY <1>2, <1>5, <2>1, <2>3
  <2> QED BY <2>2, <2>3
<1>7. evPc' = "complete" => \A t \in Shards : ~(t < evIndex')
  BY <1>3, <1>4
<1>8. RecoveryHandled'
  BY DEF EventPart, RecoveryHandled, PostEvent, shardVars
<1> QED BY <1>3, <1>6, <1>7, <1>8 DEF EventPart, EventInv

\* A shard whose ring is empty has handled every event; so when the loop ends, all have.
LEMMA WaitConsumeCompleteEvent ==
    ASSUME TypeInv, EventPart, WaitConsumeComplete PROVE EventPart'
<1> USE DEF WaitConsumeComplete, shardVars
<1>1. PICK s \in Shards : s = evIndex
  BY DEF TypeInv, TypeOK
<1>2. /\ pushed \in Nat /\ pushed' = pushed /\ evPc = "complete" /\ rx' = rx
      /\ \A t \in Shards : handled[t] \in Nat /\ t \in Nat /\ t <= ShardNum /\ t >= 1
      /\ handled' = handled /\ ShardNum \in Nat /\ joined \in Nat
  BY <1>1, Types
<1>3. \A t \in Shards : handled[t] + Count(rx[t], {AmiEvent}) = pushed
  BY <1>2 DEF EventPart, EventInv, Posted
<1>4. \A t \in Shards : t < s => handled[t] = pushed
  BY <1>1, <1>2 DEF EventPart, EventInv
<1>5. evPc' \in {"complete", "idle"}
  BY <1>2
<1>6. \A t \in Shards : handled'[t] + Count(rx'[t], {AmiEvent}) = Posted(t)'
  BY <1>2, <1>3, <1>5 DEF Posted
<1>7. CASE rx[s] # << >>
  <2>1. evIndex' = 1 /\ joined' = joined
    BY <1>1, <1>7
  <2>2. \A t \in Shards : ~(t < evIndex')
    BY <1>2, <2>1
  <2> QED BY <1>2, <1>6, <2>1, <2>2 DEF EventPart, EventInv, RecoveryHandled
<1>8. CASE rx[s] = << >>
  <2>1. handled[s] = pushed
    <3>1. rx[s] \in Seq(RxEntry) /\ Len(rx[s]) = 0
      BY <1>8, Types
    <3>2. \A i \in 1 .. Len(rx[s]) : rx[s][i] \notin {AmiEvent}
      BY <3>1
    <3>3. Count(rx[s], {AmiEvent}) = 0
      BY <3>1, <3>2, CountBasics
    <3>4. handled[s] + 0 = pushed /\ handled[s] \in Nat
      BY <1>2, <1>3, <3>3
    <3> QED BY ONLY <3>4
  <2>2. \A t \in Shards : t <= s => handled[t] = pushed
    BY <1>2, <1>4, <2>1
  <2>3. CASE s = ShardNum
    <3>1. evPc' = "idle" /\ joined' = pushed
      BY <1>1, <1>8, <2>3
    <3>2. \A t \in Shards : handled[t] >= pushed
      BY <1>2, <2>2, <2>3
    <3> QED BY <1>2, <1>6, <3>1, <3>2 DEF EventPart, EventInv, RecoveryHandled
  <2>4. CASE s # ShardNum
    <3>1. evIndex' = s + 1 /\ joined' = joined
      BY <1>1, <1>8, <2>4
    <3>2. \A t \in Shards : t < evIndex' => handled[t] = pushed
      BY <1>2, <2>2, <3>1
    <3> QED BY <1>2, <1>6, <3>1, <3>2 DEF EventPart, EventInv, RecoveryHandled
  <2> QED BY <2>3, <2>4
<1> QED BY <1>7, <1>8

\* An event that leaves the ring is handled.
LEMMA FreeEntryEvent ==
    ASSUME TypeInv, EventPart, NEW s \in Shards, FreeEntry(s) PROVE EventPart'
<1>1. rx[s] # << >> /\ Head(rx[s]) = rx[s][1]
  BY FreeEntryType
<1>2. /\ rx' = [rx EXCEPT ![s] = Tail(@)] /\ UNCHANGED evVars
      /\ handled' = [handled EXCEPT ![s] = IF rx[s][1].type = "event" THEN @ + 1 ELSE @]
  BY <1>1 DEF FreeEntry
<1>3. /\ \A t \in Shards : t # s => rx'[t] = rx[t]
      /\ Count(rx[s], {AmiEvent})
             = Count(rx'[s], {AmiEvent}) + (IF rx[s][1].type = "event" THEN 1 ELSE 0)
      /\ Count(rx[s], {AmiEvent}) \in Nat /\ Count(rx'[s], {AmiEvent}) \in Nat
  BY <1>1, <1>2, FreeRxCount
<1>4. /\ handled \in [Shards -> Nat] /\ joined \in Nat /\ \A t \in Shards : handled[t] \in Nat
  BY Types DEF TypeInv, FlowTypes
<1>5. /\ handled'[s] = handled[s] + (IF rx[s][1].type = "event" THEN 1 ELSE 0)
      /\ \A t \in Shards : t # s => handled'[t] = handled[t]
  BY <1>2, <1>4
<1>6. ASSUME NEW t \in Shards
      PROVE  /\ handled'[t] + Count(rx'[t], {AmiEvent}) = handled[t] + Count(rx[t], {AmiEvent})
             /\ handled'[t] >= handled[t]
  <2>1. CASE t = s
    BY <1>3, <1>4, <1>5, <2>1
  <2>2. CASE t # s
    BY <1>3, <1>4, <1>5, <2>2
  <2> QED BY <2>1, <2>2
<1>7. /\ \A t \in Shards : Posted(t)' = Posted(t)
      /\ UNCHANGED <<evPc, evIndex, pushed, joined>>
  BY <1>2 DEF Posted, evVars
<1>8. ASSUME NEW t \in Shards, handled[t] = pushed, evPc = "complete" PROVE handled'[t] = pushed
  <2>1. handled[t] + Count(rx[t], {AmiEvent}) = pushed
    BY <1>8 DEF EventPart, EventInv, Posted
  <2>2. rx[t] \in Seq(RxEntry) /\ rx'[t] \in Seq(RxEntry) /\ pushed \in Nat
    BY FreeEntryType, Types DEF TypeInv, FlowTypes
  <2>3. Count(rx[t], {AmiEvent}) \in Nat /\ Count(rx'[t], {AmiEvent}) \in Nat
    BY <2>2, CountBasics
  <2>4. /\ handled'[t] + Count(rx'[t], {AmiEvent}) = handled[t] + Count(rx[t], {AmiEvent})
        /\ handled'[t] >= handled[t]
    BY <1>6
  <2>5. handled'[t] \in Nat
    <3>1. CASE t = s
      BY <1>4, <1>5, <3>1
    <3>2. CASE t # s
      BY <1>4, <1>5, <3>2
    <3> QED BY <3>1, <3>2
  <2> QED BY <1>4, <1>8, <2>1, <2>2, <2>3, <2>4, <2>5
<1>9. RecoveryHandled'
  BY <1>4, <1>5, <1>6, <1>7 DEF EventPart, RecoveryHandled
<1>10. EventInv'
  BY <1>6, <1>7, <1>8 DEF EventPart, EventInv
<1> QED BY <1>9, <1>10 DEF EventPart

\* OnTrialError skips a message, never an event.
LEMMA SkipMessageEvent ==
    ASSUME TypeInv, EventPart, NEW s \in Shards, SkipMessage(s) PROVE EventPart'
<1>1. rx[s] # << >> /\ rx[s][1].type = "msg"
  BY SkipMessageType
<1>2. rx' = [rx EXCEPT ![s] = Tail(@)] /\ UNCHANGED <<handled, evVars>>
  BY DEF SkipMessage
<1>3. /\ \A t \in Shards : t # s => rx'[t] = rx[t]
      /\ Count(rx[s], {AmiEvent}) = Count(rx'[s], {AmiEvent}) + 0
      /\ Count(rx'[s], {AmiEvent}) \in Nat
  BY <1>1, <1>2, FreeRxCount
<1>4. \A t \in Shards : Count(rx'[t], {AmiEvent}) = Count(rx[t], {AmiEvent})
  BY ONLY <1>3
<1> QED BY <1>2, <1>4, EventFrame

-----------------------------------------------------------------------------
(* The way of the messages.                                                *)

\* What a step leaves of shard t's messages that are still to be done.
Calm(t) ==
    /\ rx'[t] = rx[t] /\ \A n : InJobs(t, n) => InJobs(t, n)'
    /\ Sending(t)' <=> Sending(t)
    /\ Sending(t) => next' = next
    /\ spc'[t] = "skip" <=> spc[t] = "skip"
    /\ spc[t] = "skip" => want'[t].sqn = want[t].sqn
    /\ \/ spc'[t] = "free" <=> spc[t] = "free"
       \/ rx[t][1].type # "msg"

\* A calm shard's messages stay in order, and open as they were.
LEMMA CalmShard ==
    ASSUME RxOrder, NEW t \in Shards, Calm(t)
    PROVE  RxOK(t)' /\ \A n : Open(t, n)' <=> Open(t, n)
<1>1. RxOK(t)
  BY DEF RxOrder
<1>2. RxOK(t)'
  BY <1>1 DEF RxOK, Calm
<1>3. ASSUME NEW n PROVE Open(t, n)' <=> Open(t, n)
  BY DEF Open, Calm
<1> QED BY <1>2, <1>3

\* The tx rings and the sort queue stay, and so does what is open.
LEMMA FlowFrame ==
    ASSUME TxOrder, PresentInv, UNCHANGED <<tx, sort>>,
           \A t \in Shards : \A n \in 1 .. MaxSqn : Open(t, n)' <=> Open(t, n)
    PROVE  TxOrder' /\ PresentInv'
<1>1. TxOrder'
  BY DEF TxOrder
<1>2. PresentInv'
  BY DEF PresentInv, InSort, Written
<1> QED BY <1>1, <1>2

\* A step that leaves the jobs and the message thread.
LEMMA JobsFrame ==
    ASSUME JobsInv, UNCHANGED <<sort, jobs, next, amiPc, amiTodo>> PROVE JobsInv'
BY DEF JobsInv

\* A step that leaves the queues and all the shards' messages.
LEMMA CalmStep ==
    ASSUME FlowInv, JobsInv', UNCHANGED <<tx, sort>>, \A t \in Shards : Calm(t)
    PROVE  FlowInv'
<1>1. RxOrder' /\ \A t \in Shards : \A n : Open(t, n)' <=> Open(t, n)
  BY CalmShard DEF FlowInv, RxOrder
<1>2. TxOrder' /\ PresentInv'
  BY <1>1, FlowFrame DEF FlowInv
<1> QED BY <1>1, <1>2 DEF FlowInv

\* Numbers of jobs.
LEMMA JobNumbers ==
    ASSUME TypeInv, JobsInv, NEW s \in Shards, NEW n
    PROVE  /\ InSort(s, n) => InJobs(s, n)
           /\ InJobs(s, n) => n \in 1 .. MaxSqn /\ n < next
           /\ InJobs(s, n) /\ amiPc = "push" /\ amiTodo # << >> /\ amiTodo[1] = s => n # next - 1
<1>1. sort \in Seq(Job) /\ jobs \in Seq(Job) /\ amiTodo \in Seq(Shards)
  BY DEF TypeInv, TypeOK
<1>2. Len(sort) \in Nat /\ Len(jobs) \in Nat /\ Len(sort) <= Len(jobs)
  BY <1>1 DEF JobsInv
<1>3. ASSUME InSort(s, n) PROVE InJobs(s, n)
  <2>1. PICK k \in 1 .. Len(sort) : sort[k] = <<n, s>>
    BY <1>3 DEF InSort
  <2>2. Len(jobs) - Len(sort) + k \in 1 .. Len(jobs)
    BY <1>2
  <2>3. jobs[Len(jobs) - Len(sort) + k] = <<n, s>>
    BY <2>1 DEF JobsInv
  <2> QED BY <2>2, <2>3 DEF InJobs
<1>4. ASSUME InJobs(s, n) PROVE n \in 1 .. MaxSqn /\ n < next
  <2>1. PICK k \in 1 .. Len(jobs) : jobs[k] = <<n, s>>
    BY <1>4 DEF InJobs
  <2>2. jobs[k] \in Job
    BY <1>1
  <2>3. jobs[k][1] < next
    BY DEF JobsInv
  <2>4. jobs[k][1] \in 1 .. MaxSqn /\ jobs[k][1] = n
    BY <2>1, <2>2, Jobs
  <2> QED BY <2>3, <2>4
<1>5. ASSUME InJobs(s, n), amiPc = "push", amiTodo # << >>, amiTodo[1] = s PROVE n # next - 1
  <2>1. PICK k \in 1 .. Len(jobs) : jobs[k] = <<n, s>>
    BY <1>5 DEF InJobs
  <2>2. 1 \in 1 .. Len(amiTodo)
    BY <1>1, <1>5, HeadTail
  <2>3. jobs[k] # <<next - 1, amiTodo[1]>>
    BY <1>5, <2>2 DEF JobsInv
  <2> QED BY <1>5, <2>1, <2>3
<1> QED BY <1>3, <1>4, <1>5

\* A record is posted to a tx ring; a process-done record closes its message.
LEMMA TxPosted ==
    ASSUME TypeInv, TxOrder, PresentInv, NEW s \in Shards, NEW r \in TxEntry,
           tx' = [tx EXCEPT ![s] = Append(@, r)], sort' = sort,
           r.sqn > 0 => Open(s, r.sqn) /\ \A n \in 1 .. MaxSqn : Open(s, n) => r.sqn <= n,
           \A t \in Shards : \A n \in 1 .. MaxSqn :
               Open(t, n)' <=> Open(t, n) /\ ~(t = s /\ r.kind = "done" /\ n = r.sqn)
    PROVE  TxOrder' /\ PresentInv'
<1>1. tx \in [Shards -> Seq(TxEntry)]
  BY DEF TypeInv, FlowTypes
<1>2. /\ tx' \in [Shards -> Seq(TxEntry)] /\ \A t \in Shards : t # s => tx'[t] = tx[t]
      /\ Len(tx[s]) \in Nat /\ Len(tx'[s]) = Len(tx[s]) + 1 /\ tx'[s][Len(tx[s]) + 1] = r
      /\ \A i \in 1 .. Len(tx[s]) : tx'[s][i] = tx[s][i]
  BY <1>1, PostedRing
<1>3. PICK m \in Nat : m = Len(tx[s])
  BY <1>2
<1>4. r.sqn \in Nat /\ (r.sqn > 0 => r.sqn \in 1 .. MaxSqn)
  BY TxNumbers
<1>5. \A i \in 1 .. m + 1 : i \in 1 .. m \/ i = m + 1
  BY <1>3
<1>6. TxOrder'
  <2>1. SUFFICES ASSUME NEW t \in Shards, NEW i \in 1 .. Len(tx'[t]), tx'[t][i].sqn > 0
                 PROVE  /\ \A j \in 1 .. Len(tx'[t]) : i < j /\ tx'[t][j].sqn > 0 =>
                               /\ tx'[t][i].sqn <= tx'[t][j].sqn
                               /\ tx'[t][i].kind = "done" => tx'[t][i].sqn # tx'[t][j].sqn
                        /\ \A n \in 1 .. MaxSqn : Open(t, n)' =>
                               /\ tx'[t][i].sqn <= n
                               /\ tx'[t][i].kind = "done" => tx'[t][i].sqn # n
    BY DEF TxOrder
  <2>2. CASE t # s
    BY <1>2, <2>1, <2>2 DEF TxOrder
  <2>3. CASE t = s /\ i \in 1 .. m
    <3>1. tx'[s][i] = tx[s][i] /\ tx[s][i].sqn > 0 /\ i \in 1 .. Len(tx[s])
      BY <1>2, <1>3, <2>1, <2>3
    <3>2. ASSUME NEW j \in 1 .. m + 1, i < j, tx'[s][j].sqn > 0
          PROVE  /\ tx[s][i].sqn <= tx'[s][j].sqn
                 /\ tx[s][i].kind = "done" => tx[s][i].sqn # tx'[s][j].sqn
      <4>1. CASE j \in 1 .. m
        BY <1>2, <1>3, <3>1, <3>2, <4>1 DEF TxOrder
      <4>2. CASE j = m + 1
        BY <1>2, <1>3, <1>4, <3>1, <3>2, <4>2 DEF TxOrder
      <4> QED BY <1>5, <4>1, <4>2
    <3>3. ASSUME NEW n \in 1 .. MaxSqn, Open(s, n)'
          PROVE  /\ tx[s][i].sqn <= n
                 /\ tx[s][i].kind = "done" => tx[s][i].sqn # n
      BY <3>1, <3>3 DEF TxOrder
    <3> QED BY <1>2, <1>3, <2>3, <3>1, <3>2, <3>3
  <2>4. CASE t = s /\ i = m + 1
    <3>1. tx'[s][i] = r /\ r.sqn > 0
      BY <1>2, <1>3, <2>1, <2>4
    <3>2. ASSUME NEW j \in 1 .. m + 1 PROVE ~(i < j)
      BY <1>3, <2>4
    <3>3. ASSUME NEW n \in 1 .. MaxSqn, Open(s, n)'
          PROVE  r.sqn <= n /\ (r.kind = "done" => r.sqn # n)
      BY <3>1, <3>3
    <3> QED BY <1>2, <1>3, <2>4, <3>1, <3>2, <3>3
  <2>5. t = s => i \in 1 .. m \/ i = m + 1
    BY <1>2, <1>3, <1>5
  <2> QED BY <2>2, <2>3, <2>4, <2>5
<1>7. \A t, n : InSort(t, n)' <=> InSort(t, n)
  BY DEF InSort
<1>8. \A t \in Shards : \A n : Written(t, n) => Written(t, n)'
  <2>1. ASSUME NEW t \in Shards, NEW n, Written(t, n) PROVE Written(t, n)'
    <3>1. PICK i \in 1 .. Len(tx[t]) : tx[t][i].kind = "done" /\ tx[t][i].sqn = n
      BY <2>1 DEF Written
    <3>2. i \in 1 .. Len(tx'[t]) /\ tx'[t][i] = tx[t][i]
      BY <1>2
    <3> QED BY <3>1, <3>2 DEF Written
  <2> QED BY <2>1
<1>9. r.kind = "done" => Written(s, r.sqn)'
  <2>1. Len(tx[s]) + 1 \in 1 .. Len(tx'[s])
    BY <1>2
  <2> QED BY <1>2, <2>1 DEF Written
<1>10. ASSUME NEW t \in Shards, NEW n \in 1 .. MaxSqn
       PROVE  /\ InSort(t, n)' => Open(t, n)' \/ Written(t, n)'
              /\ Open(t, n)' => InSort(t, n)'
  BY <1>7, <1>8, <1>9 DEF PresentInv
<1>11. ASSUME NEW t \in Shards, NEW i \in 1 .. Len(tx'[t]), NEW n, n = tx'[t][i].sqn, n > 0
       PROVE  InSort(t, n)'
  <2>2. CASE t # s \/ i \in 1 .. m
    <3>1. tx'[t][i] = tx[t][i] /\ i \in 1 .. Len(tx[t])
      BY <1>2, <1>3, <2>2
    <3>2. InSort(t, n)
      BY <1>11, <3>1 DEF PresentInv
    <3> QED BY <1>7, <3>2
  <2>3. CASE t = s /\ i = m + 1
    <3>1. n = r.sqn /\ n > 0
      BY <1>2, <1>3, <1>11, <2>3
    <3>2. InSort(t, n)
      BY <1>4, <2>3, <3>1 DEF PresentInv
    <3> QED BY <1>7, <3>2
  <2> QED BY <1>2, <1>3, <1>5, <2>2, <2>3
<1>12. PresentInv'
  <2>1. \A t \in Shards : \A i \in 1 .. Len(tx'[t]) :
            tx'[t][i].sqn > 0 => \E k \in 1 .. Len(sort') : sort'[k] = <<tx'[t][i].sqn, t>>
    BY <1>11 DEF InSort
  <2> QED BY <1>10, <2>1 DEF PresentInv, InSort
<1> QED BY <1>6, <1>12

\* The first record of the ring the sort thread reads, if it is about a message, is
\* about the one at the head of the sort queue.
LEMMA HeadIsNext ==
    ASSUME TypeInv, FlowInv, NEW s \in Shards, sort # << >>, s = sort[1][2], tx[s] # << >>,
           tx[s][1].sqn > 0
    PROVE  sort[1] = <<tx[s][1].sqn, s>>
<1>1. /\ sort \in Seq(Job) /\ jobs \in Seq(Job) /\ tx[s] \in Seq(TxEntry)
      /\ Len(sort) \in Nat /\ Len(jobs) \in Nat /\ Len(sort) <= Len(jobs)
  BY Types DEF TypeInv, TypeOK, FlowInv, JobsInv
<1>2. PICK m : m = tx[s][1].sqn
  OBVIOUS
<1>3. PICK n : n = sort[1][1]
  OBVIOUS
<1>4. /\ sort[1] = <<n, s>> /\ n \in 1 .. MaxSqn /\ Len(sort) >= 1 /\ Len(tx[s]) >= 1
      /\ Len(tx[s]) \in Nat
  BY <1>1, <1>3, Types, Jobs, HeadTail
<1>5. m \in 1 .. MaxSqn /\ m > 0
  BY <1>2, Types, TxNumbers
<1>6. 1 \in 1 .. Len(tx[s]) /\ 1 \in 1 .. Len(sort)
  BY <1>1, <1>4
<1>7. InSort(s, m) /\ InSort(s, n)
  <2>1. InSort(s, m)
    BY <1>2, <1>5, <1>6 DEF FlowInv, PresentInv
  <2> QED BY <1>4, <1>6, <2>1 DEF InSort
<1>8. PICK k \in 1 .. Len(sort) : sort[k] = <<m, s>>
  BY <1>7 DEF InSort
<1>9. CASE k = 1
  BY <1>2, <1>8, <1>9
<1>10. CASE k > 1
  <2>1. n < m
    <3>1. PICK a \in 1 .. Len(jobs), b \in 1 .. Len(jobs) :
              a < b /\ jobs[a] = <<n, s>> /\ jobs[b] = <<m, s>>
      <4>1. /\ Len(jobs) - Len(sort) + 1 \in 1 .. Len(jobs)
            /\ Len(jobs) - Len(sort) + k \in 1 .. Len(jobs)
            /\ Len(jobs) - Len(sort) + 1 < Len(jobs) - Len(sort) + k
        BY <1>1, <1>4, <1>10
      <4>2. /\ jobs[Len(jobs) - Len(sort) + 1] = sort[1]
            /\ jobs[Len(jobs) - Len(sort) + k] = sort[k]
        BY <1>6 DEF FlowInv, JobsInv
      <4> QED BY <1>4, <1>8, <4>1, <4>2
    <3>2. jobs[a][1] <= jobs[b][1] /\ jobs[a] # jobs[b]
      BY <3>1 DEF FlowInv, JobsInv
    <3>3. n <= m /\ n # m
      BY <3>1, <3>2
    <3> QED BY <1>4, <1>5, <3>3
  <2>2. Open(s, n) \/ Written(s, n)
    BY <1>4, <1>7 DEF FlowInv, PresentInv
  <2>3. CASE Open(s, n)
    <3>1. m <= n
      BY <1>2, <1>4, <1>5, <1>6, <2>3 DEF FlowInv, TxOrder
    <3> QED BY <1>4, <1>5, <2>1, <3>1
  <2>4. CASE Written(s, n)
    <3>1. PICK i \in 1 .. Len(tx[s]) : tx[s][i].sqn = n
      BY <2>4 DEF Written
    <3>2. i # 1
      BY <1>2, <1>4, <1>5, <2>1, <3>1
    <3>3. 1 < i /\ tx[s][i].sqn > 0
      BY <1>4, <3>1, <3>2
    <3>4. m <= n
      BY <1>2, <1>5, <1>6, <3>1, <3>3 DEF FlowInv, TxOrder
    <3> QED BY <1>4, <1>5, <2>1, <3>4
  <2> QED BY <2>2, <2>3, <2>4
<1>11. k = 1 \/ k > 1
  BY <1>1
<1> QED BY <1>9, <1>10, <1>11

\* The first record of a ring is freed: the order of the others.
LEMMA TxFreedOrder ==
    ASSUME TypeInv, TxOrder, NEW s \in Shards, tx[s] # << >>, tx' = [tx EXCEPT ![s] = Tail(@)],
           \A t \in Shards : \A n \in 1 .. MaxSqn : Open(t, n)' <=> Open(t, n)
    PROVE  TxOrder'
<1>1. tx \in [Shards -> Seq(TxEntry)]
  BY DEF TypeInv, FlowTypes
<1>2. /\ \A t \in Shards : t # s => tx'[t] = tx[t]
      /\ Len(tx[s]) \in Nat /\ Len(tx[s]) >= 1 /\ Len(tx'[s]) = Len(tx[s]) - 1
      /\ \A i \in 1 .. Len(tx[s]) - 1 : tx'[s][i] = tx[s][i + 1]
  BY <1>1, FreedRing
<1>3. SUFFICES ASSUME NEW t \in Shards, NEW i \in 1 .. Len(tx'[t]), tx'[t][i].sqn > 0
               PROVE  /\ \A j \in 1 .. Len(tx'[t]) : i < j /\ tx'[t][j].sqn > 0 =>
                             /\ tx'[t][i].sqn <= tx'[t][j].sqn
                             /\ tx'[t][i].kind = "done" => tx'[t][i].sqn # tx'[t][j].sqn
                      /\ \A n \in 1 .. MaxSqn : Open(t, n)' =>
                             /\ tx'[t][i].sqn <= n
                             /\ tx'[t][i].kind = "done" => tx'[t][i].sqn # n
  BY DEF TxOrder
<1>4. CASE t # s
  BY <1>2, <1>3, <1>4 DEF TxOrder
<1>5. CASE t = s
  <2>1. i + 1 \in 1 .. Len(tx[s]) /\ tx'[s][i] = tx[s][i + 1] /\ tx[s][i + 1].sqn > 0
    BY <1>2, <1>3, <1>5
  <2>2. ASSUME NEW j \in 1 .. Len(tx'[s]), i < j, tx'[s][j].sqn > 0
        PROVE  /\ tx[s][i + 1].sqn <= tx'[s][j].sqn
               /\ tx[s][i + 1].kind = "done" => tx[s][i + 1].sqn # tx'[s][j].sqn
    <3>1. j + 1 \in 1 .. Len(tx[s]) /\ i + 1 < j + 1 /\ tx'[s][j] = tx[s][j + 1]
      BY <1>2, <1>5, <2>2
    <3> QED BY <2>1, <2>2, <3>1 DEF TxOrder
  <2>3. ASSUME NEW n \in 1 .. MaxSqn, Open(s, n)'
        PROVE  /\ tx[s][i + 1].sqn <= n
               /\ tx[s][i + 1].kind = "done" => tx[s][i + 1].sqn # n
    BY <2>1, <2>3 DEF TxOrder
  <2> QED BY <1>5, <2>1, <2>2, <2>3
<1> QED BY <1>4, <1>5

\* What was written and is not the first record stays; a record that is left was there.
LEMMA TxFreedRecords ==
    ASSUME TypeInv, NEW s \in Shards, tx[s] # << >>, tx' = [tx EXCEPT ![s] = Tail(@)]
    PROVE  /\ \A t \in Shards : \A n : Written(t, n) =>
                  \/ Written(t, n)'
                  \/ t = s /\ tx[s][1].kind = "done" /\ tx[s][1].sqn = n
           /\ \A t \in Shards : \A i \in 1 .. Len(tx'[t]) : \E j \in 1 .. Len(tx[t]) :
                  tx'[t][i] = tx[t][j] /\ (t = s => j > 1)
<1>1. tx \in [Shards -> Seq(TxEntry)]
  BY DEF TypeInv, FlowTypes
<1>2. /\ \A t \in Shards : t # s => tx'[t] = tx[t]
      /\ Len(tx[s]) \in Nat /\ Len(tx[s]) >= 1 /\ Len(tx'[s]) = Len(tx[s]) - 1
      /\ \A i \in 1 .. Len(tx[s]) - 1 : tx'[s][i] = tx[s][i + 1]
  BY <1>1, FreedRing
<1>3. ASSUME NEW t \in Shards, NEW n, Written(t, n),
             ~(t = s /\ tx[s][1].kind = "done" /\ tx[s][1].sqn = n)
      PROVE  Written(t, n)'
  <2>1. PICK i \in 1 .. Len(tx[t]) : tx[t][i].kind = "done" /\ tx[t][i].sqn = n
    BY <1>3 DEF Written
  <2>2. CASE t # s
    BY <1>2, <2>1, <2>2 DEF Written
  <2>3. CASE t = s
    <3>1. i # 1
      BY <1>3, <2>1, <2>3
    <3>2. i - 1 \in 1 .. Len(tx[s]) - 1 /\ (i - 1) + 1 = i
      BY <1>2, <2>3, <3>1
    <3>3. i - 1 \in 1 .. Len(tx'[s]) /\ tx'[s][i - 1] = tx[s][i]
      BY <1>2, <3>2
    <3> QED BY <2>1, <2>3, <3>3 DEF Written
  <2> QED BY <2>2, <2>3
<1>4. ASSUME NEW t \in Shards, NEW i \in 1 .. Len(tx'[t])
      PROVE  \E j \in 1 .. Len(tx[t]) : tx'[t][i] = tx[t][j] /\ (t = s => j > 1)
  <2>1. CASE t # s
    BY <1>2, <2>1
  <2>2. CASE t = s
    <3>1. i + 1 \in 1 .. Len(tx[s]) /\ i + 1 > 1 /\ tx'[s][i] = tx[s][i + 1]
      BY <1>2, <2>2
    <3> QED BY <2>2, <3>1
  <2> QED BY <2>1, <2>2
<1> QED BY <1>3, <1>4

\* A record that is not process-done is freed.
LEMMA TxFreed ==
    ASSUME TypeInv, TxOrder, PresentInv, NEW s \in Shards, tx[s] # << >>, tx[s][1].kind # "done",
           tx' = [tx EXCEPT ![s] = Tail(@)], sort' = sort,
           \A t \in Shards : \A n \in 1 .. MaxSqn : Open(t, n)' <=> Open(t, n)
    PROVE  TxOrder' /\ PresentInv'
<1>1. TxOrder'
  BY TxFreedOrder
<1>2. \A t, n : InSort(t, n)' <=> InSort(t, n)
  BY DEF InSort
<1>3. \A t \in Shards : \A n : Written(t, n) => Written(t, n)'
  BY TxFreedRecords
<1>4. \A t \in Shards : \A i \in 1 .. Len(tx'[t]) : \E j \in 1 .. Len(tx[t]) : tx'[t][i] = tx[t][j]
  BY TxFreedRecords
<1>5. \A t \in Shards : \A n \in 1 .. MaxSqn :
          /\ InSort(t, n)' => Open(t, n)' \/ Written(t, n)'
          /\ Open(t, n)' => InSort(t, n)'
  BY <1>2, <1>3 DEF PresentInv
<1>6. ASSUME NEW t \in Shards, NEW i \in 1 .. Len(tx'[t]), tx'[t][i].sqn > 0
      PROVE  \E k \in 1 .. Len(sort') : sort'[k] = <<tx'[t][i].sqn, t>>
  <2>1. PICK j \in 1 .. Len(tx[t]) : tx'[t][i] = tx[t][j]
    BY <1>4
  <2>2. InSort(t, tx[t][j].sqn)
    BY <1>6, <2>1 DEF PresentInv
  <2> QED BY <2>1, <2>2 DEF InSort
<1> QED BY <1>1, <1>5, <1>6 DEF PresentInv, InSort

\* The process-done record of the message at the head of the sort queue is freed, and
\* the queue's element with it.
LEMMA TxFinished ==
    ASSUME TypeInv, FlowInv, NEW s \in Shards, sort # << >>, s = sort[1][2], tx[s] # << >>,
           tx[s][1].kind = "done", tx' = [tx EXCEPT ![s] = Tail(@)], sort' = Tail(sort), jobs' = jobs,
           \A t \in Shards : \A n \in 1 .. MaxSqn : Open(t, n)' <=> Open(t, n)
    PROVE  TxOrder' /\ PresentInv'
<1>1. TxOrder'
  BY TxFreedOrder DEF FlowInv
<1>2. PICK m : m = tx[s][1].sqn
  OBVIOUS
<1>3. m \in 1 .. MaxSqn /\ m > 0 /\ tx[s] \in Seq(TxEntry) /\ sort \in Seq(Job)
  BY <1>2, Types, TxNumbers DEF TypeInv, TypeOK
<1>4. sort[1] = <<m, s>>
  BY <1>2, <1>3, HeadIsNext
<1>5. /\ Len(sort) \in Nat /\ Len(sort) >= 1 /\ Len(sort') = Len(sort) - 1
      /\ \A k \in 1 .. Len(sort) - 1 : sort'[k] = sort[k + 1]
  BY <1>3, HeadTail
<1>6. 1 \in 1 .. Len(tx[s])
  BY <1>3, HeadTail
<1>7. \A k \in 1 .. Len(sort) : sort[k] = <<m, s>> => k = 1
  <2>1. /\ Len(jobs) \in Nat /\ Len(sort) <= Len(jobs)
        /\ \A k \in 1 .. Len(sort) : sort[k] = jobs[Len(jobs) - Len(sort) + k]
        /\ \A i, j \in 1 .. Len(jobs) : i < j => jobs[i] # jobs[j]
    BY DEF FlowInv, JobsInv, TypeInv, TypeOK
  <2>2. ASSUME NEW k \in 1 .. Len(sort), sort[k] = sort[1], k # 1 PROVE FALSE
    <3>1. /\ Len(jobs) - Len(sort) + 1 \in 1 .. Len(jobs)
          /\ Len(jobs) - Len(sort) + k \in 1 .. Len(jobs)
          /\ Len(jobs) - Len(sort) + 1 < Len(jobs) - Len(sort) + k
      BY <1>5, <2>1, <2>2
    <3>2. 1 \in 1 .. Len(sort)
      BY <1>5
    <3>3. sort[1] = jobs[Len(jobs) - Len(sort) + 1] /\ sort[k] = jobs[Len(jobs) - Len(sort) + k]
      BY <2>1, <3>2
    <3> QED BY <2>1, <2>2, <3>1, <3>3
  <2> QED BY <1>4, <2>2
<1>8. ASSUME NEW t \in Shards, NEW n PROVE InSort(t, n)' <=> InSort(t, n) /\ ~(t = s /\ n = m)
  <2>1. ASSUME InSort(t, n)' PROVE InSort(t, n) /\ ~(t = s /\ n = m)
    <3>1. PICK k \in 1 .. Len(sort') : sort'[k] = <<n, t>>
      BY <2>1 DEF InSort
    <3>2. k + 1 \in 1 .. Len(sort) /\ k + 1 # 1 /\ sort[k + 1] = <<n, t>>
      BY <1>5, <3>1
    <3> QED BY <1>7, <3>2 DEF InSort
  <2>2. ASSUME InSort(t, n), ~(t = s /\ n = m) PROVE InSort(t, n)'
    <3>1. PICK k \in 1 .. Len(sort) : sort[k] = <<n, t>>
      BY <2>2 DEF InSort
    <3>2. k # 1
      <4>1. ASSUME k = 1 PROVE <<n, t>> = <<m, s>>
        BY <1>4, <3>1, <4>1
      <4>2. <<n, t>> = <<m, s>> => n = m /\ t = s
        OBVIOUS
      <4> QED BY <2>2, <4>1, <4>2
    <3>3. k - 1 \in 1 .. Len(sort') /\ k - 1 \in 1 .. Len(sort) - 1 /\ (k - 1) + 1 = k
      BY <1>5, <3>2
    <3>4. sort'[k - 1] = <<n, t>>
      BY <1>5, <3>1, <3>3
    <3> QED BY <3>3, <3>4 DEF InSort
  <2> QED BY <2>1, <2>2
<1>records. /\ \A t \in Shards : \A n : Written(t, n) =>
                   \/ Written(t, n)'
                   \/ t = s /\ tx[s][1].kind = "done" /\ tx[s][1].sqn = n
            /\ \A t \in Shards : \A i \in 1 .. Len(tx'[t]) : \E j \in 1 .. Len(tx[t]) :
                   tx'[t][i] = tx[t][j] /\ (t = s => j > 1)
  BY TxFreedRecords, Zenon
<1>9. ~Open(s, m)
  BY <1>2, <1>3, <1>6 DEF FlowInv, TxOrder
<1>10. ASSUME NEW t \in Shards, NEW n \in 1 .. MaxSqn
       PROVE  /\ InSort(t, n)' => Open(t, n)' \/ Written(t, n)'
              /\ Open(t, n)' => InSort(t, n)'
  <2>1. Written(t, n) => Written(t, n)' \/ (t = s /\ n = m)
    BY <1>2, <1>records
  <2>2. InSort(t, n) => Open(t, n) \/ Written(t, n)
    BY DEF FlowInv, PresentInv
  <2>3. Open(t, n) => InSort(t, n)
    BY DEF FlowInv, PresentInv
  <2> QED BY <1>8, <1>9, <2>1, <2>2, <2>3
<1>11. ASSUME NEW t \in Shards, NEW i \in 1 .. Len(tx'[t]), NEW n, n = tx'[t][i].sqn, n > 0
       PROVE  InSort(t, n)'
  <2>1. PICK j \in 1 .. Len(tx[t]) : tx'[t][i] = tx[t][j] /\ (t = s => j > 1)
    BY <1>records
  <2>2. InSort(t, n)
    BY <1>11, <2>1 DEF FlowInv, PresentInv
  <2>3. t = s => n # m
    BY <1>2, <1>3, <1>6, <1>11, <2>1 DEF FlowInv, TxOrder
  <2> QED BY <1>8, <2>2, <2>3
<1>12. \A t \in Shards : \A i \in 1 .. Len(tx'[t]) :
           tx'[t][i].sqn > 0 => \E k \in 1 .. Len(sort') : sort'[k] = <<tx'[t][i].sqn, t>>
  BY <1>11 DEF InSort
<1> QED BY <1>1, <1>10, <1>12 DEF PresentInv, InSort

\* Steps that touch neither the rings nor the way of a message.
LEMMA QuietFlow ==
    ASSUME FlowInv, UNCHANGED <<rx, tx, sort, amiVars, spc, want>>
    PROVE  FlowInv'
<1> USE DEF amiVars
<1>1. JobsInv'
  BY JobsFrame DEF FlowInv
<1>2. \A t \in Shards : Calm(t)
  BY DEF Calm, Sending, InJobs
<1> QED BY <1>1, <1>2, CalmStep

\* A shard's step that leaves the rings.
LEMMA ShardQuietFlow ==
    ASSUME FlowInv, UNCHANGED <<rx, tx, sort, amiVars>>, NEW s \in Shards,
           spc[s] # "skip" /\ spc'[s] # "skip", spc[s] # "free",
           spc'[s] # "free" \/ rx[s][1].type # "msg",
           \A t \in Shards : t # s => spc'[t] = spc[t] /\ want'[t] = want[t]
    PROVE  FlowInv'
<1> USE DEF amiVars
<1>1. JobsInv'
  BY JobsFrame DEF FlowInv
<1>2. \A t : /\ Sending(t)' <=> Sending(t)
             /\ \A n : InJobs(t, n) => InJobs(t, n)'
  BY DEF Sending, InJobs
<1>3. \A t \in Shards : Calm(t)
  BY <1>2 DEF Calm
<1> QED BY <1>1, <1>3, CalmStep

\* A new message has a greater number than every job.
LEMMA OnMessageFlow ==
    ASSUME TypeInv, FlowInv, NEW dst \in Dsts, OnMessage(dst) PROVE FlowInv'
<1> USE DEF OnMessage, shardVars
<1>1. next \in Nat /\ next' = next + 1 /\ jobs' = jobs /\ sort' = sort /\ amiPc = "idle"
      /\ amiPc' \in {"idle", "push"} /\ jobs \in Seq(Job)
  BY Types DEF TypeInv, TypeOK
<1>2. JobsInv'
  <2>1. \A i \in 1 .. Len(jobs) : jobs[i][1] < next' /\ jobs[i][1] # next' - 1
    <3>1. ASSUME NEW i \in 1 .. Len(jobs) PROVE jobs[i][1] < next' /\ jobs[i][1] # next' - 1
      <4>1. jobs[i][1] < next
        BY DEF FlowInv, JobsInv
      <4>2. jobs[i] \in Job
        BY <1>1
      <4>3. jobs[i][1] \in Nat
        BY <4>2, Jobs
      <4> QED BY <1>1, <4>1, <4>3
    <3> QED BY <3>1
  <2>2. ASSUME NEW i \in 1 .. Len(jobs), NEW x PROVE jobs[i] # <<next' - 1, x>>
    BY <2>1
  <2> QED BY <1>1, <2>1, <2>2 DEF FlowInv, JobsInv
<1>3. \A t \in Shards : Calm(t)
  BY <1>1 DEF Calm, Sending, InJobs
<1> QED BY <1>2, <1>3, CalmStep

\* The message is noted, and still to be posted.
LEMMA LockMessageFlow == ASSUME FlowInv, LockMessage PROVE FlowInv'
<1> USE DEF LockMessage, shardVars
<1>1. JobsInv'
  BY DEF FlowInv, JobsInv
<1>2. \A t \in Shards : Calm(t)
  BY DEF Calm, Sending, InJobs
<1> QED BY <1>1, <1>2, CalmStep

\* PushSort: the job is new, and greater than what its shard has.
LEMMA PushSortFlow == ASSUME TypeInv, FlowInv, PushSort PROVE FlowInv'
<1>1. PICK s \in Shards, m \in 1 .. MaxSqn : s = amiTodo[1] /\ m = next - 1
  BY Types DEF PushSort
<1>2. /\ amiPc = "push" /\ amiPc' = "lock" /\ amiTodo # << >> /\ <<m, s>> \in Job
      /\ sort' = Append(sort, <<m, s>>) /\ jobs' = Append(jobs, <<m, s>>)
  BY <1>1, PushSortType
<1>3. UNCHANGED <<next, amiTodo, rx, tx, spc, want>>
  BY DEF PushSort, shardVars
<1>4. PICK e \in Job : e = <<m, s>>
  BY <1>2
<1>5. /\ sort \in Seq(Job) /\ jobs \in Seq(Job) /\ amiTodo \in Seq(Shards) /\ next \in Nat
      /\ FlowTypes
  BY Types DEF TypeInv, TypeOK
<1>6. /\ Len(sort) \in Nat /\ Len(sort') = Len(sort) + 1 /\ sort'[Len(sort) + 1] = e
      /\ \A i \in 1 .. Len(sort) : sort'[i] = sort[i]
  BY <1>2, <1>4, <1>5, AddLast
<1>7. /\ Len(jobs) \in Nat /\ Len(jobs') = Len(jobs) + 1 /\ jobs'[Len(jobs) + 1] = e
      /\ \A i \in 1 .. Len(jobs) : jobs'[i] = jobs[i]
  BY <1>2, <1>4, <1>5, AddLast
<1>8. JobsInv
  BY DEF FlowInv
<1>9. ASSUME NEW n, InJobs(s, n) PROVE n \in Nat /\ n < m /\ n \in 1 .. MaxSqn
  <2>1. n \in 1 .. MaxSqn /\ n < next /\ n # next - 1
    BY <1>1, <1>2, <1>8, <1>9, JobNumbers
  <2> QED BY <1>1, <1>5, <2>1
<1>10. JobsInv'
  <2>1. Len(sort') <= Len(jobs')
    BY <1>6, <1>7, <1>8 DEF JobsInv
  <2>2. ASSUME NEW i \in 1 .. Len(sort') PROVE sort'[i] = jobs'[Len(jobs') - Len(sort') + i]
    <3>1. CASE i \in 1 .. Len(sort)
      <4>1. /\ Len(jobs') - Len(sort') + i = Len(jobs) - Len(sort) + i
            /\ Len(jobs) - Len(sort) + i \in 1 .. Len(jobs)
        BY <1>6, <1>7, <1>8, <3>1 DEF JobsInv
      <4> QED BY <1>6, <1>7, <1>8, <3>1, <4>1 DEF JobsInv
    <3>2. CASE i = Len(sort) + 1
      <4>1. Len(jobs') - Len(sort') + i = Len(jobs) + 1
        BY <1>6, <1>7, <3>2
      <4> QED BY <1>6, <1>7, <3>2, <4>1
    <3> QED BY <1>6, <3>1, <3>2, LastIndex
  <2>3. ASSUME NEW i \in 1 .. Len(jobs)
        PROVE  jobs[i][1] <= m /\ jobs[i][1] < next /\ jobs[i] # e
    <3>1. jobs[i] \in Job /\ jobs[i][1] < next
      BY <1>5, <1>8 DEF JobsInv
    <3>2. jobs[i][1] \in 1 .. MaxSqn
      BY <3>1, Jobs
    <3>3. 1 \in 1 .. Len(amiTodo)
      BY <1>2, <1>5, HeadTail
    <3>4. jobs[i] # <<next - 1, amiTodo[1]>>
      BY <1>2, <1>8, <3>3 DEF JobsInv
    <3>5. jobs[i][1] <= m
      BY <1>1, <1>5, <3>1, <3>2
    <3> QED BY <1>1, <1>4, <3>1, <3>4, <3>5
  <2>4. e[1] = m /\ m < next /\ e = <<next - 1, amiTodo[1]>>
    BY <1>1, <1>4, <1>5
  <2>5. ASSUME NEW i \in 1 .. Len(jobs') PROVE jobs'[i][1] < next
    <3>1. i \in 1 .. Len(jobs) \/ i = Len(jobs) + 1
      BY <1>7
    <3> QED BY <1>7, <2>3, <2>4, <3>1
  <2>6. ASSUME NEW i \in 1 .. Len(jobs'), NEW j \in 1 .. Len(jobs'), i < j
        PROVE  jobs'[i][1] <= jobs'[j][1] /\ jobs'[i] # jobs'[j]
    <3>1. i \in 1 .. Len(jobs) /\ (j \in 1 .. Len(jobs) \/ j = Len(jobs) + 1)
      BY <1>7, <2>6
    <3>2. CASE j \in 1 .. Len(jobs)
      BY <1>7, <1>8, <2>6, <3>1, <3>2 DEF JobsInv
    <3>3. CASE j = Len(jobs) + 1
      BY <1>7, <2>3, <2>4, <3>1, <3>3
    <3> QED BY <3>1, <3>2, <3>3
  <2>7. ASSUME NEW i \in 1 .. Len(jobs'), NEW k \in 1 .. Len(amiTodo), k > 1
        PROVE  jobs'[i] # <<next - 1, amiTodo[k]>>
    <3>1. i \in 1 .. Len(jobs) \/ i = Len(jobs) + 1
      BY <1>7
    <3>2. CASE i \in 1 .. Len(jobs)
      BY <1>7, <1>8, <2>7, <3>2 DEF JobsInv
    <3>3. CASE i = Len(jobs) + 1
      <4>1. 1 \in 1 .. Len(amiTodo) /\ k # 1
        BY <1>2, <1>5, <2>7, HeadTail
      <4>2. amiTodo[1] # amiTodo[k]
        BY <4>1 DEF TypeInv, AgentInv
      <4> QED BY <1>7, <2>4, <3>3, <4>2
    <3> QED BY <3>1, <3>2, <3>3
  <2>8. UNCHANGED <<next, amiTodo>> /\ amiPc' # "push"
    BY <1>2, <1>3
  <2> QED BY <2>1, <2>2, <2>5, <2>6, <2>7, <2>8 DEF JobsInv
<1>11. /\ \A t \in Shards : Sending(t)' <=> t = s
       /\ \A t \in Shards : ~Sending(t)
       /\ \A t, n : InJobs(t, n) => InJobs(t, n)'
  <2>1. ASSUME NEW t, NEW n, InJobs(t, n) PROVE InJobs(t, n)'
    <3>1. PICK k \in 1 .. Len(jobs) : jobs[k] = <<n, t>>
      BY <2>1 DEF InJobs
    <3>2. k \in 1 .. Len(jobs') /\ jobs'[k] = <<n, t>>
      BY <1>7, <3>1
    <3> QED BY <3>2 DEF InJobs
  <2> QED BY <1>1, <1>2, <1>3, <2>1 DEF Sending
<1>12. ASSUME NEW t \in Shards, t # s PROVE Calm(t)
  BY <1>3, <1>11, <1>12 DEF Calm
<1>13. \A t \in Shards : \A n : Open(t, n)' <=> Open(t, n) \/ (t = s /\ n = m)
  <2>1. ASSUME NEW t \in Shards, NEW n
        PROVE  Open(t, n)' <=> Open(t, n) \/ (t = s /\ n = m)
    <3>1. next' - 1 = m
      BY <1>1, <1>3
    <3> QED BY <1>3, <1>11, <3>1 DEF Open
  <2> QED BY <2>1
<1>14. RxOK(s)'
  <2>1. RxOK(s)
    BY DEF FlowInv, RxOrder
  <2>2. \A i \in 1 .. Len(rx[s]) : rx[s][i].type = "msg" => rx[s][i].sqn < m
    BY <1>9, <2>1 DEF RxOK
  <2>3. spc[s] = "skip" => want[s].sqn < m
    <3>1. ASSUME spc[s] = "skip" PROVE want[s].sqn < m
      <4>1. want[s] \in TxEntry /\ want[s].sqn > 0 /\ Open(s, want[s].sqn)
        BY <3>1, Types DEF TypeInv, ShardInv, ShardOK, Open
      <4>2. want[s].sqn \in 1 .. MaxSqn
        BY <4>1, TxNumbers
      <4>3. InSort(s, want[s].sqn)
        BY <4>1, <4>2 DEF FlowInv, PresentInv
      <4> QED BY <1>8, <1>9, <4>3, JobNumbers
    <3> QED BY <3>1
  <2>4. next' - 1 = m
    BY <1>1, <1>3
  <2> QED BY <1>3, <1>11, <2>1, <2>2, <2>3, <2>4 DEF RxOK
<1>15. RxOrder'
  BY <1>12, <1>14, CalmShard DEF FlowInv, RxOrder
<1>16. \A i \in 1 .. Len(tx[s]) : tx[s][i].sqn > 0 => tx[s][i].sqn < m
  <2>1. ASSUME NEW i \in 1 .. Len(tx[s]), tx[s][i].sqn > 0 PROVE tx[s][i].sqn < m
    <3>1. InSort(s, tx[s][i].sqn)
      BY <2>1 DEF FlowInv, PresentInv
    <3> QED BY <1>8, <1>9, <3>1, JobNumbers
  <2> QED BY <2>1
<1>17. TxOrder'
  <2>1. ASSUME NEW t \in Shards, NEW i \in 1 .. Len(tx[t]), tx[t][i].sqn > 0,
               NEW n \in 1 .. MaxSqn, Open(t, n)'
        PROVE  tx[t][i].sqn <= n /\ (tx[t][i].kind = "done" => tx[t][i].sqn # n)
    <3>1. CASE Open(t, n)
      BY <2>1, <3>1 DEF FlowInv, TxOrder
    <3>2. CASE t = s /\ n = m
      <4>1. tx[s] \in Seq(TxEntry)
        BY Types
      <4>2. tx[s][i] \in TxEntry
        BY <3>2, <4>1
      <4>3. tx[s][i].sqn \in Nat /\ tx[s][i].sqn < m
        BY <1>16, <2>1, <3>2, <4>2, TxNumbers
      <4> QED BY <1>1, <3>2, <4>3
    <3> QED BY <1>13, <2>1, <3>1, <3>2
  <2> QED BY <1>3, <2>1 DEF FlowInv, TxOrder
<1>18. ASSUME NEW t, NEW n PROVE InSort(t, n)' <=> InSort(t, n) \/ (t = s /\ n = m)
  <2>1. ASSUME InSort(t, n) PROVE InSort(t, n)'
    <3>1. PICK k \in 1 .. Len(sort) : sort[k] = <<n, t>>
      BY <2>1 DEF InSort
    <3>2. k \in 1 .. Len(sort') /\ sort'[k] = <<n, t>>
      BY <1>6, <3>1
    <3> QED BY <3>2 DEF InSort
  <2>2. InSort(s, m)'
    <3>1. Len(sort) + 1 \in 1 .. Len(sort')
      BY <1>6
    <3> QED BY <1>4, <1>6, <3>1 DEF InSort
  <2>3. ASSUME InSort(t, n)' PROVE InSort(t, n) \/ (t = s /\ n = m)
    <3>1. PICK k \in 1 .. Len(sort') : sort'[k] = <<n, t>>
      BY <2>3 DEF InSort
    <3>2. k \in 1 .. Len(sort) \/ k = Len(sort) + 1
      BY <1>6
    <3>3. CASE k \in 1 .. Len(sort)
      BY <1>6, <3>1, <3>3 DEF InSort
    <3>4. CASE k = Len(sort) + 1
      <4>1. <<n, t>> = <<m, s>>
        BY <1>4, <1>6, <3>1, <3>4
      <4> QED BY <4>1
    <3> QED BY <3>2, <3>3, <3>4
  <2> QED BY <2>1, <2>2, <2>3
<1>19. \A t \in Shards : \A n : Written(t, n)' <=> Written(t, n)
  BY <1>3 DEF Written
<1>20. PresentInv'
  <2>1. \A t \in Shards : \A n \in 1 .. MaxSqn :
            /\ InSort(t, n)' => Open(t, n)' \/ Written(t, n)'
            /\ Open(t, n)' => InSort(t, n)'
    BY <1>13, <1>18, <1>19 DEF FlowInv, PresentInv
  <2>2. ASSUME NEW t \in Shards, NEW i \in 1 .. Len(tx'[t]), tx'[t][i].sqn > 0
        PROVE  \E k \in 1 .. Len(sort') : sort'[k] = <<tx'[t][i].sqn, t>>
    <3>1. PICK n : n = tx'[t][i].sqn
      OBVIOUS
    <3>2. InSort(t, n)
      BY <1>3, <2>2, <3>1 DEF FlowInv, PresentInv
    <3>3. InSort(t, n)'
      BY <1>18, <3>2
    <3> QED BY <3>1, <3>3 DEF InSort
  <2> QED BY <2>1, <2>2 DEF PresentInv, InSort
<1> QED BY <1>10, <1>15, <1>17, <1>20 DEF FlowInv

\* An entry posted to an rx ring: a message of which the sort queue knows, or no message.
LEMMA RxPostedOpen ==
    ASSUME TypeInv, RxOrder, NEW s \in Shards, NEW e \in RxEntry,
           rx' = [rx EXCEPT ![s] = Append(@, e)], UNCHANGED <<spc, want, next, jobs>>,
           \/ e.type # "msg" /\ (Sending(s)' <=> Sending(s))
           \/ e.type = "msg" /\ Sending(s) /\ e.sqn = next - 1 /\ ~Sending(s)' /\ InJobs(s, next - 1)
    PROVE  RxOK(s)' /\ \A n : Open(s, n)' <=> Open(s, n)
<1>1. rx \in [Shards -> Seq(RxEntry)] /\ RxOK(s) /\ ShardOK(s)
  BY DEF TypeInv, FlowTypes, RxOrder, ShardInv
<1>2. PICK q : q = rx'[s]
  OBVIOUS
<1>3. PICK l \in Nat : l = Len(rx[s])
  BY <1>1
<1>4. Len(q) = l + 1 /\ q[l + 1] = e /\ \A i \in 1 .. l : q[i] = rx[s][i]
  BY <1>1, <1>2, <1>3, PostedRing
<1>5. \A i \in 1 .. l + 1 : i \in 1 .. l \/ i = l + 1
  BY <1>3
<1>6. \A n : InJobs(s, n)' <=> InJobs(s, n)
  BY DEF InJobs
<1>7. spc[s] = "free" => l >= 1
  BY <1>1, <1>3, HeadTail DEF ShardOK
<1>8. CASE e.type # "msg" /\ (Sending(s)' <=> Sending(s))
  <2>1. \A i \in 1 .. l + 1 : q[i].type = "msg" => i \in 1 .. l /\ q[i] = rx[s][i]
    BY <1>4, <1>5, <1>8
  <2>2. RxOK(s)'
    BY <1>1, <1>2, <1>3, <1>4, <1>6, <1>8, <2>1 DEF RxOK
  <2>3. ASSUME NEW n PROVE Open(s, n)' <=> Open(s, n)
    <3>1. \A i \in 1 .. l : i \in 1 .. l + 1
      BY <1>3
    <3> QED BY <1>2, <1>3, <1>4, <1>8, <2>1, <3>1 DEF Open
  <2> QED BY <2>2, <2>3
<1>9. CASE /\ e.type = "msg" /\ Sending(s) /\ e.sqn = next - 1 /\ ~Sending(s)'
           /\ InJobs(s, next - 1)
  <2>1. RxOK(s)'
    <3>1. ASSUME NEW i \in 1 .. l + 1, NEW j \in 1 .. l + 1, i < j, q[i].type = "msg", q[j].type = "msg"
          PROVE  q[i].sqn < q[j].sqn
      <4>1. i \in 1 .. l /\ (j \in 1 .. l \/ j = l + 1)
        BY <1>3, <1>5, <3>1
      <4>2. CASE j \in 1 .. l
        BY <1>1, <1>3, <1>4, <3>1, <4>1, <4>2 DEF RxOK
      <4>3. CASE j = l + 1
        BY <1>1, <1>3, <1>4, <1>9, <3>1, <4>1, <4>3 DEF RxOK
      <4> QED BY <4>1, <4>2, <4>3
    <3>2. ASSUME NEW i \in 1 .. l + 1, q[i].type = "msg"
          PROVE  InJobs(s, q[i].sqn) /\ (spc[s] = "skip" => want[s].sqn < q[i].sqn)
      <4>1. CASE i \in 1 .. l
        BY <1>1, <1>3, <1>4, <3>2, <4>1 DEF RxOK
      <4>2. CASE i = l + 1
        BY <1>1, <1>4, <1>9, <4>2 DEF RxOK
      <4> QED BY <1>5, <4>1, <4>2
    <3> QED BY <1>2, <1>4, <1>6, <1>9, <3>1, <3>2 DEF RxOK
  <2>2. ASSUME NEW n, Open(s, n) PROVE Open(s, n)'
    <3>1. CASE \E i \in 1 .. l : rx[s][i].type = "msg" /\ rx[s][i].sqn = n /\ (i = 1 => spc[s] # "free")
      <4>1. PICK i \in 1 .. l : rx[s][i].type = "msg" /\ rx[s][i].sqn = n /\ (i = 1 => spc[s] # "free")
        BY <3>1
      <4>2. i \in 1 .. l + 1 /\ q[i] = rx[s][i]
        BY <1>4
      <4> QED BY <1>2, <1>4, <4>1, <4>2 DEF Open
    <3>2. CASE spc[s] = "skip" /\ want[s].sqn = n
      BY <3>2 DEF Open
    <3>3. CASE n = next - 1
      <4>1. l + 1 \in 1 .. l + 1 /\ (l + 1 = 1 => spc[s] # "free")
        BY <1>3, <1>7
      <4> QED BY <1>2, <1>4, <1>9, <3>3, <4>1 DEF Open
    <3> QED BY <1>3, <2>2, <3>1, <3>2, <3>3 DEF Open
  <2>3. ASSUME NEW n, Open(s, n)' PROVE Open(s, n)
    <3>1. \/ \E i \in 1 .. l + 1 : q[i].type = "msg" /\ q[i].sqn = n /\ (i = 1 => spc[s] # "free")
          \/ spc[s] = "skip" /\ want[s].sqn = n
      BY <1>2, <1>4, <1>9, <2>3 DEF Open
    <3>2. CASE spc[s] = "skip" /\ want[s].sqn = n
      BY <3>2 DEF Open
    <3>3. CASE \E i \in 1 .. l + 1 : q[i].type = "msg" /\ q[i].sqn = n /\ (i = 1 => spc[s] # "free")
      <4>1. PICK i \in 1 .. l + 1 : q[i].type = "msg" /\ q[i].sqn = n /\ (i = 1 => spc[s] # "free")
        BY <3>3
      <4>2. CASE i \in 1 .. l
        BY <1>3, <1>4, <4>1, <4>2 DEF Open
      <4>3. CASE i = l + 1
        BY <1>4, <1>9, <4>1, <4>3 DEF Open
      <4> QED BY <1>5, <4>2, <4>3
    <3> QED BY <3>1, <3>2, <3>3
  <2> QED BY <2>1, <2>2, <2>3
<1> QED BY <1>8, <1>9

\* A step in which one rx ring gets an entry.
LEMMA RxPostedFlow ==
    ASSUME TypeInv, FlowInv, JobsInv', UNCHANGED <<tx, sort>>, NEW s \in Shards,
           RxOK(s)' /\ \A n : Open(s, n)' <=> Open(s, n), \A t \in Shards : t # s => Calm(t)
    PROVE  FlowInv'
<1>1. RxOrder' /\ \A t \in Shards : \A n : Open(t, n)' <=> Open(t, n)
  BY CalmShard DEF FlowInv, RxOrder
<1>2. TxOrder' /\ PresentInv'
  BY <1>1, FlowFrame DEF FlowInv
<1> QED BY <1>1, <1>2 DEF FlowInv

\* The message goes from the thread to the end of the ring.
LEMMA PostMessageFlow == ASSUME TypeInv, FlowInv, PostMessage PROVE FlowInv'
<1>1. PICK s \in Shards, m \in 1 .. MaxSqn : s = amiTodo[1] /\ m = next - 1
  BY PostMessageType
<1>2. PICK e \in RxEntry : e = RxMessage(m) /\ e.type = "msg" /\ e.sqn = m
  BY RxEntries
<1>3. /\ rx' = [rx EXCEPT ![s] = Append(@, e)] /\ amiPc = "alloc" /\ amiPc' \in {"idle", "push"}
      /\ amiTodo' = Tail(amiTodo) /\ UNCHANGED <<spc, want, next, jobs, tx, sort>>
  BY <1>1, <1>2, PostMessageType DEF PostMessage, shardVars
<1>4. amiTodo \in Seq(Shards) /\ amiTodo # << >> /\ next \in Nat
  BY <1>3, Types DEF TypeInv, TypeOK
<1>5. /\ Sending(s) /\ \A t : ~Sending(t)'
      /\ \A t : t # s => ~Sending(t)
  BY <1>1, <1>3 DEF Sending
<1>6. InJobs(s, m)
  <2>1. Open(s, m)
    BY <1>1, <1>5 DEF Open
  <2>2. InSort(s, m)
    BY <2>1 DEF FlowInv, PresentInv
  <2> QED BY <2>2, JobNumbers DEF FlowInv
<1>7. RxOK(s)' /\ \A n : Open(s, n)' <=> Open(s, n)
  BY <1>1, <1>2, <1>3, <1>5, <1>6, RxPostedOpen DEF FlowInv
<1>8. JobsInv'
  <2>1. /\ Len(amiTodo) \in Nat /\ Len(amiTodo') = Len(amiTodo) - 1
        /\ \A k \in 1 .. Len(amiTodo) - 1 : amiTodo'[k] = amiTodo[k + 1]
    BY <1>3, <1>4, HeadTail
  <2>2. ASSUME NEW i \in 1 .. Len(jobs), NEW k \in 1 .. Len(amiTodo')
        PROVE  jobs[i] # <<next - 1, amiTodo'[k]>>
    <3>1. k + 1 \in 1 .. Len(amiTodo) /\ k + 1 > 1 /\ amiTodo'[k] = amiTodo[k + 1]
      BY <2>1
    <3> QED BY <3>1 DEF FlowInv, JobsInv
  <2> QED BY <1>3, <2>2 DEF FlowInv, JobsInv
<1>9. \A t \in Shards : t # s => rx'[t] = rx[t]
  BY <1>3 DEF TypeInv, FlowTypes
<1>10. ASSUME NEW t \in Shards, t # s PROVE Calm(t)
  BY <1>3, <1>5, <1>9, <1>10 DEF Calm, InJobs
<1> QED BY <1>3, <1>7, <1>8, <1>10, RxPostedFlow

\* Events and posts are no messages.
LEMMA RxOther ==
    ASSUME TypeInv, RxOrder, NEW s \in Shards, NEW e \in RxEntry, e.type # "msg",
           rx' = [rx EXCEPT ![s] = Append(@, e)], UNCHANGED <<spc, want, amiVars>>
    PROVE  RxOrder' /\ \A t \in Shards : \A n : Open(t, n)' <=> Open(t, n)
<1> USE DEF amiVars
<1>1. \A t : Sending(t)' <=> Sending(t)
  BY DEF Sending
<1>2. RxOK(s)' /\ \A n : Open(s, n)' <=> Open(s, n)
  BY <1>1, RxPostedOpen
<1>3. \A t \in Shards : t # s => rx'[t] = rx[t]
  BY DEF TypeInv, FlowTypes
<1>4. ASSUME NEW t \in Shards, t # s PROVE Calm(t)
  BY <1>1, <1>3, <1>4 DEF Calm, InJobs
<1> QED BY <1>2, <1>4, CalmShard DEF RxOrder

\* An event is not a message.
LEMMA PostEventFlow == ASSUME TypeInv, FlowInv, PostEvent PROVE FlowInv'
<1>1. PICK s \in Shards : s = evIndex
  BY DEF TypeInv, TypeOK
<1>2. /\ rx' = [rx EXCEPT ![s] = Append(@, AmiEvent)]
      /\ UNCHANGED <<spc, want, amiVars, tx, sort>>
  BY <1>1 DEF PostEvent, PostRx, shardVars
<1>3. AmiEvent \in RxEntry /\ AmiEvent.type # "msg"
  BY RxEntries
<1>4. RxOrder' /\ \A t \in Shards : \A n : Open(t, n)' <=> Open(t, n)
  BY <1>2, <1>3, RxOther DEF FlowInv
<1>5. TxOrder' /\ PresentInv'
  BY <1>2, <1>4, FlowFrame DEF FlowInv
<1>6. JobsInv'
  BY <1>2, JobsFrame DEF FlowInv, amiVars
<1> QED BY <1>4, <1>5, <1>6 DEF FlowInv

\* The first entry of an rx ring is freed, and what the shard has in hand takes its place,
\* or it was done before.
LEMMA RxFreedOpen ==
    ASSUME TypeInv, RxOrder, NEW s \in Shards, rx[s] # << >>, rx' = [rx EXCEPT ![s] = Tail(@)],
           UNCHANGED amiVars, spc'[s] # "free",
           \/ spc[s] = "free" /\ spc'[s] # "skip"
           \/ /\ spc[s] = "poll" /\ spc'[s] = "skip"
              /\ rx[s][1].type = "msg" /\ want'[s].sqn = rx[s][1].sqn
    PROVE  RxOK(s)' /\ \A n : Open(s, n)' <=> Open(s, n)
<1>1. rx \in [Shards -> Seq(RxEntry)] /\ RxOK(s)
  BY DEF TypeInv, FlowTypes, RxOrder
<1>2. PICK q : q = rx'[s]
  OBVIOUS
<1>3. PICK l \in Nat : l = Len(rx[s]) - 1 /\ Len(rx[s]) = l + 1
  <2>1. rx[s] \in Seq(RxEntry)
    BY <1>1
  <2>2. Len(rx[s]) \in Nat /\ Len(rx[s]) >= 1
    BY <2>1, HeadTail
  <2>3. Len(rx[s]) - 1 \in Nat /\ Len(rx[s]) = (Len(rx[s]) - 1) + 1
    BY <2>2
  <2> QED BY <2>3
<1>4. Len(q) = l /\ \A i \in 1 .. l : q[i] = rx[s][i + 1]
  BY <1>1, <1>2, <1>3, FreedRing
<1>5. /\ \A i \in 1 .. l : i + 1 \in 1 .. l + 1 /\ i + 1 > 1 /\ 1 \in 1 .. l + 1
      /\ \A i \in 1 .. l + 1 : i = 1 \/ (i - 1 \in 1 .. l /\ (i - 1) + 1 = i)
  BY <1>3
<1>6. \A n : InJobs(s, n)' <=> InJobs(s, n)
  BY DEF InJobs, amiVars
<1>7. (Sending(s)' <=> Sending(s)) /\ next' = next
  BY DEF Sending, amiVars
<1>8. 1 \in 1 .. l + 1
  BY <1>3
<1>9. RxOK(s)'
  <2>1. ASSUME NEW i \in 1 .. l, NEW j \in 1 .. l, i < j, q[i].type = "msg", q[j].type = "msg"
        PROVE  q[i].sqn < q[j].sqn
    <3>1. i + 1 < j + 1
      BY <2>1
    <3> QED BY <1>1, <1>3, <1>4, <1>5, <2>1, <3>1 DEF RxOK
  <2>2. ASSUME NEW i \in 1 .. l, q[i].type = "msg"
        PROVE  /\ InJobs(s, q[i].sqn)
               /\ spc'[s] = "skip" => want'[s].sqn < q[i].sqn
               /\ Sending(s) => q[i].sqn < next - 1
    <3>1. spc'[s] = "skip" => want'[s].sqn < q[i].sqn
      BY <1>1, <1>3, <1>4, <1>5, <1>8, <2>2 DEF RxOK
    <3> QED BY <1>1, <1>3, <1>4, <1>5, <2>2, <3>1 DEF RxOK
  <2>3. spc'[s] = "skip" /\ Sending(s) => want'[s].sqn < next - 1
    BY <1>1, <1>3, <1>8 DEF RxOK
  <2> QED BY <1>2, <1>4, <1>6, <1>7, <2>1, <2>2, <2>3 DEF RxOK
<1>10. ASSUME NEW n, Open(s, n) PROVE Open(s, n)'
  <2>1. CASE \E i \in 1 .. l + 1 :
                 rx[s][i].type = "msg" /\ rx[s][i].sqn = n /\ (i = 1 => spc[s] # "free")
    <3>1. PICK i \in 1 .. l + 1 :
              rx[s][i].type = "msg" /\ rx[s][i].sqn = n /\ (i = 1 => spc[s] # "free")
      BY <2>1
    <3>2. CASE i = 1
      BY <3>1, <3>2 DEF Open
    <3>3. CASE i # 1
      <4>1. i - 1 \in 1 .. l /\ q[i - 1] = rx[s][i]
        BY <1>4, <1>5, <3>3
      <4> QED BY <1>2, <1>4, <3>1, <4>1 DEF Open
    <3> QED BY <3>2, <3>3
  <2>2. CASE Sending(s) /\ n = next - 1
    BY <1>7, <2>2 DEF Open
  <2>3. spc[s] # "skip"
    OBVIOUS
  <2> QED BY <1>3, <1>10, <2>1, <2>2, <2>3 DEF Open
<1>11. ASSUME NEW n, Open(s, n)' PROVE Open(s, n)
  <2>1. CASE \E i \in 1 .. l : q[i].type = "msg" /\ q[i].sqn = n
    <3>1. PICK i \in 1 .. l : q[i].type = "msg" /\ q[i].sqn = n
      BY <2>1
    <3>2. i + 1 \in 1 .. l + 1 /\ i + 1 # 1 /\ q[i] = rx[s][i + 1]
      BY <1>4, <1>5
    <3> QED BY <1>3, <3>1, <3>2 DEF Open
  <2>2. CASE spc'[s] = "skip" /\ want'[s].sqn = n
    <3>1. rx[s][1].type = "msg" /\ rx[s][1].sqn = n /\ spc[s] # "free"
      BY <2>2
    <3> QED BY <1>3, <1>8, <3>1 DEF Open
  <2>3. CASE Sending(s) /\ n = next - 1
    BY <2>3 DEF Open
  <2> QED BY <1>2, <1>4, <1>7, <1>11, <2>1, <2>2, <2>3 DEF Open
<1> QED BY <1>9, <1>10, <1>11

\* FreeEntry and OnTrialError's first step.
LEMMA RxFreedFlow ==
    ASSUME TypeInv, FlowInv, NEW s \in Shards, UNCHANGED <<tx, sort, amiVars>>,
           RxOK(s)' /\ \A n : Open(s, n)' <=> Open(s, n),
           \A t \in Shards : t # s => rx'[t] = rx[t] /\ spc'[t] = spc[t] /\ want'[t] = want[t]
    PROVE  FlowInv'
<1> USE DEF amiVars
<1>1. JobsInv'
  BY JobsFrame DEF FlowInv
<1>2. ASSUME NEW t \in Shards, t # s PROVE Calm(t)
  BY <1>2 DEF Calm, Sending, InJobs
<1> QED BY <1>1, <1>2, RxPostedFlow

\* The entry freed is no longer open: its process-done record is written.
LEMMA FreeEntryFlow == ASSUME TypeInv, FlowInv, NEW s \in Shards, FreeEntry(s) PROVE FlowInv'
<1>1. /\ spc[s] = "free" /\ rx[s] # << >> /\ spc'[s] = "poll"
      /\ \A t \in Shards : t # s => spc'[t] = spc[t]
  BY FreeEntryType
<1>2. rx' = [rx EXCEPT ![s] = Tail(@)] /\ UNCHANGED <<want, tx, sort, amiVars>>
  BY DEF FreeEntry
<1>3. \A t \in Shards : t # s => rx'[t] = rx[t]
  BY <1>2 DEF TypeInv, FlowTypes
<1>4. RxOK(s)' /\ \A n : Open(s, n)' <=> Open(s, n)
  BY <1>1, <1>2, RxFreedOpen DEF FlowInv
<1> QED BY <1>1, <1>2, <1>3, <1>4, RxFreedFlow

\* The message goes from the ring to OnTrialError's hands.
LEMMA SkipMessageFlow == ASSUME TypeInv, FlowInv, NEW s \in Shards, SkipMessage(s) PROVE FlowInv'
<1>1. /\ spc[s] = "poll" /\ rx[s] # << >> /\ spc'[s] = "skip" /\ rx[s][1].type = "msg"
      /\ want'[s].sqn = rx[s][1].sqn
      /\ \A t \in Shards : t # s => spc'[t] = spc[t] /\ want'[t] = want[t]
  <2>1. want'[s] = TxRecord("discard", rx[s][1].sqn)
    BY SkipMessageType
  <2>2. want'[s].sqn = rx[s][1].sqn
    BY <2>1, TxEntries
  <2> QED BY <2>2, SkipMessageType
<1>2. rx' = [rx EXCEPT ![s] = Tail(@)] /\ UNCHANGED <<tx, sort, amiVars>>
  BY DEF SkipMessage
<1>3. \A t \in Shards : t # s => rx'[t] = rx[t]
  BY <1>2 DEF TypeInv, FlowTypes
<1>4. RxOK(s)' /\ \A n : Open(s, n)' <=> Open(s, n)
  BY <1>1, <1>2, RxFreedOpen DEF FlowInv
<1> QED BY <1>1, <1>2, <1>3, <1>4, RxFreedFlow

\* The record a shard has in hand is about its first open message.
LEMMA FirstInHand ==
    ASSUME TypeInv, FlowInv, NEW s \in Shards, spc[s] \in {"alloc", "skip"}, want[s].sqn > 0
    PROVE  /\ Open(s, want[s].sqn)
           /\ \A n : Open(s, n) => want[s].sqn <= n
           /\ spc[s] = "alloc" => rx[s][1].type = "msg" /\ rx[s][1].sqn = want[s].sqn
<1>1. PICK w \in 1 .. MaxSqn : w = want[s].sqn
  BY Types, TxNumbers
<1>2. rx[s] \in Seq(RxEntry) /\ ShardOK(s) /\ RxOK(s) /\ w \in Nat
  BY Types DEF TypeInv, ShardInv, FlowInv, RxOrder
<1>3. CASE spc[s] = "alloc"
  <2>1. rx[s] # << >> /\ rx[s][1].sqn = w /\ rx[s][1] \in RxEntry /\ 1 \in 1 .. Len(rx[s])
    BY <1>1, <1>2, <1>3, HeadTail DEF ShardOK
  <2>2. rx[s][1].type = "msg"
    BY <1>1, <2>1, RxEntries
  <2>3. Open(s, w)
    BY <1>3, <2>1, <2>2 DEF Open
  <2>4. ASSUME NEW n, Open(s, n) PROVE w <= n
    <3>1. CASE \E i \in 1 .. Len(rx[s]) : rx[s][i].type = "msg" /\ rx[s][i].sqn = n
      <4>1. PICK i \in 1 .. Len(rx[s]) : rx[s][i].type = "msg" /\ rx[s][i].sqn = n
        BY <3>1
      <4>2. rx[s][i] \in RxEntry
        BY <1>2
      <4>3. n \in Nat
        BY <4>1, <4>2, RxEntries
      <4>4. CASE i = 1
        BY <2>1, <4>1, <4>3, <4>4
      <4>5. CASE i # 1
        <5>1. 1 < i
          BY <4>5
        <5>2. w < n
          BY <1>2, <2>1, <2>2, <4>1, <5>1 DEF RxOK
        <5> QED BY <1>2, <4>3, <5>2
      <4> QED BY <4>4, <4>5
    <3>2. CASE Sending(s) /\ n = next - 1
      <4>1. w < next - 1 /\ next \in Nat
        BY <1>2, <2>1, <2>2, <3>2, Types DEF RxOK
      <4> QED BY <1>2, <3>2, <4>1
    <3> QED BY <1>3, <2>4, <3>1, <3>2 DEF Open
  <2> QED BY <1>1, <2>1, <2>2, <2>3, <2>4
<1>4. CASE spc[s] = "skip"
  <2>1. Open(s, w)
    BY <1>1, <1>4 DEF Open
  <2>2. ASSUME NEW n, Open(s, n) PROVE w <= n
    <3>1. CASE \E i \in 1 .. Len(rx[s]) : rx[s][i].type = "msg" /\ rx[s][i].sqn = n
      <4>1. PICK i \in 1 .. Len(rx[s]) : rx[s][i].type = "msg" /\ rx[s][i].sqn = n
        BY <3>1
      <4>2. rx[s][i] \in RxEntry
        BY <1>2
      <4>3. n \in Nat
        BY <4>1, <4>2, RxEntries
      <4>4. w < n
        BY <1>1, <1>2, <1>4, <4>1 DEF RxOK
      <4> QED BY <1>2, <4>3, <4>4
    <3>2. CASE Sending(s) /\ n = next - 1
      <4>1. w < next - 1 /\ next \in Nat
        BY <1>1, <1>2, <1>4, <3>2, Types DEF RxOK
      <4> QED BY <1>2, <3>2, <4>1
    <3>3. CASE n = w
      BY <1>2, <3>3
    <3> QED BY <1>1, <2>2, <3>1, <3>2, <3>3 DEF Open
  <2> QED BY <1>1, <1>4, <2>1, <2>2
<1> QED BY <1>3, <1>4

\* A shard's record is posted.
LEMMA TxPostedFlow ==
    ASSUME TypeInv, FlowInv, NEW s \in Shards, spc[s] \in {"alloc", "skip"},
           tx' = [tx EXCEPT ![s] = Append(@, want[s])], UNCHANGED <<sort, amiVars>>, RxOK(s)',
           \A n : Open(s, n)' <=> Open(s, n) /\ ~(want[s].kind = "done" /\ n = want[s].sqn),
           \A t \in Shards : t # s => rx'[t] = rx[t] /\ spc'[t] = spc[t] /\ want'[t] = want[t]
    PROVE  FlowInv'
<1> USE DEF amiVars
<1>1. JobsInv'
  BY JobsFrame DEF FlowInv
<1>2. ASSUME NEW t \in Shards, t # s PROVE Calm(t)
  BY <1>2 DEF Calm, Sending, InJobs
<1>3. RxOrder' /\ \A t \in Shards : t # s => \A n : Open(t, n)' <=> Open(t, n)
  BY <1>2, CalmShard DEF FlowInv, RxOrder
<1>4. PICK r \in TxEntry : r = want[s]
  BY Types
<1>5. r.sqn > 0 => Open(s, r.sqn) /\ \A n \in 1 .. MaxSqn : Open(s, n) => r.sqn <= n
  BY <1>4, FirstInHand
<1>6. \A t \in Shards : \A n \in 1 .. MaxSqn :
          Open(t, n)' <=> Open(t, n) /\ ~(t = s /\ r.kind = "done" /\ n = r.sqn)
  BY <1>3, <1>4
<1>7. tx' = [tx EXCEPT ![s] = Append(@, r)]
  BY <1>4
<1>8. TxOrder' /\ PresentInv'
  BY <1>5, <1>6, <1>7, TxPosted DEF FlowInv
<1> QED BY <1>1, <1>3, <1>8 DEF FlowInv

\* The record posted is of the first open message; process-done closes it.
LEMMA PostTxFlow == ASSUME TypeInv, FlowInv, NEW s \in Shards, PostTx(s) PROVE FlowInv'
<1>1. /\ spc[s] = "alloc" /\ rx[s] # << >>
      /\ spc'[s] = (IF want[s].kind = "done" THEN "free" ELSE "app")
      /\ \A t \in Shards : t # s => spc'[t] = spc[t] /\ want'[t] = want[t]
  BY PostTxType
<1>2. tx' = [tx EXCEPT ![s] = Append(@, want[s])] /\ UNCHANGED <<sort, amiVars, rx>>
  BY DEF PostTx
<1>3. RxOK(s) /\ rx[s] \in Seq(RxEntry)
  BY Types DEF FlowInv, RxOrder
<1>4. /\ Sending(s)' <=> Sending(s)
      /\ \A n : InJobs(s, n)' <=> InJobs(s, n)
      /\ next' = next
  BY <1>2 DEF Sending, InJobs, amiVars
<1>5. RxOK(s)'
  BY <1>1, <1>2, <1>3, <1>4 DEF RxOK
<1>6. ASSUME NEW n
      PROVE  Open(s, n)' <=> Open(s, n) /\ ~(want[s].kind = "done" /\ n = want[s].sqn)
  <2>1. CASE want[s].kind # "done"
    BY <1>1, <1>2, <1>4, <2>1 DEF Open
  <2>2. CASE want[s].kind = "done"
    <3>1. PICK w \in Nat : w = want[s].sqn /\ w > 0
      BY <2>2, Types, TxNumbers
    <3>2. rx[s][1].type = "msg" /\ rx[s][1].sqn = w /\ 1 \in 1 .. Len(rx[s])
      BY <1>1, <1>3, <3>1, FirstInHand, HeadTail
    <3>3. ASSUME NEW i \in 1 .. Len(rx[s]), rx[s][i].type = "msg", i # 1 PROVE rx[s][i].sqn # w
      <4>1. 1 < i
        BY <3>3
      <4>2. w < rx[s][i].sqn
        BY <1>3, <3>2, <3>3, <4>1 DEF RxOK
      <4> QED BY <3>1, <4>2
    <3>4. Sending(s) => next - 1 # w
      <4>1. Sending(s) => w < next - 1
        BY <1>3, <3>2 DEF RxOK
      <4> QED BY <3>1, <4>1, Types
    <3>5. spc'[s] = "free"
      BY <1>1, <2>2
    <3>6. Open(s, n)' <=>
              \/ \E i \in 1 .. Len(rx[s]) : rx[s][i].type = "msg" /\ rx[s][i].sqn = n /\ i # 1
              \/ Sending(s) /\ n = next - 1
      BY <1>2, <1>4, <3>5 DEF Open
    <3>7. Open(s, n) <=> \/ \E i \in 1 .. Len(rx[s]) : rx[s][i].type = "msg" /\ rx[s][i].sqn = n
                         \/ Sending(s) /\ n = next - 1
      BY <1>1 DEF Open
    <3> QED BY <2>2, <3>1, <3>2, <3>3, <3>4, <3>6, <3>7
  <2> QED BY <2>1, <2>2
<1> QED BY <1>1, <1>2, <1>5, <1>6, TxPostedFlow

\* OnTrialError holds the first open message; process-done closes it.
LEMMA PostSkipFlow == ASSUME TypeInv, FlowInv, NEW s \in Shards, PostSkip(s) PROVE FlowInv'
<1>1. /\ spc[s] = "skip" /\ \A t \in Shards : t # s => spc'[t] = spc[t] /\ want'[t] = want[t]
      /\ \/ want[s].kind = "discard" /\ spc'[s] = "skip" /\ want'[s] = TxRecord("done", want[s].sqn)
         \/ want[s].kind = "done" /\ spc'[s] = "poll"
  BY PostSkipType
<1>2. tx' = [tx EXCEPT ![s] = Append(@, want[s])] /\ UNCHANGED <<sort, amiVars, rx>>
  BY DEF PostSkip
<1>3. RxOK(s) /\ rx[s] \in Seq(RxEntry)
  BY Types DEF FlowInv, RxOrder
<1>4. /\ Sending(s)' <=> Sending(s)
      /\ \A n : InJobs(s, n)' <=> InJobs(s, n)
      /\ next' = next
  BY <1>2 DEF Sending, InJobs, amiVars
<1>5. spc'[s] = "skip" => want'[s].sqn = want[s].sqn
  BY <1>1, TxEntries
<1>6. RxOK(s)'
  BY <1>1, <1>2, <1>3, <1>4, <1>5 DEF RxOK
<1>7. ASSUME NEW n
      PROVE  Open(s, n)' <=> Open(s, n) /\ ~(want[s].kind = "done" /\ n = want[s].sqn)
  <2>1. CASE want[s].kind # "done"
    BY <1>1, <1>2, <1>4, <1>5, <2>1 DEF Open
  <2>2. CASE want[s].kind = "done"
    <3>1. PICK w \in Nat : w = want[s].sqn /\ w > 0
      BY <2>2, Types, TxNumbers
    <3>2. ASSUME NEW i \in 1 .. Len(rx[s]), rx[s][i].type = "msg" PROVE rx[s][i].sqn # w
      <4>1. w < rx[s][i].sqn
        BY <1>1, <1>3, <3>1, <3>2 DEF RxOK
      <4> QED BY <3>1, <4>1
    <3>3. Sending(s) => next - 1 # w
      <4>1. Sending(s) => w < next - 1
        BY <1>1, <1>3, <3>1 DEF RxOK
      <4> QED BY <3>1, <4>1, Types
    <3>4. spc'[s] = "poll"
      BY <1>1, <2>2
    <3>5. Open(s, n)' <=> \/ \E i \in 1 .. Len(rx[s]) : rx[s][i].type = "msg" /\ rx[s][i].sqn = n
                          \/ Sending(s) /\ n = next - 1
      BY <1>2, <1>4, <3>4 DEF Open
    <3>6. Open(s, n) <=> \/ \E i \in 1 .. Len(rx[s]) : rx[s][i].type = "msg" /\ rx[s][i].sqn = n
                         \/ n = w
                         \/ Sending(s) /\ n = next - 1
      BY <1>1, <3>1 DEF Open
    <3> QED BY <2>2, <3>1, <3>2, <3>3, <3>5, <3>6
  <2> QED BY <2>1, <2>2
<1> QED BY <1>1, <1>2, <1>6, <1>7, TxPostedFlow

\* The sort thread frees a record that is not process-done.
LEMMA SortFreesFlow ==
    ASSUME TypeInv, FlowInv, sort # << >>, tx[sort[1][2]] # << >>, tx[sort[1][2]][1].kind # "done",
           FreeTx, UNCHANGED <<setup, sort, amiVars>>,
           RxOrder', \A t \in Shards : \A n : Open(t, n)' <=> Open(t, n)
    PROVE  FlowInv'
<1>1. PICK s \in Shards : s = sort[1][2]
  BY Types
<1>2. tx' = [tx EXCEPT ![s] = Tail(@)] /\ tx[s] # << >> /\ tx[s][1].kind # "done"
  BY <1>1, FreeTxRing
<1>3. TxOrder' /\ PresentInv'
  BY <1>2, TxFreed DEF FlowInv
<1>4. JobsInv'
  BY JobsFrame DEF FlowInv, amiVars
<1> QED BY <1>3, <1>4 DEF FlowInv

\* Where the rx rings and the shards are left alone, what is open stays open.
LEMMA QuietOpen ==
    ASSUME FlowInv, UNCHANGED <<rx, spc, want, amiVars>>
    PROVE  RxOrder' /\ \A t \in Shards : \A n : Open(t, n)' <=> Open(t, n)
<1>1. \A t \in Shards : Calm(t)
  BY DEF Calm, Sending, InJobs, amiVars
<1> QED BY <1>1, CalmShard DEF FlowInv, RxOrder

\* An output leaves its ring.
LEMMA OnShmTxMessageFlow ==
    ASSUME TypeInv, FlowInv, NEW result \in {"out", "failed"}, OnShmTxMessage(result)
    PROVE  FlowInv'
<1>1. NextRecord("out") /\ FreeTx /\ UNCHANGED <<setup, sort, amiVars, rx, spc, want>>
  BY DEF OnShmTxMessage, shardVars
<1>2. sort # << >> /\ tx[sort[1][2]] # << >> /\ tx[sort[1][2]][1].kind # "done"
  BY <1>1, NextRecordIs
<1> QED BY <1>1, <1>2, QuietOpen, SortFreesFlow

\* A discard record leaves its ring.
LEMMA ProcessMessageDiscardFlow ==
    ASSUME TypeInv, FlowInv, ProcessMessageDiscard PROVE FlowInv'
<1>1. NextRecord("discard") /\ FreeTx /\ UNCHANGED <<setup, sort, amiVars, rx, spc, want>>
  BY DEF ProcessMessageDiscard, shardVars
<1>2. sort # << >> /\ tx[sort[1][2]] # << >> /\ tx[sort[1][2]][1].kind # "done"
  BY <1>1, NextRecordIs
<1> QED BY <1>1, <1>2, QuietOpen, SortFreesFlow

\* A request leaves its ring.
LEMMA OnRequsetFlow == ASSUME TypeInv, FlowInv, OnRequset PROVE FlowInv'
<1>1. NextRecord("req") /\ FreeTx /\ UNCHANGED <<setup, sort, amiVars, rx, spc, want>>
  BY DEF OnRequset, shardVars
<1>2. sort # << >> /\ tx[sort[1][2]] # << >> /\ tx[sort[1][2]][1].kind # "done"
  BY <1>1, NextRecordIs
<1> QED BY <1>1, <1>2, QuietOpen, SortFreesFlow

\* A request leaves its ring, and a post, not a message, enters one.
LEMMA PostResponseFlow == ASSUME TypeInv, FlowInv, PostResponse PROVE FlowInv'
<1>1. /\ postTo \in Shards /\ sort # << >>
      /\ tx[sort[1][2]] # << >> /\ tx[sort[1][2]][1].kind # "done"
  BY PostResponseType
<1>2. /\ rx' = [rx EXCEPT ![postTo] = Append(@, ShardingPost)] /\ FreeTx
      /\ UNCHANGED <<setup, sort, amiVars, spc, want>>
  BY DEF PostResponse, PostRx, shardVars
<1>3. PICK s \in Shards : s = postTo
  BY <1>1
<1>4. ShardingPost \in RxEntry /\ ShardingPost.type # "msg"
  BY RxEntries
<1>5. rx' = [rx EXCEPT ![s] = Append(@, ShardingPost)]
  BY <1>2, <1>3
<1>6. RxOrder' /\ \A t \in Shards : \A n : Open(t, n)' <=> Open(t, n)
  BY <1>2, <1>4, <1>5, RxOther DEF FlowInv
<1> QED BY <1>1, <1>2, <1>6, SortFreesFlow

\* The process-done record leaves together with its message's sort queue element.
LEMMA ProcessMessageDoneFlow == ASSUME TypeInv, FlowInv, ProcessMessageDone PROVE FlowInv'
<1>1. /\ NextRecord("done") /\ FreeTx /\ sort' = Tail(sort)
      /\ UNCHANGED <<setup, amiVars, rx, spc, want>>
  BY DEF ProcessMessageDone, shardVars
<1>2. PICK s \in Shards : s = sort[1][2]
  BY <1>1, NextRecordIs
<1>3. /\ sort # << >> /\ tx[s] # << >> /\ tx[s][1].kind = "done"
      /\ tx' = [tx EXCEPT ![s] = Tail(@)]
  BY <1>1, <1>2, NextRecordIs, FreeTxRing
<1>4. RxOrder' /\ \A t \in Shards : \A n : Open(t, n)' <=> Open(t, n)
  BY <1>1, QuietOpen
<1>5. jobs' = jobs
  BY <1>1 DEF amiVars
<1>6. TxOrder' /\ PresentInv'
  BY <1>1, <1>2, <1>3, <1>4, <1>5, TxFinished
<1>7. JobsInv'
  <2>1. sort \in Seq(Job) /\ Len(jobs) \in Nat /\ Len(sort) <= Len(jobs)
    BY DEF TypeInv, TypeOK, FlowInv, JobsInv
  <2>2. /\ Len(sort) \in Nat /\ Len(sort) >= 1 /\ Len(sort') = Len(sort) - 1
        /\ \A i \in 1 .. Len(sort) - 1 : sort'[i] = sort[i + 1]
    BY <1>1, <1>3, <2>1, HeadTail
  <2>3. ASSUME NEW i \in 1 .. Len(sort') PROVE sort'[i] = jobs[Len(jobs) - Len(sort') + i]
    <3>1. /\ i + 1 \in 1 .. Len(sort) /\ sort'[i] = sort[i + 1]
          /\ Len(jobs) - Len(sort') + i = Len(jobs) - Len(sort) + (i + 1)
      BY <2>1, <2>2
    <3> QED BY <3>1 DEF FlowInv, JobsInv
  <2>4. Len(sort') <= Len(jobs)
    BY <2>1, <2>2
  <2>5. UNCHANGED <<next, amiPc, amiTodo, jobs>>
    BY <1>1 DEF amiVars
  <2> QED BY <2>3, <2>4, <2>5 DEF FlowInv, JobsInv
<1> QED BY <1>4, <1>6, <1>7 DEF FlowInv

-----------------------------------------------------------------------------
(* Outputs: none is lost or made on its way, and a message's are out when  *)
(* it is reported done.                                                    *)

OutputPart == CountInv /\ DoneInv /\ DoneAfterOutputs

\* The counts are numbers.
LEMMA CountTypes ==
    ASSUME TypeInv, NEW j \in Job
    PROVE  /\ Count(log, OutReports(j)) \in Nat /\ Count(tx[j[2]], OutRecords(j)) \in Nat
           /\ made[j] \in Nat /\ j[1] \in 1 .. MaxSqn /\ j[2] \in Shards
<1>1. j[1] \in 1 .. MaxSqn /\ j[2] \in Shards
  BY Jobs
<1>2. log \in Seq({"out", "failed", "discard", "done"} \X Job) /\ tx[j[2]] \in Seq(TxEntry) /\ made[j] \in Nat
  BY <1>1, Types DEF TypeInv, FlowTypes
<1> QED BY <1>1, <1>2, CountBasics

\* Steps that make, move and report no output.
LEMMA OutputFrame ==
    ASSUME OutputPart, UNCHANGED <<log, tx, want, made, jobs, sort>> PROVE OutputPart'
<1>1. CountInv'
  BY DEF OutputPart, CountInv
<1>2. DoneInv'
  BY DEF OutputPart, DoneInv
<1>3. DoneAfterOutputs'
  BY DEF OutputPart, DoneAfterOutputs, Outputs
<1> QED BY <1>1, <1>2, <1>3 DEF OutputPart

\* A job reported done is not pending.
LEMMA DoneNotPending ==
    ASSUME TypeInv, FlowInv, DoneInv, NEW k \in 1 .. Len(log), log[k][1] = "done"
    PROVE  /\ log[k][2] \in Job
           /\ \A s \in Shards : \A n : InSort(s, n) => log[k][2] # <<n, s>>
<1>1. /\ sort \in Seq(Job) /\ jobs \in Seq(Job) /\ Len(sort) \in Nat /\ Len(jobs) \in Nat
      /\ Len(sort) <= Len(jobs)
  BY DEF TypeInv, TypeOK, FlowInv, JobsInv
<1>2. PICK i \in 1 .. Len(jobs) - Len(sort) : jobs[i] = log[k][2]
  BY DEF DoneInv
<1>3. i \in 1 .. Len(jobs)
  BY <1>1
<1>4. log[k][2] \in Job
  BY <1>1, <1>2, <1>3
<1>5. ASSUME NEW s \in Shards, NEW n, InSort(s, n) PROVE log[k][2] # <<n, s>>
  <2>1. PICK a \in 1 .. Len(sort) : sort[a] = <<n, s>>
    BY <1>5 DEF InSort
  <2>2. Len(jobs) - Len(sort) + a \in 1 .. Len(jobs) /\ i < Len(jobs) - Len(sort) + a
    BY <1>1
  <2>3. jobs[Len(jobs) - Len(sort) + a] = <<n, s>>
    BY <2>1 DEF FlowInv, JobsInv
  <2>4. jobs[i] # jobs[Len(jobs) - Len(sort) + a]
    BY <1>3, <2>2 DEF FlowInv, JobsInv
  <2> QED BY <1>2, <2>3, <2>4
<1> QED BY <1>4, <1>5

\* A message that is still open is not among the ones reported done.
LEMMA OpenNotDone ==
    ASSUME TypeInv, FlowInv, DoneInv, NEW s \in Shards, NEW n \in 1 .. MaxSqn, Open(s, n),
           NEW k \in 1 .. Len(log), log[k][1] = "done"
    PROVE  log[k][2] # <<n, s>>
<1>1. InSort(s, n)
  BY DEF FlowInv, PresentInv
<1> QED BY <1>1, DoneNotPending

\* Reports that are out stay as they are while the log and what was done keep.
LEMMA DoneKept ==
    ASSUME TypeInv, DoneAfterOutputs, log' = log,
           \A k \in 1 .. Len(log) : log[k][1] = "done" => made'[log[k][2]] = made[log[k][2]]
    PROVE  DoneAfterOutputs'
BY DEF DoneAfterOutputs, Outputs

\* PushSort lengthens the queue and the jobs alike.
LEMMA PushSortOutput == ASSUME TypeInv, FlowInv, OutputPart, PushSort PROVE OutputPart'
<1>1. PICK e \in Job : sort' = Append(sort, e) /\ jobs' = Append(jobs, e)
  BY PushSortType
<1>2. UNCHANGED <<log, tx, want, made>>
  BY DEF PushSort, shardVars, actorVars
<1>3. /\ sort \in Seq(Job) /\ jobs \in Seq(Job)
  BY DEF TypeInv, TypeOK
<1>4. Len(sort) \in Nat /\ Len(sort') = Len(sort) + 1
  BY <1>1, <1>3, AddLast
<1>5. Len(jobs) \in Nat /\ Len(jobs') = Len(jobs) + 1 /\ \A i \in 1 .. Len(jobs) : jobs'[i] = jobs[i]
  BY <1>1, <1>3, AddLast
<1>6. CountInv'
  BY <1>2 DEF OutputPart, CountInv
<1>7. DoneInv'
  <2>1. ASSUME NEW k \in 1 .. Len(log), log[k][1] = "done"
        PROVE  \E i \in 1 .. Len(jobs') - Len(sort') : jobs'[i] = log[k][2]
    <3>1. PICK i \in 1 .. Len(jobs) - Len(sort) : jobs[i] = log[k][2]
      BY <2>1 DEF OutputPart, DoneInv
    <3>2. i \in 1 .. Len(jobs') - Len(sort') /\ i \in 1 .. Len(jobs)
      BY <1>4, <1>5
    <3> QED BY <1>5, <3>1, <3>2
  <2> QED BY <1>2, <2>1 DEF DoneInv
<1>8. DoneAfterOutputs'
  BY <1>2 DEF OutputPart, DoneAfterOutputs, Outputs
<1> QED BY <1>6, <1>7, <1>8 DEF OutputPart

\* A shard's step that takes record w in hand, having none, and makes an output if w is one.
LEMMA WantOutput ==
    ASSUME TypeInv, FlowInv, OutputPart, NEW s \in Shards, NEW w, want[s] = NoRecord, want'[s] = w,
           \A t \in Shards : t # s => want'[t] = want[t], UNCHANGED <<log, tx, jobs, sort>>,
           \A j \in Job : made'[j] = made[j] + (IF j[2] = s /\ w \in OutRecords(j) THEN 1 ELSE 0),
           \A j \in Job : j[2] = s /\ w \in OutRecords(j) => Open(s, j[1])
    PROVE  OutputPart'
<1>1. CountInv'
  <2>1. ASSUME NEW j \in Job
        PROVE  made'[j] = Count(log, OutReports(j)) + Count(tx[j[2]], OutRecords(j))
                          + (IF want'[j[2]] \in OutRecords(j) THEN 1 ELSE 0)
    <3>1. made[j] = Count(log, OutReports(j)) + Count(tx[j[2]], OutRecords(j))
                    + (IF want[j[2]] \in OutRecords(j) THEN 1 ELSE 0)
      BY DEF OutputPart, CountInv
    <3>2. NoRecord \notin OutRecords(j)
      BY TxEntries DEF OutRecords
    <3>3. /\ Count(log, OutReports(j)) \in Nat /\ Count(tx[j[2]], OutRecords(j)) \in Nat
          /\ made[j] \in Nat /\ j[2] \in Shards
      BY CountTypes
    <3>4. CASE j[2] = s
      BY <3>1, <3>2, <3>3, <3>4
    <3>5. CASE j[2] # s
      BY <3>1, <3>3, <3>5
    <3> QED BY <3>4, <3>5
  <2> QED BY <2>1 DEF CountInv
<1>2. DoneInv'
  BY DEF OutputPart, DoneInv
<1>3. ASSUME NEW k \in 1 .. Len(log), log[k][1] = "done" PROVE made'[log[k][2]] = made[log[k][2]]
  <2>1. PICK j \in Job : j = log[k][2]
    BY <1>3, DoneNotPending DEF OutputPart
  <2>2. j[1] \in 1 .. MaxSqn /\ j = <<j[1], j[2]>> /\ made[j] \in Nat
    BY Jobs, CountTypes
  <2>3. ~(j[2] = s /\ w \in OutRecords(j))
    BY <1>3, <2>1, <2>2, OpenNotDone DEF OutputPart
  <2> QED BY <2>1, <2>2, <2>3
<1>4. DoneAfterOutputs'
  BY <1>3, DoneKept DEF OutputPart
<1> QED BY <1>1, <1>2, <1>4 DEF OutputPart

\* Which outputs a record is.
LEMMA OutRecordOf ==
    ASSUME NEW j \in Job, NEW kind, NEW n
    PROVE  TxRecord(kind, n) \in OutRecords(j) <=> kind \in {"out", "discard"} /\ n = j[1]
<1>1. \A a, b : TxRecord(kind, n) = TxRecord(a, b) <=> kind = a /\ n = b
  BY DEF TxRecord
<1> QED BY <1>1 DEF OutRecords

\* SendMsg makes an output of the message being handled, which is open.
LEMMA CallOutput ==
    ASSUME TypeInv, FlowInv, OutputPart, NEW s \in Shards, NEW kind \in {"out", "req"}, Call(s, kind)
    PROVE  OutputPart'
<1>1. PICK w : w = TxRecord(kind, rx[s][1].sqn)
  OBVIOUS
<1>2. /\ spc[s] = "app" /\ want'[s] = w /\ rx[s] # << >> /\ rx[s][1] \in RxEntry /\ want[s] = NoRecord
      /\ \A t \in Shards : t # s => want'[t] = want[t]
      /\ made' = [j \in Job |-> IF kind = "out" /\ j = <<rx[s][1].sqn, s>>
                                THEN made[j] + 1 ELSE made[j]]
  BY <1>1, CallType
<1>3. UNCHANGED <<log, tx, jobs, sort>>
  BY DEF Call, Want, amiVars, actorVars
<1>4. ASSUME NEW j \in Job
      PROVE  /\ made'[j] = made[j] + (IF j[2] = s /\ w \in OutRecords(j) THEN 1 ELSE 0)
             /\ j[2] = s /\ w \in OutRecords(j) => Open(s, j[1])
  <2>1. w \in OutRecords(j) <=> kind = "out" /\ rx[s][1].sqn = j[1]
    BY <1>1, OutRecordOf
  <2>2. j = <<rx[s][1].sqn, s>> <=> rx[s][1].sqn = j[1] /\ s = j[2]
    BY Jobs
  <2>3. made[j] \in Nat /\ j[1] \in 1 .. MaxSqn
    BY CountTypes
  <2>4. made'[j] = made[j] + (IF j[2] = s /\ w \in OutRecords(j) THEN 1 ELSE 0)
    BY <1>2, <2>1, <2>2, <2>3
  <2>5. ASSUME rx[s][1].sqn = j[1] PROVE Open(s, j[1])
    <3>1. rx[s][1].type = "msg"
      BY <1>2, <2>3, <2>5, RxEntries, Jobs
    <3>2. 1 \in 1 .. Len(rx[s])
      BY <1>2, Types, HeadTail
    <3> QED BY <1>2, <2>5, <3>1, <3>2 DEF Open
  <2> QED BY <2>1, <2>4, <2>5
<1> QED BY <1>2, <1>3, <1>4, WantOutput

\* A process-done record is no output.
LEMMA CallbackReturnsOutput ==
    ASSUME TypeInv, FlowInv, OutputPart, NEW s \in Shards, CallbackReturns(s) PROVE OutputPart'
<1>1. PICK w : w = want'[s]
  OBVIOUS
<1>2. /\ want[s] = NoRecord /\ \A t \in Shards : t # s => want'[t] = want[t]
      /\ w = TxRecord("done", rx[s][1].sqn) \/ w = NoRecord
      /\ UNCHANGED <<log, tx, jobs, sort, made>>
  BY <1>1, CallbackReturnsType DEF amiVars, actorVars
<1>3. ASSUME NEW j \in Job PROVE w \notin OutRecords(j) /\ made[j] \in Nat
  BY <1>2, CountTypes, OutRecordOf DEF NoRecord
<1>4. \A j \in Job : made'[j] = made[j] + (IF j[2] = s /\ w \in OutRecords(j) THEN 1 ELSE 0)
  BY <1>2, <1>3
<1> QED BY <1>1, <1>2, <1>3, <1>4, WantOutput

\* The discard record is an output of a message that is open.
LEMMA SkipMessageOutput ==
    ASSUME TypeInv, FlowInv, OutputPart, NEW s \in Shards, SkipMessage(s) PROVE OutputPart'
<1>0. PICK n \in 1 .. MaxSqn : n = rx[s][1].sqn
  BY SkipMessageType
<1>1. PICK w : w = TxRecord("discard", n)
  OBVIOUS
<1>2. /\ spc[s] = "poll" /\ want'[s] = w /\ rx[s] # << >> /\ rx[s][1].type = "msg"
      /\ want[s] = NoRecord /\ \A t \in Shards : t # s => want'[t] = want[t]
      /\ made' = [made EXCEPT ![<<n, s>>] = @ + 1]
  BY <1>0, <1>1, SkipMessageType
<1>3. UNCHANGED <<log, tx, jobs, sort>>
  BY DEF SkipMessage, amiVars, actorVars
<1>4. Open(s, n)
  <2>1. 1 \in 1 .. Len(rx[s])
    BY <1>2, Types, HeadTail
  <2> QED BY <1>0, <1>2, <2>1 DEF Open
<1>5. PICK e \in Job : e = <<n, s>>
  BY <1>0, Jobs
<1>6. ASSUME NEW j \in Job
      PROVE  /\ made'[j] = made[j] + (IF j[2] = s /\ w \in OutRecords(j) THEN 1 ELSE 0)
             /\ j[2] = s /\ w \in OutRecords(j) => Open(s, j[1])
  <2>1. w \in OutRecords(j) <=> n = j[1]
    BY <1>1, OutRecordOf
  <2>2. j = e <=> n = j[1] /\ s = j[2]
    BY <1>5, Jobs
  <2>3. made[j] \in Nat /\ made \in [Job -> Nat]
    BY CountTypes DEF TypeInv, FlowTypes
  <2>4. made'[j] = IF j = e THEN made[j] + 1 ELSE made[j]
    BY <1>2, <1>5, <2>3
  <2> QED BY <1>4, <2>1, <2>2, <2>3, <2>4
<1> QED BY <1>2, <1>3, <1>6, WantOutput

\* A record in hand is posted: it is counted in the ring now.
LEMMA PostedOutput ==
    ASSUME TypeInv, OutputPart, NEW s \in Shards, tx' = [tx EXCEPT ![s] = Append(@, want[s])],
           \A t \in Shards : t # s => want'[t] = want[t], UNCHANGED <<log, made, jobs, sort>>,
           \A j \in Job : want'[s] \notin OutRecords(j)
    PROVE  OutputPart'
<1>1. tx \in [Shards -> Seq(TxEntry)] /\ tx[s] \in Seq(TxEntry) /\ want[s] \in TxEntry
  BY Types DEF TypeInv, FlowTypes
<1>2. tx'[s] = Append(tx[s], want[s]) /\ \A t \in Shards : t # s => tx'[t] = tx[t]
  BY <1>1
<1>3. ASSUME NEW j \in Job
      PROVE  made[j] = Count(log, OutReports(j)) + Count(tx'[j[2]], OutRecords(j))
                       + (IF want'[j[2]] \in OutRecords(j) THEN 1 ELSE 0)
  <2>1. made[j] = Count(log, OutReports(j)) + Count(tx[j[2]], OutRecords(j))
                  + (IF want[j[2]] \in OutRecords(j) THEN 1 ELSE 0)
    BY DEF OutputPart, CountInv
  <2>2. /\ Count(log, OutReports(j)) \in Nat /\ Count(tx[j[2]], OutRecords(j)) \in Nat
        /\ made[j] \in Nat /\ j[2] \in Shards
    BY CountTypes
  <2>3. CASE j[2] = s
    <3>1. Count(tx'[s], OutRecords(j))
              = Count(tx[s], OutRecords(j)) + (IF want[s] \in OutRecords(j) THEN 1 ELSE 0)
      BY <1>1, <1>2, CountAppend
    <3> QED BY <2>1, <2>2, <2>3, <3>1
  <2>4. CASE j[2] # s
    BY <1>2, <2>1, <2>2, <2>4
  <2> QED BY <2>3, <2>4
<1>4. CountInv'
  BY <1>3 DEF CountInv
<1>5. DoneInv' /\ DoneAfterOutputs'
  BY DEF OutputPart, DoneInv, DoneAfterOutputs, Outputs
<1> QED BY <1>4, <1>5 DEF OutputPart

\* The output goes from hand to ring.
LEMMA PostTxOutput ==
    ASSUME TypeInv, OutputPart, NEW s \in Shards, PostTx(s) PROVE OutputPart'
<1>1. want'[s] = NoRecord /\ \A t \in Shards : t # s => want'[t] = want[t]
  BY PostTxType
<1>2. \A j \in Job : want'[s] \notin OutRecords(j)
  BY <1>1, OutRecordOf DEF NoRecord
<1>3. tx' = [tx EXCEPT ![s] = Append(@, want[s])] /\ UNCHANGED <<log, made, jobs, sort>>
  BY DEF PostTx, amiVars, actorVars
<1> QED BY <1>1, <1>2, <1>3, PostedOutput

\* The discard record goes from hand to ring.
LEMMA PostSkipOutput ==
    ASSUME TypeInv, OutputPart, NEW s \in Shards, PostSkip(s) PROVE OutputPart'
<1>1. /\ want'[s] = NoRecord \/ want'[s] = TxRecord("done", want[s].sqn)
      /\ \A t \in Shards : t # s => want'[t] = want[t]
  BY PostSkipType
<1>2. \A j \in Job : want'[s] \notin OutRecords(j)
  BY <1>1, OutRecordOf DEF NoRecord
<1>3. tx' = [tx EXCEPT ![s] = Append(@, want[s])] /\ UNCHANGED <<log, made, jobs, sort>>
  BY DEF PostSkip, amiVars, actorVars
<1> QED BY <1>1, <1>2, <1>3, PostedOutput

\* What a freed record takes off the counts.
LEMMA FreedCount ==
    ASSUME TypeInv, NEW s \in Shards, tx[s] # << >>, tx' = [tx EXCEPT ![s] = Tail(@)], NEW j \in Job
    PROVE  /\ j[2] # s => tx'[j[2]] = tx[j[2]]
           /\ j[2] = s => Count(tx[s], OutRecords(j)) = Count(tx'[s], OutRecords(j))
                                                 + (IF tx[s][1] \in OutRecords(j) THEN 1 ELSE 0)
           /\ Count(tx'[j[2]], OutRecords(j)) \in Nat
<1>1. tx \in [Shards -> Seq(TxEntry)] /\ tx[s] \in Seq(TxEntry)
  BY Types DEF TypeInv, FlowTypes
<1>2. /\ tx' \in [Shards -> Seq(TxEntry)] /\ \A t \in Shards : t # s => tx'[t] = tx[t]
      /\ tx'[s] = Tail(tx[s])
  BY <1>1, FreedRing
<1>3. j[2] \in Shards
  BY Jobs
<1>4. tx'[j[2]] \in Seq(TxEntry)
  BY <1>2, <1>3
<1>5. Count(tx'[j[2]], OutRecords(j)) \in Nat
  BY <1>4, CountBasics
<1>6. Count(tx[s], OutRecords(j)) = Count(Tail(tx[s]), OutRecords(j))
                                    + (IF tx[s][1] \in OutRecords(j) THEN 1 ELSE 0)
  BY <1>1, CountTail
<1> QED BY <1>2, <1>3, <1>5, <1>6

\* A record that is no output of a message is freed.
LEMMA FreedOutput ==
    ASSUME TypeInv, OutputPart, NEW s \in Shards, tx[s] # << >>, tx' = [tx EXCEPT ![s] = Tail(@)],
           UNCHANGED <<log, want, made, jobs, sort>>, \A j \in Job : tx[s][1] \notin OutRecords(j)
    PROVE  OutputPart'
<1>1. ASSUME NEW j \in Job PROVE Count(tx'[j[2]], OutRecords(j)) = Count(tx[j[2]], OutRecords(j))
  <2>1. CASE j[2] = s
    <3>1. Count(tx[s], OutRecords(j)) = Count(tx'[s], OutRecords(j)) + 0
      BY <2>1, FreedCount
    <3>2. Count(tx'[s], OutRecords(j)) \in Nat
      BY <2>1, FreedCount
    <3> QED BY <2>1, <3>1, <3>2
  <2>2. CASE j[2] # s
    BY <2>2, FreedCount
  <2> QED BY <2>1, <2>2
<1>2. CountInv'
  BY <1>1 DEF OutputPart, CountInv
<1>3. DoneInv' /\ DoneAfterOutputs'
  BY DEF OutputPart, DoneInv, DoneAfterOutputs, Outputs
<1> QED BY <1>2, <1>3 DEF OutputPart

\* A request is no output.
LEMMA OnRequsetOutput == ASSUME TypeInv, OutputPart, OnRequset PROVE OutputPart'
<1>1. NextRecord("req") /\ FreeTx /\ setup' = setup /\ UNCHANGED <<log, want, made, jobs, sort>>
  BY DEF OnRequset, shardVars, amiVars, actorVars
<1>2. PICK s \in Shards : s = sort[1][2]
  BY <1>1, NextRecordIs
<1>3. /\ sort # << >> /\ tx[s] # << >> /\ tx[s][1].kind = "req" /\ tx[s][1] \in TxEntry
      /\ tx' = [tx EXCEPT ![s] = Tail(@)]
  BY <1>1, <1>2, NextRecordIs, FreeTxRing
<1>4. \A j \in Job : tx[s][1] \notin OutRecords(j)
  BY <1>3, TxEntries, OutRecordOf
<1> QED BY <1>1, <1>3, <1>4, FreedOutput

\* Nor is the one PostTo has answered.
LEMMA PostResponseOutput == ASSUME TypeInv, OutputPart, PostResponse PROVE OutputPart'
<1>1. FreeTx /\ setup' = setup /\ UNCHANGED <<log, want, made, jobs, sort>>
  BY DEF PostResponse, shardVars, amiVars
<1>2. PICK s \in Shards : s = sort[1][2]
  BY PostResponseType
<1>3. /\ sort # << >> /\ tx[s] # << >> /\ tx[s][1].kind = "req" /\ tx[s][1] \in TxEntry
      /\ tx' = [tx EXCEPT ![s] = Tail(@)]
  BY <1>1, <1>2, PostResponseType, FreeTxRing, Types
<1>4. \A j \in Job : tx[s][1] \notin OutRecords(j)
  BY <1>3, TxEntries, OutRecordOf
<1> QED BY <1>1, <1>3, <1>4, FreedOutput

\* The sort thread reports the record it frees.
LEMMA ReportCount ==
    ASSUME TypeInv, CountInv, NEW s \in Shards, tx[s] # << >>, tx' = [tx EXCEPT ![s] = Tail(@)],
           NEW kind \in {"out", "discard", "done"}, NEW e \in Job, tx[s][1].kind = kind,
           NEW result \in {"out", "failed", "discard", "done"}, result = "done" <=> kind = "done",
           e = <<tx[s][1].sqn, s>>, log' = Append(log, <<result, e>>), UNCHANGED <<want, made>>
    PROVE  CountInv'
<1>1. ASSUME NEW j \in Job
      PROVE  made[j] = Count(log', OutReports(j)) + Count(tx'[j[2]], OutRecords(j))
                       + (IF want[j[2]] \in OutRecords(j) THEN 1 ELSE 0)
  <2>1. made[j] = Count(log, OutReports(j)) + Count(tx[j[2]], OutRecords(j))
                  + (IF want[j[2]] \in OutRecords(j) THEN 1 ELSE 0)
    BY DEF CountInv
  <2>2. /\ Count(log, OutReports(j)) \in Nat /\ Count(tx[j[2]], OutRecords(j)) \in Nat
        /\ made[j] \in Nat /\ j[2] \in Shards
    BY CountTypes
  <2>3. /\ log \in Seq({"out", "failed", "discard", "done"} \X Job)
        /\ <<result, e>> \in {"out", "failed", "discard", "done"} \X Job
    BY DEF TypeInv, FlowTypes
  <2>4. Count(log', OutReports(j))
            = Count(log, OutReports(j)) + (IF <<result, e>> \in OutReports(j) THEN 1 ELSE 0)
    <3>1. PICK E : E = {"out", "failed", "discard", "done"} \X Job
      OBVIOUS
    <3>2. PICK r : r = <<result, e>> /\ r \in E /\ log \in Seq(E)
      BY <2>3, <3>1
    <3>3. Count(Append(log, r), OutReports(j))
              = Count(log, OutReports(j)) + (IF r \in OutReports(j) THEN 1 ELSE 0)
      BY <3>2, CountAppend
    <3> QED BY <3>2, <3>3
  <2>5. <<result, e>> \in OutReports(j) <=> result # "done" /\ e = j
    BY DEF OutReports
  <2>6. e[1] = tx[s][1].sqn /\ e[2] = s /\ (e = j <=> e[1] = j[1] /\ e[2] = j[2])
    BY Jobs
  <2>7. tx[s][1] = TxRecord(kind, tx[s][1].sqn)
    BY Types, TxEntries
  <2>8. tx[s][1] \in OutRecords(j) <=> kind # "done" /\ tx[s][1].sqn = j[1]
    BY <2>7, OutRecordOf
  <2>9. CASE j[2] = s
    <3>1. /\ Count(tx[s], OutRecords(j))
                = Count(tx'[s], OutRecords(j)) + (IF tx[s][1] \in OutRecords(j) THEN 1 ELSE 0)
          /\ Count(tx'[s], OutRecords(j)) \in Nat
      BY <2>9, FreedCount
    <3>2. <<result, e>> \in OutReports(j) <=> tx[s][1] \in OutRecords(j)
      BY <2>5, <2>6, <2>8, <2>9
    <3> QED BY <2>1, <2>2, <2>4, <2>9, <3>1, <3>2
  <2>10. CASE j[2] # s
    <3>1. tx'[j[2]] = tx[j[2]]
      BY <2>10, FreedCount
    <3>2. <<result, e>> \notin OutReports(j)
      BY <2>5, <2>6, <2>10
    <3> QED BY <2>1, <2>2, <2>4, <3>1, <3>2
  <2> QED BY <2>9, <2>10
<1> QED BY <1>1 DEF CountInv

\* Earlier reports keep their place in the log.
LEMMA EarlierReports ==
    ASSUME TypeInv, DoneAfterOutputs, NEW r \in {"out", "failed", "discard", "done"} \X Job,
           log' = Append(log, r), made' = made
    PROVE  /\ Len(log) \in Nat /\ Len(log') = Len(log) + 1 /\ log'[Len(log) + 1] = r
           /\ \A i \in 1 .. Len(log) : log'[i] = log[i]
           /\ \A k \in 1 .. Len(log) : log'[k][1] = "done" =>
                  \A j : j = log'[k][2] => Outputs(j, k)' = made'[j]
<1>1. log \in Seq({"out", "failed", "discard", "done"} \X Job)
  BY DEF TypeInv, FlowTypes
<1>2. /\ Len(log) \in Nat /\ Len(log') = Len(log) + 1 /\ log'[Len(log) + 1] = r
      /\ \A i \in 1 .. Len(log) : log'[i] = log[i]
  BY <1>1, AddLast
<1>3. ASSUME NEW k \in 1 .. Len(log), log'[k][1] = "done", NEW j, j = log'[k][2]
      PROVE  Outputs(j, k)' = made'[j]
  <2>1. j = log[k][2]
    BY <1>2, <1>3
  <2>2. Outputs(j, k) = made[j]
    BY <1>2, <1>3, <2>1 DEF DoneAfterOutputs
  <2>3. \A i \in 1 .. k : i \in 1 .. Len(log)
    BY <1>2
  <2>4. {i \in 1 .. k : log'[i][1] # "done" /\ log'[i][2] = j}
            = {i \in 1 .. k : log[i][1] # "done" /\ log[i][2] = j}
    BY <1>2, <2>3
  <2>5. Cardinality({i \in 1 .. k : log'[i][1] # "done" /\ log'[i][2] = j}) = made[j]
    BY <2>2, <2>4 DEF Outputs
  <2> QED BY <2>5 DEF Outputs
<1> QED BY <1>2, <1>3

\* An output, or the report of a discarded message, leaves.
LEMMA EmitOutput ==
    ASSUME TypeInv, OutputPart, NEW s \in Shards, tx[s] # << >>, tx' = [tx EXCEPT ![s] = Tail(@)],
           NEW kind \in {"out", "discard"}, NEW e \in Job, tx[s][1].kind = kind,
           NEW result \in {"out", "failed", "discard"},
           e = <<tx[s][1].sqn, s>>, log' = Append(log, <<result, e>>),
           UNCHANGED <<want, made, jobs, sort>>
    PROVE  OutputPart'
<1>1. PICK r \in {"out", "failed", "discard", "done"} \X Job : r = <<result, e>>
  OBVIOUS
<1>2. /\ Len(log) \in Nat /\ Len(log') = Len(log) + 1 /\ log'[Len(log) + 1] = r
      /\ \A i \in 1 .. Len(log) : log'[i] = log[i]
      /\ \A k \in 1 .. Len(log) : log'[k][1] = "done" =>
             \A j : j = log'[k][2] => Outputs(j, k)' = made'[j]
  BY <1>1, EarlierReports DEF OutputPart
<1>3. r[1] # "done"
  BY <1>1
<1>4. \A k \in 1 .. Len(log') : log'[k][1] = "done" => k \in 1 .. Len(log)
  BY <1>2, <1>3, LastIndex
<1>5. CountInv'
  BY ReportCount DEF OutputPart
<1>6. DoneInv'
  <2>1. \A k \in 1 .. Len(log') : log'[k][1] = "done" =>
            \E i \in 1 .. Len(jobs) - Len(sort) : jobs[i] = log'[k][2]
    BY <1>2, <1>4 DEF OutputPart, DoneInv
  <2> QED BY <2>1 DEF DoneInv
<1>7. DoneAfterOutputs'
  BY <1>2, <1>4 DEF DoneAfterOutputs
<1> QED BY <1>5, <1>6, <1>7 DEF OutputPart

\* A message's output goes from ring to log; one of an event's callback is not counted.
LEMMA OnShmTxMessageOutput ==
    ASSUME TypeInv, OutputPart, NEW result \in {"out", "failed"}, OnShmTxMessage(result)
    PROVE  OutputPart'
<1>1. /\ NextRecord("out") /\ FreeTx /\ setup' = setup /\ UNCHANGED <<want, made, jobs, sort>>
      /\ log' = IF Head(tx[Head(sort)[2]]).sqn > 0 THEN Append(log, Record(result, Head(sort)[2])) ELSE log
  BY DEF OnShmTxMessage, LogOutput, shardVars, amiVars
<1>2. PICK s \in Shards : s = sort[1][2]
  BY <1>1, NextRecordIs
<1>3. /\ sort # << >> /\ tx[s] # << >> /\ tx[s][1].kind = "out" /\ tx[s][1] \in TxEntry
      /\ tx' = [tx EXCEPT ![s] = Tail(@)]
      /\ log' = IF tx[s][1].sqn > 0 THEN Append(log, <<result, <<tx[s][1].sqn, s>>>>) ELSE log
  BY <1>1, <1>2, NextRecordIs, FreeTxRing
<1>4. CASE tx[s][1].sqn > 0
  <2>1. PICK e \in Job : e = <<tx[s][1].sqn, s>>
    BY <1>3, <1>4, TxNumbers, Jobs
  <2>2. log' = Append(log, <<result, e>>)
    BY <1>3, <1>4, <2>1
  <2> QED BY <1>1, <1>3, <2>1, <2>2, EmitOutput
<1>5. CASE ~(tx[s][1].sqn > 0)
  <2>1. \A j \in Job : tx[s][1].sqn # j[1]
    BY <1>5, Jobs
  <2>2. \A j \in Job : tx[s][1] \notin OutRecords(j)
    BY <1>3, <2>1, TxEntries, OutRecordOf
  <2>3. log' = log
    BY <1>3, <1>5
  <2> QED BY <1>1, <1>3, <2>2, <2>3, FreedOutput
<1> QED BY <1>4, <1>5

\* The discard record goes from ring to log.
LEMMA ProcessMessageDiscardOutput == ASSUME TypeInv, OutputPart, ProcessMessageDiscard PROVE OutputPart'
<1>1. /\ NextRecord("discard") /\ FreeTx /\ setup' = setup /\ UNCHANGED <<want, made, jobs, sort>>
      /\ log' = Append(log, Record("discard", Head(sort)[2]))
  BY DEF ProcessMessageDiscard, shardVars, amiVars
<1>2. PICK s \in Shards : s = sort[1][2]
  BY <1>1, NextRecordIs
<1>3. /\ sort # << >> /\ tx[s] # << >> /\ tx[s][1].kind = "discard" /\ tx[s][1] \in TxEntry
      /\ tx' = [tx EXCEPT ![s] = Tail(@)] /\ log' = Append(log, <<"discard", <<tx[s][1].sqn, s>>>>)
  BY <1>1, <1>2, NextRecordIs, FreeTxRing
<1>4. PICK e \in Job : e = <<tx[s][1].sqn, s>>
  BY <1>3, TxNumbers, Jobs
<1>5. log' = Append(log, <<"discard", e>>)
  BY <1>3, <1>4
<1> QED BY <1>1, <1>3, <1>4, <1>5, EmitOutput

\* When a process-done record comes first, its message has no output in the
\* ring or in its shard's hand.
LEMMA NothingBehindDone ==
    ASSUME TypeInv, FlowInv, NEW s \in Shards, tx[s] # << >>, tx[s][1].kind = "done",
           NEW e \in Job, e = <<tx[s][1].sqn, s>>
    PROVE  Count(tx[s], OutRecords(e)) = 0 /\ want[s] \notin OutRecords(e)
<1>1. /\ tx[s] \in Seq(TxEntry) /\ tx[s][1] \in TxEntry /\ want[s] \in TxEntry
      /\ \A i \in 1 .. Len(tx[s]) : tx[s][i] \in TxEntry
  BY Types
<1>2. Len(tx[s]) \in Nat /\ Len(tx[s]) >= 1 /\ 1 \in 1 .. Len(tx[s])
  BY <1>1, HeadTail
<1>3. e[1] = tx[s][1].sqn /\ e[1] \in 1 .. MaxSqn /\ tx[s][1].sqn > 0
  BY <1>1, Jobs, TxNumbers
<1>4. \A q \in TxEntry : q \in OutRecords(e) => q.kind # "done" /\ q.sqn = e[1]
  BY TxEntries, OutRecordOf
<1>5. ASSUME NEW i \in 1 .. Len(tx[s]) PROVE tx[s][i] \notin OutRecords(e)
  <2>1. CASE i = 1
    BY <1>1, <1>4, <2>1
  <2>2. CASE i # 1
    <3>1. 1 < i
      BY <2>2
    <3>2. tx[s][i].sqn > 0 => tx[s][1].sqn # tx[s][i].sqn
      BY <1>2, <1>3, <3>1 DEF FlowInv, TxOrder
    <3> QED BY <1>1, <1>3, <1>4, <3>2
  <2> QED BY <2>1, <2>2
<1>6. Count(tx[s], OutRecords(e)) = 0
  BY <1>1, <1>5, CountBasics
<1>7. ASSUME want[s] \in OutRecords(e) PROVE FALSE
  <2>1. want[s].sqn = e[1] /\ want[s].sqn > 0
    BY <1>1, <1>3, <1>4, <1>7
  <2>2. spc[s] \in {"alloc", "skip"}
    BY <2>1, TxEntries DEF TypeInv, ShardInv, ShardOK
  <2>3. Open(s, e[1])
    BY <2>1, <2>2, FirstInHand
  <2>4. tx[s][1].sqn # e[1]
    BY <1>2, <1>3, <2>3 DEF FlowInv, TxOrder
  <2> QED BY <1>3, <2>4
<1> QED BY <1>6, <1>7

\* When the process-done record goes out, all the message's outputs are in the log.
LEMMA ProcessMessageDoneOutput ==
    ASSUME TypeInv, FlowInv, OutputPart, ProcessMessageDone PROVE OutputPart'
<1>1. /\ NextRecord("done") /\ FreeTx /\ setup' = setup /\ UNCHANGED <<want, made, jobs>>
      /\ log' = Append(log, Record("done", Head(sort)[2])) /\ sort' = Tail(sort)
  BY DEF ProcessMessageDone, shardVars, amiVars
<1>2. PICK s \in Shards : s = sort[1][2]
  BY <1>1, NextRecordIs
<1>3. /\ sort # << >> /\ tx[s] # << >> /\ tx[s][1].kind = "done" /\ tx[s][1] \in TxEntry
      /\ tx' = [tx EXCEPT ![s] = Tail(@)] /\ log' = Append(log, <<"done", <<tx[s][1].sqn, s>>>>)
  BY <1>1, <1>2, NextRecordIs, FreeTxRing
<1>4. PICK e \in Job : e = <<tx[s][1].sqn, s>>
  BY <1>3, TxNumbers, Jobs
<1>5. PICK r \in {"out", "failed", "discard", "done"} \X Job : r = <<"done", e>>
  OBVIOUS
<1>6. log' = Append(log, r)
  BY <1>3, <1>4, <1>5
<1>7. /\ Len(log) \in Nat /\ Len(log') = Len(log) + 1 /\ log'[Len(log) + 1] = r
      /\ \A i \in 1 .. Len(log) : log'[i] = log[i]
      /\ \A k \in 1 .. Len(log) : log'[k][1] = "done" =>
             \A j : j = log'[k][2] => Outputs(j, k)' = made'[j]
  BY <1>1, <1>6, EarlierReports DEF OutputPart
<1>8. \A k \in 1 .. Len(log') : k \in 1 .. Len(log) \/ k = Len(log) + 1
  BY <1>7, LastIndex
<1>9. CountInv'
  BY <1>1, <1>3, <1>4, <1>5, <1>6, ReportCount DEF OutputPart
<1>10. DoneInv'
  <2>1. sort \in Seq(Job) /\ Len(jobs) \in Nat /\ Len(sort) <= Len(jobs)
    BY DEF TypeInv, TypeOK, FlowInv, JobsInv
  <2>2. Len(sort) \in Nat /\ Len(sort) >= 1 /\ Len(sort') = Len(sort) - 1
    BY <1>1, <1>3, <2>1, HeadTail
  <2>3. jobs[Len(jobs) - Len(sort) + 1] = e
    <3>1. sort[1] = e
      BY <1>2, <1>3, <1>4, HeadIsNext, TxNumbers
    <3> QED BY <2>2, <3>1 DEF FlowInv, JobsInv
  <2>4. ASSUME NEW k \in 1 .. Len(log'), log'[k][1] = "done"
        PROVE  \E i \in 1 .. Len(jobs) - Len(sort') : jobs[i] = log'[k][2]
    <3>1. CASE k \in 1 .. Len(log)
      <4>1. PICK i \in 1 .. Len(jobs) - Len(sort) : jobs[i] = log[k][2]
        BY <1>7, <2>4, <3>1 DEF OutputPart, DoneInv
      <4>2. i \in 1 .. Len(jobs) - Len(sort')
        BY <2>1, <2>2
      <4> QED BY <1>7, <3>1, <4>1, <4>2
    <3>2. CASE k = Len(log) + 1
      <4>1. Len(jobs) - Len(sort) + 1 \in 1 .. Len(jobs) - Len(sort')
        BY <2>1, <2>2
      <4> QED BY <1>5, <1>7, <2>3, <3>2, <4>1
    <3> QED BY <1>8, <3>1, <3>2
  <2> QED BY <1>1, <2>4 DEF DoneInv
<1>11. PICK n : n = Len(log) + 1 /\ n = Len(log')
  BY <1>7
<1>12. Outputs(e, n)' = made[e]
  <2>2. log' \in Seq({"out", "failed", "discard", "done"} \X Job)
    BY ProcessMessageDoneType DEF TypeInv, FlowTypes
  <2>3. \A i \in 1 .. n : log'[i] \in {"out", "failed", "discard", "done"} \X Job
    BY <1>11, <2>2
  <2>4. \A i \in 1 .. n : log'[i] \in OutReports(e) <=> log'[i][1] # "done" /\ log'[i][2] = e
    BY <2>3 DEF OutReports
  <2>5. {i \in 1 .. n : log'[i][1] # "done" /\ log'[i][2] = e}
            = {i \in 1 .. n : log'[i] \in OutReports(e)}
    BY <2>4
  <2>6. Cardinality({i \in 1 .. n : log'[i][1] # "done" /\ log'[i][2] = e}) = Count(log', OutReports(e))
    BY <1>11, <2>5 DEF Count
  <2>7. Count(log', OutReports(e)) = Count(log, OutReports(e)) + 0
    <3>1. PICK E : E = {"out", "failed", "discard", "done"} \X Job
      OBVIOUS
    <3>2. r \in E /\ log \in Seq(E)
      BY <3>1 DEF TypeInv, FlowTypes
    <3>3. r \notin OutReports(e)
      BY <1>5 DEF OutReports
    <3>4. Count(Append(log, r), OutReports(e))
              = Count(log, OutReports(e)) + (IF r \in OutReports(e) THEN 1 ELSE 0)
      BY <3>2, CountAppend
    <3> QED BY <1>6, <3>3, <3>4
  <2>8. e[2] = s
    BY <1>4
  <2>9. made[e] = Count(log, OutReports(e)) + Count(tx[e[2]], OutRecords(e))
                  + (IF want[e[2]] \in OutRecords(e) THEN 1 ELSE 0)
    BY DEF OutputPart, CountInv
  <2>10. Count(tx[s], OutRecords(e)) = 0 /\ want[s] \notin OutRecords(e)
    BY <1>3, <1>4, NothingBehindDone
  <2>11. Count(log, OutReports(e)) \in Nat
    BY CountTypes
  <2>12. made[e] = Count(log', OutReports(e))
    BY ONLY <2>7, <2>8, <2>9, <2>10, <2>11
  <2>13. Cardinality({i \in 1 .. n : log'[i][1] # "done" /\ log'[i][2] = e}) = made[e]
    BY <2>6, <2>12
  <2> QED BY <2>13 DEF Outputs
<1>13. DoneAfterOutputs'
  <2>1. ASSUME NEW k \in 1 .. Len(log'), log'[k][1] = "done", NEW j, j = log'[k][2]
        PROVE  Outputs(j, k)' = made'[j]
    <3>1. CASE k \in 1 .. Len(log)
      BY <1>7, <2>1, <3>1
    <3>2. CASE k = Len(log) + 1
      BY <1>1, <1>5, <1>7, <1>11, <1>12, <2>1, <3>2
    <3> QED BY <1>8, <3>1, <3>2
  <2> QED BY <2>1 DEF DoneAfterOutputs
<1> QED BY <1>9, <1>10, <1>13 DEF OutputPart

-----------------------------------------------------------------------------
(* The invariant, and the theorems.                                        *)

\* At the start nothing is under way.
LEMMA InitInv == ASSUME Init PROVE Inv
<1>1. /\ ShardNum \in Nat /\ ShardNum >= 1 /\ MaxSqn \in Nat /\ RxSize \in Nat
      /\ Setups \subseteq [tx : Nat \ {0}, messages : Nat, events : Nat,
                           channel : BOOLEAN, skips : BOOLEAN, fails : BOOLEAN]
  BY PipelineAssumption
<1>2. /\ \A s \in Shards : /\ rx[s] = << >> /\ tx[s] = << >> /\ want[s] = NoRecord
                           /\ spc[s] = "poll" /\ handled[s] = 0
      /\ jobs = << >> /\ sort = << >> /\ log = << >> /\ amiTodo = << >> /\ amiPc = "idle"
      /\ Len(jobs) = 0 /\ Len(sort) = 0 /\ Len(log) = 0 /\ Len(amiTodo) = 0
  BY DEF Init
<1>3. TypeOK
  <2>1. setup \in Setups /\ TxSize \in Nat
    BY <1>1 DEF Init, TxSize
  <2>2. \A s \in Shards : Len(rx[s]) <= RxSize /\ Len(tx[s]) <= TxSize
    BY <1>1, <1>2, <2>1
  <2>3. /\ next \in 1 .. MaxSqn + 1 /\ evIndex \in Shards /\ joined \in 0 .. pushed
        /\ pushed \in Nat /\ postTo \in 0 .. ShardNum
    BY <1>1 DEF Init, Shards
  <2>4. amiTodo \in Seq(Shards) /\ sort \in Seq(Job) /\ jobs \in Seq(Job)
    BY <1>2, EmptySeq
  <2>5. spc \in [Shards -> {"poll", "app", "alloc", "free", "skip"}]
    BY DEF Init
  <2> QED BY <2>1, <2>2, <2>3, <2>4, <2>5 DEF Init, TypeOK
<1>4. FlowTypes
  BY TxEntries, EmptySeq DEF Init, FlowTypes
<1>5. AgentInv /\ ShardInv /\ SortInv
  BY <1>2 DEF Init, AgentInv, ShardInv, ShardOK, SortInv
<1>6. EventPart
  <2>1. ASSUME NEW s \in Shards PROVE Count(rx[s], {AmiEvent}) = 0
    <3>1. rx[s] \in Seq(RxEntry) /\ Len(rx[s]) = 0
      BY <1>2, <1>4 DEF FlowTypes
    <3>2. \A i \in 1 .. Len(rx[s]) : rx[s][i] \notin {AmiEvent}
      BY <3>1
    <3> QED BY <3>1, <3>2, CountBasics
  <2>2. evPc = "idle" /\ pushed = 0 /\ joined = 0
    BY DEF Init
  <2>3. \A s \in Shards : Posted(s) = 0
    BY <2>2 DEF Posted
  <2>4. \A s \in Shards : handled[s] + Count(rx[s], {AmiEvent}) = Posted(s)
    <3>1. 0 + 0 = 0
      OBVIOUS
    <3> QED BY <1>2, <2>1, <2>3, <3>1
  <2>5. RecoveryHandled
    BY <1>2, <2>2 DEF RecoveryHandled
  <2> QED BY <2>2, <2>4, <2>5 DEF EventPart, EventInv
<1>7. FlowInv
  <2>1. JobsInv
    BY <1>2 DEF JobsInv
  <2>2. \A s \in Shards : \A n : ~Open(s, n) /\ ~InSort(s, n)
    BY <1>2 DEF Open, Sending, InSort
  <2>3. RxOrder
    BY <1>2 DEF RxOrder, RxOK
  <2>4. TxOrder /\ PresentInv
    BY <1>2, <2>2 DEF TxOrder, PresentInv
  <2> QED BY <2>1, <2>3, <2>4 DEF FlowInv
<1>8. OutputPart
  <2>1. ASSUME NEW j \in Job
        PROVE  made[j] = Count(log, OutReports(j)) + Count(tx[j[2]], OutRecords(j))
                         + (IF want[j[2]] \in OutRecords(j) THEN 1 ELSE 0)
    <3>1. j[2] \in Shards /\ made[j] = 0
      BY Jobs DEF Init
    <3>2. log \in Seq({"out", "failed", "discard", "done"} \X Job) /\ tx[j[2]] \in Seq(TxEntry)
      BY <1>4, <3>1 DEF FlowTypes
    <3>3. Count(log, OutReports(j)) = 0
      <4>1. \A i \in 1 .. Len(log) : log[i] \notin OutReports(j)
        BY <1>2
      <4> QED BY <3>2, <4>1, CountBasics
    <3>4. Count(tx[j[2]], OutRecords(j)) = 0
      <4>1. \A i \in 1 .. Len(tx[j[2]]) : tx[j[2]][i] \notin OutRecords(j)
        BY <1>2, <3>1
      <4> QED BY <3>2, <4>1, CountBasics
    <3>5. want[j[2]] \notin OutRecords(j)
      BY <1>2, <3>1, OutRecordOf DEF NoRecord
    <3> QED BY <3>1, <3>3, <3>4, <3>5
  <2>2. CountInv
    BY <2>1 DEF CountInv
  <2> QED BY <1>2, <2>2 DEF OutputPart, DoneInv, DoneAfterOutputs
<1> QED BY <1>3, <1>4, <1>5, <1>6, <1>7, <1>8 DEF Inv, TypeInv, EventPart, OutputPart

\* Steps that post, take and handle no rx entry.
LEMMA EventQuiet == ASSUME EventPart, UNCHANGED <<rx, handled, evVars>> PROVE EventPart'
BY EventFrame

\* The message thread's steps, and the arrival of a message.
LEMMA MessageStepInv ==
    ASSUME TypeInv, EventPart, FlowInv, OutputPart, MessageStep \/ \E dst \in Dsts : OnMessage(dst)
    PROVE  TypeInv' /\ EventPart' /\ FlowInv' /\ OutputPart'
<1>1. CASE \E dst \in Dsts : OnMessage(dst)
  <2>1. PICK dst \in Dsts : OnMessage(dst)
    BY <1>1
  <2>2. UNCHANGED <<rx, handled, evVars, log, tx, want, made, jobs, sort>>
    BY <2>1 DEF OnMessage, shardVars, actorVars
  <2> QED BY <2>1, <2>2, OnMessageType, EventQuiet, OnMessageFlow, OutputFrame
<1>2. CASE PushSort
  <2>1. UNCHANGED <<rx, handled, evVars>>
    BY <1>2 DEF PushSort, shardVars
  <2> QED BY <1>2, <2>1, PushSortType, EventQuiet, PushSortFlow, PushSortOutput
<1>3. CASE LockMessage
  <2>1. UNCHANGED <<rx, handled, evVars, log, tx, want, made, jobs, sort>>
    BY <1>3 DEF LockMessage, shardVars, actorVars
  <2> QED BY <1>3, <2>1, LockMessageType, EventQuiet, LockMessageFlow, OutputFrame
<1>4. CASE PostMessage
  <2>1. UNCHANGED <<handled, evVars, log, tx, want, made, jobs, sort>>
    BY <1>4 DEF PostMessage, shardVars, actorVars
  <2>2. PICK s \in Shards, e \in RxEntry :
            e.type # "event" /\ rx' = [rx EXCEPT ![s] = Append(@, e)]
    BY <1>4, PostMessageType, RxEntries
  <2>3. EventPart'
    BY <2>1, <2>2, OtherPostEvent
  <2> QED BY <1>4, <2>1, <2>3, PostMessageType, PostMessageFlow, OutputFrame
<1> QED BY <1>1, <1>2, <1>3, <1>4 DEF MessageStep

\* The event thread's steps, and the arrival of an event.
LEMMA EventStepInv ==
    ASSUME TypeInv, EventPart, FlowInv, OutputPart,
           EventStep \/ \E recovery \in BOOLEAN : CallPushEvent(recovery)
    PROVE  TypeInv' /\ EventPart' /\ FlowInv' /\ OutputPart'
<1>1. CASE \E recovery \in BOOLEAN : CallPushEvent(recovery)
  <2>1. PICK recovery \in BOOLEAN : CallPushEvent(recovery)
    BY <1>1
  <2>2. UNCHANGED <<rx, amiVars, spc, log, tx, want, made, jobs, sort>>
    BY <2>1 DEF CallPushEvent, shardVars, actorVars, amiVars
  <2> QED BY <2>1, <2>2, CallPushEventType, CallPushEventEvent, QuietFlow, OutputFrame
<1>2. CASE LockEvent
  <2>1. UNCHANGED <<rx, amiVars, spc, log, tx, want, made, jobs, sort>>
    BY <1>2 DEF LockEvent, shardVars, actorVars, amiVars
  <2> QED BY <1>2, <2>1, LockEventType, LockEventEvent, QuietFlow, OutputFrame
<1>3. CASE PostEvent
  <2>1. UNCHANGED <<log, tx, want, made, jobs, sort>>
    BY <1>3 DEF PostEvent, shardVars, actorVars, amiVars
  <2> QED BY <1>3, <2>1, PostEventType, PostEventEvent, PostEventFlow, OutputFrame
<1>4. CASE WaitConsumeComplete
  <2>1. UNCHANGED <<rx, amiVars, spc, log, tx, want, made, jobs, sort>>
    BY <1>4 DEF WaitConsumeComplete, shardVars, actorVars, amiVars
  <2> QED BY <1>4, <2>1, WaitConsumeCompleteType, WaitConsumeCompleteEvent, QuietFlow, OutputFrame
<1> QED BY <1>1, <1>2, <1>3, <1>4 DEF EventStep

\* A shard's steps.
LEMMA ShardStepInv ==
    ASSUME TypeInv, EventPart, FlowInv, OutputPart, NEW s \in Shards, ShardStep(s)
    PROVE  TypeInv' /\ EventPart' /\ FlowInv' /\ OutputPart'
<1>1. CASE Poll(s)
  <2>1. UNCHANGED <<rx, handled, evVars, amiVars, log, tx, want, made, jobs, sort>>
    BY <1>1 DEF Poll, actorVars, amiVars
  <2>2. FlowInv'
    <3>1. /\ spc[s] = "poll" /\ spc'[s] = "app"
          /\ \A t \in Shards : t # s => spc'[t] = spc[t] /\ want'[t] = want[t]
      BY <1>1 DEF Poll, TypeInv, TypeOK
    <3> QED BY <2>1, <3>1, ShardQuietFlow
  <2> QED BY <1>1, <2>1, <2>2, PollType, EventQuiet, OutputFrame
<1>2. CASE CallbackReturns(s)
  <2>1. UNCHANGED <<rx, handled, evVars, amiVars, tx, sort>>
    BY <1>2, CallbackReturnsType
  <2>2. FlowInv'
    BY <1>2, <2>1, CallbackReturnsType, ShardQuietFlow
  <2> QED BY <1>2, <2>1, <2>2, CallbackReturnsType, EventQuiet, CallbackReturnsOutput
<1>3. CASE PostTx(s)
  <2>1. UNCHANGED <<rx, handled, evVars>>
    BY <1>3 DEF PostTx
  <2> QED BY <1>3, <2>1, PostTxType, EventQuiet, PostTxFlow, PostTxOutput
<1>4. CASE FreeEntry(s)
  <2>1. UNCHANGED <<log, tx, want, made, jobs, sort>>
    BY <1>4 DEF FreeEntry, actorVars, amiVars
  <2> QED BY <1>4, <2>1, FreeEntryType, FreeEntryEvent, FreeEntryFlow, OutputFrame
<1>5. CASE \E kind \in {"out", "req"} : Call(s, kind)
  <2>1. PICK kind \in {"out", "req"} : Call(s, kind)
    BY <1>5
  <2>2. UNCHANGED <<rx, handled, evVars, amiVars, tx, sort>>
    BY <2>1 DEF Call, Want
  <2>3. FlowInv'
    BY <2>1, <2>2, CallType, ShardQuietFlow
  <2> QED BY <2>1, <2>2, <2>3, CallType, EventQuiet, CallOutput
<1>6. CASE SkipMessage(s)
  BY <1>6, SkipMessageType, SkipMessageEvent, SkipMessageFlow, SkipMessageOutput
<1>7. CASE PostSkip(s)
  <2>1. UNCHANGED <<rx, handled, evVars>>
    BY <1>7 DEF PostSkip
  <2> QED BY <1>7, <2>1, PostSkipType, EventQuiet, PostSkipFlow, PostSkipOutput
<1> QED BY <1>1, <1>2, <1>3, <1>4, <1>5, <1>6, <1>7 DEF ShardStep

\* The sort thread's steps.
LEMMA SortStepInv ==
    ASSUME TypeInv, EventPart, FlowInv, OutputPart, SortStep
    PROVE  TypeInv' /\ EventPart' /\ FlowInv' /\ OutputPart'
<1>1. CASE \E result \in {"out", "failed"} : OnShmTxMessage(result)
  <2>0. PICK result \in {"out", "failed"} : OnShmTxMessage(result)
    BY <1>1
  <2>1. UNCHANGED <<rx, handled, evVars>>
    BY <2>0 DEF OnShmTxMessage, shardVars
  <2> QED BY <2>0, <2>1, OnShmTxMessageType, EventQuiet, OnShmTxMessageFlow, OnShmTxMessageOutput
<1>2. CASE ProcessMessageDiscard
  <2>1. UNCHANGED <<rx, handled, evVars>>
    BY <1>2 DEF ProcessMessageDiscard, shardVars
  <2> QED BY <1>2, <2>1, ProcessMessageDiscardType, EventQuiet, ProcessMessageDiscardFlow,
             ProcessMessageDiscardOutput
<1>3. CASE ProcessMessageDone
  <2>1. UNCHANGED <<rx, handled, evVars>>
    BY <1>3 DEF ProcessMessageDone, shardVars
  <2> QED BY <1>3, <2>1, ProcessMessageDoneType, EventQuiet, ProcessMessageDoneFlow,
             ProcessMessageDoneOutput
<1>4. CASE OnRequset
  <2>1. UNCHANGED <<rx, handled, evVars>>
    BY <1>4 DEF OnRequset, shardVars
  <2> QED BY <1>4, <2>1, OnRequsetType, EventQuiet, OnRequsetFlow, OnRequsetOutput
<1>5. CASE \E s \in Shards : CallPostTo(s)
  <2>1. PICK s \in Shards : CallPostTo(s)
    BY <1>5
  <2>2. UNCHANGED <<rx, handled, evVars, amiVars, spc, log, tx, want, made, jobs, sort>>
    BY <2>1 DEF CallPostTo, shardVars, amiVars
  <2> QED BY <2>1, <2>2, CallPostToType, EventQuiet, QuietFlow, OutputFrame
<1>6. CASE LockPost
  <2>1. UNCHANGED <<rx, handled, evVars, amiVars, spc, log, tx, want, made, jobs, sort>>
    BY <1>6 DEF LockPost, shardVars, amiVars
  <2> QED BY <1>6, <2>1, LockPostType, EventQuiet, QuietFlow, OutputFrame
<1>7. CASE PostResponse
  <2>1. UNCHANGED <<handled, evVars>> /\ rx' = [rx EXCEPT ![postTo] = Append(@, ShardingPost)]
    BY <1>7 DEF PostResponse, PostRx, shardVars
  <2>2. PICK s \in Shards, e \in RxEntry :
            e.type # "event" /\ rx' = [rx EXCEPT ![s] = Append(@, e)]
    BY <1>7, <2>1, PostResponseType, RxEntries
  <2>3. EventPart'
    BY <2>1, <2>2, OtherPostEvent
  <2> QED BY <1>7, <2>3, PostResponseType, PostResponseFlow, PostResponseOutput
<1> QED BY <1>1, <1>2, <1>3, <1>4, <1>5, <1>6, <1>7 DEF SortStep

\* No step breaks the invariant.
LEMMA NextInv == ASSUME Inv, [Next]_vars PROVE Inv'
<1>1. TypeInv /\ EventPart /\ FlowInv /\ OutputPart
  BY DEF Inv, EventPart, OutputPart
<1>2. CASE MessageStep \/ \E dst \in Dsts : OnMessage(dst)
  BY <1>1, <1>2, MessageStepInv DEF Inv, EventPart, OutputPart
<1>3. CASE EventStep \/ \E recovery \in BOOLEAN : CallPushEvent(recovery)
  BY <1>1, <1>3, EventStepInv DEF Inv, EventPart, OutputPart
<1>4. CASE \E s \in Shards : ShardStep(s)
  BY <1>1, <1>4, ShardStepInv DEF Inv, EventPart, OutputPart
<1>5. CASE SortStep
  BY <1>1, <1>5, SortStepInv DEF Inv, EventPart, OutputPart
<1>6. CASE UNCHANGED vars
  <2>1. UNCHANGED <<setup, amiVars, evVars, shardVars, actorVars, rx_spinlock, sort, rx, tx>>
    BY <1>6 DEF vars
  <2>2. UNCHANGED <<next, amiPc, amiTodo, jobs, spc, sends, want, made, handled, apc, postTo, log>>
    BY <2>1 DEF amiVars, shardVars, actorVars
  <2>3. UNCHANGED <<evPc, evIndex, evWaits, pushed, joined>>
    BY <2>1 DEF evVars
  <2>4. TypeInv'
    <3>1. TypeOK' /\ FlowTypes'
      BY <1>1, <2>1, <2>2, <2>3 DEF TypeInv, TypeOK, FlowTypes, TxSize
    <3> QED BY <1>1, <2>1, <2>2, <3>1, AgentFrame, ShardFrame, SortFrame DEF TypeInv
  <2> QED BY <1>1, <2>1, <2>2, <2>4, EventQuiet, QuietFlow, OutputFrame
         DEF Inv, EventPart, OutputPart
<1> QED BY <1>2, <1>3, <1>4, <1>5, <1>6 DEF Next

\* The inductive invariant holds in every reachable state, however many shards,
\* messages and events there are and whatever the queues' sizes.
THEOREM Invariance == Spec => []Inv
BY InitInv, NextInv, PTL DEF Spec

\* The state of the threads and shards keeps its types, and no queue of the
\* agent exceeds its size.
THEOREM TypeCorrect == Spec => []TypeOK
<1>1. Inv => TypeOK
  BY DEF Inv, TypeInv
<1> QED BY <1>1, Invariance, PTL

\* When OnRecoverySuccess returns, every shard has handled its event.
THEOREM RecoveryIsHandled == Spec => []RecoveryHandled
<1>1. Inv => RecoveryHandled
  BY DEF Inv
<1> QED BY <1>1, Invariance, PTL

\* A message is reported done for a shard only after each of its outputs there was
\* handed to AMI or its failure logged, and after the report that it was discarded.
THEOREM DoneIsLast == Spec => []DoneAfterOutputs
<1>1. Inv => DoneAfterOutputs
  BY DEF Inv
<1> QED BY <1>1, Invariance, PTL

\* What the sort thread does for the outside: it emits outputs of the current
\* job, and finishes it.
LEMMA SortStepService ==
    ASSUME TypeInv, FlowInv, SortStep PROVE Service!Next \/ UNCHANGED Service!vars
<1>1. /\ Len(sort) \in Nat /\ Len(jobs) \in Nat /\ Len(sort) <= Len(jobs) /\ sort \in Seq(Job)
  BY DEF TypeInv, TypeOK, FlowInv, JobsInv
<1> DEFINE c == Len(jobs) - Len(sort) + 1
<1>2. ASSUME sort # << >> PROVE c <= Len(jobs) /\ jobs[c] = sort[1] /\ Len(Tail(sort)) = Len(sort) - 1
  <2>1. Len(sort) >= 1 /\ 1 \in 1 .. Len(sort) /\ Len(Tail(sort)) = Len(sort) - 1
    BY <1>1, <1>2, HeadTail
  <2>2. sort[1] = jobs[Len(jobs) - Len(sort) + 1]
    BY <2>1 DEF FlowInv, JobsInv
  <2> QED BY <1>1, <2>1, <2>2
<1>3. ASSUME NEW kind, NEW result, NextRecord(kind), Head(tx[Head(sort)[2]]).sqn > 0
      PROVE  sort # << >> /\ Record(result, Head(sort)[2]) = <<result, jobs[c]>>
  <2>1. PICK s \in Shards : s = sort[1][2]
    BY <1>3, NextRecordIs
  <2>2. /\ sort # << >> /\ tx[s] # << >> /\ tx[s][1].sqn > 0
        /\ Record(result, Head(sort)[2]) = <<result, <<tx[s][1].sqn, s>>>>
    BY <1>3, <2>1, NextRecordIs
  <2>3. sort[1] = <<tx[s][1].sqn, s>>
    BY <2>1, <2>2, HeadIsNext
  <2> QED BY <1>2, <2>2, <2>3
<1>4. ASSUME NEW kind \in {"discard", "done"}, NextRecord(kind)
      PROVE  Head(tx[Head(sort)[2]]).sqn > 0
  <2>1. /\ Head(tx[Head(sort)[2]]) = tx[sort[1][2]][1] /\ tx[sort[1][2]][1] \in TxEntry
        /\ tx[sort[1][2]][1].kind = kind
    BY <1>4, NextRecordIs
  <2> QED BY <2>1, TxNumbers
<1>5. ASSUME NEW kind, NEW result \in {"out", "failed", "discard"}, NextRecord(kind),
             UNCHANGED <<jobs, sort>>, Head(tx[Head(sort)[2]]).sqn > 0,
             log' = Append(log, Record(result, Head(sort)[2]))
      PROVE  Service!Emit
  <2>1. sort # << >> /\ log' = Append(log, <<result, jobs[c]>>)
    BY <1>3, <1>5
  <2>2. c <= Len(jobs)
    BY <1>2, <2>1
  <2> QED BY <1>5, <2>1, <2>2 DEF Service!Emit
<1>6. CASE \E result \in {"out", "failed"} : OnShmTxMessage(result)
  <2>0. PICK result \in {"out", "failed"} : OnShmTxMessage(result)
    BY <1>6
  <2>1. NextRecord("out") /\ UNCHANGED <<jobs, sort>>
    BY <2>0 DEF OnShmTxMessage, amiVars
  <2>2. log' = IF Head(tx[Head(sort)[2]]).sqn > 0
               THEN Append(log, Record(result, Head(sort)[2])) ELSE log
    BY <2>0 DEF OnShmTxMessage, LogOutput
  <2>3. CASE Head(tx[Head(sort)[2]]).sqn > 0
    BY <1>5, <2>1, <2>2, <2>3 DEF Service!Next
  <2>4. CASE ~(Head(tx[Head(sort)[2]]).sqn > 0)
    BY <2>1, <2>2, <2>4 DEF Service!vars
  <2> QED BY <2>3, <2>4
<1>7. CASE ProcessMessageDiscard
  <2>1. /\ NextRecord("discard") /\ UNCHANGED <<jobs, sort>>
        /\ log' = Append(log, Record("discard", Head(sort)[2]))
    BY <1>7 DEF ProcessMessageDiscard, amiVars
  <2> QED BY <1>4, <1>5, <2>1 DEF Service!Next
<1>8. CASE ProcessMessageDone
  <2>1. /\ NextRecord("done") /\ jobs' = jobs /\ sort' = Tail(sort)
        /\ log' = Append(log, Record("done", Head(sort)[2]))
    BY <1>8 DEF ProcessMessageDone, amiVars
  <2>2. sort # << >> /\ log' = Append(log, <<"done", jobs[c]>>)
    BY <1>3, <1>4, <2>1
  <2>3. c <= Len(jobs) /\ Len(jobs') - Len(sort') + 1 = c + 1
    BY <1>1, <1>2, <2>1, <2>2
  <2>4. Service!Finish
    BY <2>1, <2>2, <2>3 DEF Service!Finish
  <2> QED BY <2>4 DEF Service!Next
<1>9. CASE OnRequset \/ (\E s \in Shards : CallPostTo(s)) \/ LockPost \/ PostResponse
  <2>1. UNCHANGED <<jobs, sort, log>>
    BY <1>9 DEF OnRequset, CallPostTo, LockPost, PostResponse, amiVars, actorVars
  <2> QED BY <2>1 DEF Service!vars
<1> QED BY <1>6, <1>7, <1>8, <1>9 DEF SortStep

\* PushSort accepts a job, after those of earlier messages.
LEMMA PushSortService == ASSUME TypeInv, FlowInv, PushSort PROVE Service!Next
<1>1. PICK e \in Job : e = <<next - 1, amiTodo[1]>>
  BY PushSortType
<1>2. sort' = Append(sort, e) /\ jobs' = Append(jobs, e) /\ log' = log
  BY <1>1, PushSortType DEF PushSort, actorVars
<1>3. sort \in Seq(Job) /\ jobs \in Seq(Job) /\ next \in Nat /\ e[1] = next - 1
  BY <1>1, Types DEF TypeInv, TypeOK
<1>4. /\ Len(sort) \in Nat /\ Len(sort') = Len(sort) + 1
      /\ Len(jobs) \in Nat /\ Len(jobs') = Len(jobs) + 1
  BY <1>2, <1>3, AddLast
<1>5. ASSUME NEW i \in 1 .. Len(jobs) PROVE jobs[i][1] <= e[1]
  <2>1. jobs[i][1] < next
    BY DEF FlowInv, JobsInv
  <2>2. jobs[i] \in Job
    BY <1>3
  <2>3. jobs[i][1] \in 1 .. MaxSqn
    BY <2>2, Jobs
  <2> QED BY <1>3, <2>1, <2>3
<1>6. Len(jobs') - Len(sort') + 1 = Len(jobs) - Len(sort) + 1
  BY <1>4
<1>7. Service!Accept(e)
  BY <1>2, <1>5, <1>6 DEF Service!Accept
<1> QED BY <1>7 DEF Service!Next

\* The other threads' steps do not show.
LEMMA QuietService ==
    ASSUME \/ \E dst \in Dsts : OnMessage(dst)
           \/ LockMessage \/ PostMessage \/ EventStep
           \/ \E recovery \in BOOLEAN : CallPushEvent(recovery)
           \/ \E s \in Shards : ShardStep(s)
           \/ UNCHANGED vars
    PROVE  UNCHANGED Service!vars
<1>1. UNCHANGED <<jobs, sort, log>>
  <2>1. CASE (\E dst \in Dsts : OnMessage(dst)) \/ LockMessage \/ PostMessage
    BY <2>1 DEF OnMessage, LockMessage, PostMessage, actorVars
  <2>2. CASE EventStep \/ \E recovery \in BOOLEAN : CallPushEvent(recovery)
    BY <2>2 DEF EventStep, LockEvent, PostEvent, WaitConsumeComplete, CallPushEvent, amiVars, actorVars
  <2>3. ASSUME NEW s \in Shards, ShardStep(s) PROVE UNCHANGED <<jobs, sort, log>>
    BY <2>3 DEF ShardStep, Poll, CallbackReturns, PostTx, FreeEntry, Call, Want, SkipMessage, PostSkip,
                amiVars, actorVars
  <2>4. CASE UNCHANGED vars
    BY <2>4 DEF vars, amiVars, actorVars
  <2> QED BY <2>1, <2>2, <2>3, <2>4
<1> QED BY <1>1 DEF Service!vars

\* The agent, its rings and its shards are one sequential service: outputs leave
\* in the total order of the messages that caused them, and a message's done
\* report follows them, whatever the shards' relative speed.
THEOREM ServiceRefinement == Spec => ImplementsService
<1>1. Init => Service!Init
  BY DEF Init, Service!Init
<1>2. Inv /\ [Next]_vars => [Service!Next]_Service!vars
  <2> SUFFICES ASSUME Inv, [Next]_vars PROVE Service!Next \/ UNCHANGED Service!vars
    OBVIOUS
  <2>1. TypeInv /\ FlowInv
    BY DEF Inv
  <2>2. CASE PushSort
    BY <2>1, <2>2, PushSortService
  <2>3. CASE SortStep
    BY <2>1, <2>3, SortStepService
  <2>4. CASE \/ \E dst \in Dsts : OnMessage(dst)
             \/ LockMessage \/ PostMessage \/ EventStep
             \/ \E recovery \in BOOLEAN : CallPushEvent(recovery)
             \/ \E s \in Shards : ShardStep(s)
             \/ UNCHANGED vars
    BY <2>4, QuietService
  <2> QED BY <2>2, <2>3, <2>4 DEF Next, MessageStep
<1> QED BY <1>1, <1>2, Invariance, PTL DEF Spec, ImplementsService, Service!Spec
=============================================================================
