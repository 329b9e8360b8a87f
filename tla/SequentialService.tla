------------------------- MODULE SequentialService -------------------------
(***************************************************************************)
(* What a sharded application promises to the outside, seen as one        *)
(* sequential service: jobs are accepted in the total order of their      *)
(* messages and worked off one after the other; while a job is the        *)
(* current one its outputs leave, and then it is reported done.           *)
(***************************************************************************)
EXTENDS Naturals, Sequences

CONSTANT Job           \* <<sqn, shard>>: message sqn as handled by a shard

VARIABLES jobs,        \* accepted so far
          at,          \* the current job
          log          \* what left the service: outputs and reports

vars == <<jobs, at, log>>

Init == jobs = << >> /\ at = 1 /\ log = << >>

Accept(j) ==
    /\ \A i \in 1 .. Len(jobs) : jobs[i][1] <= j[1]
    /\ jobs' = Append(jobs, j)
    /\ UNCHANGED <<at, log>>

\* An output of the current job, the note that one failed, or the report that the
\* job was thrown away.
Emit ==
    /\ at <= Len(jobs)
    /\ \E kind \in {"out", "failed", "discard"} : log' = Append(log, <<kind, jobs[at]>>)
    /\ UNCHANGED <<jobs, at>>

Finish ==
    /\ at <= Len(jobs)
    /\ log' = Append(log, <<"done", jobs[at]>>)
    /\ at' = at + 1
    /\ UNCHANGED jobs

Next == (\E j \in Job : Accept(j)) \/ Emit \/ Finish

Spec == Init /\ [][Next]_vars
=============================================================================
