----------------------- MODULE AdvanceFollowerProofs ------------------------
(***************************************************************************)
(* What is proved of AdvanceFollower, for every number of entries, every   *)
(* choice of events and fatal entries and every number of kills.  The      *)
(* types need no hypothesis; the rest is proved for trials that are not    *)
(* killed between the store of nr_shm_processed_sqn and FreeEntry, where   *)
(* it is false, and holds until a trial is forked onto the realtime ring.  *)
(*                                                                         *)
(* The argument: as long as each process is on its own ring,               *)
(* nr_shm_processed_sqn is the head of the trial's ring, and the realtime  *)
(* process, whose counter is the head of its own, stays behind it          *)
(* (CountInv).  So when it finds the trial dead and nothing left to        *)
(* follow, both rings are at the same entry (ErrorInv), and a message on   *)
(* record is that entry (RecordInv).                                       *)
(***************************************************************************)
EXTENDS AdvanceFollower, TLAPS

\* No trial process is killed after it has stored its counter and before it has
\* freed the entry.
PublishedNotKilled == "published" \notin KillPoints

-----------------------------------------------------------------------------
(* The inductive invariants.                                               *)

\* The steps at which a process holds an entry of its ring.
RtHolding    == rpc \in {"wait", "check", "deliver", "delivered"}
TrialHolding == tpc \in {"entry", "app", "processed", "published"}

\* How many entries of the realtime ring are held.
RtHeld    == IF RtHolding THEN 1 ELSE 0
TrialHeld == IF TrialHolding /\ tring = "realtime" THEN 1 ELSE 0

\* An entry is in both rings, or in one of them while the agent is inside its
\* two posts; a process has an entry while it works on one, two processes may hold
\* the last one of the realtime ring; and the realtime process takes over only from
\* a trial that is dead.
RingInv ==
    /\ agent = "between" => rtTail = trTail
    /\ agent = "inside" => rtTail = trTail + 1 \/ trTail = rtTail + 1
    /\ rtHead + RtHeld + TrialHeld <= IF strayed THEN rtTail + 1 ELSE rtTail
    /\ TrialHolding /\ tring = "trial" => trHead < trTail
    /\ ~strayed => tring = "trial"
    /\ tpc = "exited" => agent = "dead"
    /\ rpc \in {"error", "fork"} => tpc = "dead"

TypeInv == TypeOK /\ RingInv

\* Each process holds the entry at the head of its own ring.
HeldInv ==
    /\ RtHolding => rent = rtHead + 1
    /\ TrialHolding => tent = trHead + 1

\* The counters name the heads of the rings: the realtime one its own, the trial
\* one the trial's, except between TrialPublish and TrialFreeEntry.
CountInv ==
    /\ rnr = rtHead
    /\ shm = IF tpc = "published" THEN trHead + 1 ELSE trHead
    /\ tpc # "dead" => tnr = shm
    /\ rtHead <= shm
    /\ rpc \in {"deliver", "delivered"} => rtHead < shm

\* When the realtime process takes over, there is nothing left of what the trial
\* had published.
ErrorInv ==
    /\ rpc \in {"error", "fork"} => rtHead = trHead
    /\ rpc = "fork" => processed = deliverd
    /\ rpc # "aborted"

\* A message is on record as unfinished only while it is the trial's next one.
RecordInv ==
    /\ processed <= deliverd /\ deliverd <= trHead + 1
    /\ processed # deliverd => /\ deliverd = trHead + 1 /\ trHead < trTail
                               /\ deliverd \notin Events /\ tpc \in {"app", "dead"}
    /\ tpc = "app" /\ trHead + 1 \notin Events => deliverd = trHead + 1

\* What was published and not yet followed has been vetted.
VettedInv ==
    /\ tpc \in {"processed", "published"} => trHead + 1 \in vetted
    /\ \A k \in Nat : rtHead < k /\ k <= shm => k \in vetted

\* A message that a trial died on was skipped, or is the one to skip next.
DiedInv ==
    \A d \in died : /\ d \in Nat
                    /\ d <= rtHead \/ (d = trHead + 1 /\ tpc = "dead" /\ processed # deliverd)

\* What the realtime application was given: up to its head, and vetted.
GivenInv ==
    /\ given \in Seq(Nat)
    /\ \A k \in 1 .. Len(given) :
           /\ given[k] <= IF rpc = "delivered" THEN rtHead + 1 ELSE rtHead
           /\ given[k] \in vetted /\ given[k] \notin died

\* What holds as long as no trial was forked onto the realtime ring.
Inv == /\ TypeInv /\ HeldInv /\ CountInv /\ ErrorInv /\ RecordInv /\ VettedInv
       /\ DiedInv /\ GivenInv

\* The inductive invariant.
IInv == TypeInv /\ (~strayed => Inv)

\* In s there is one done record for each message up to h, and they are in order.
Records == {"done", "discard"} \X Nat
Reported(s, h) ==
    /\ \A m \in Nat : (\E i \in 1 .. Len(s) : s[i] = <<"done", m>>) <=> m \in Messages /\ m <= h
    /\ \A i, j \in 1 .. Len(s) : i < j /\ s[i][1] = "done" /\ s[j][1] = "done" => s[i][2] < s[j][2]

\* DoneOncePerMessage, record by record.
DoneInOrder == Reported(tx, rtHead)

\* The rings and the steps of the processes, wherever the trial is killed.
LEMMA TypeNext == TypeInv /\ [Next]_vars => TypeInv'
  <1> SUFFICES ASSUME TypeInv, [Next]_vars PROVE TypeInv'
    OBVIOUS
  <1> USE FollowerAssumption DEF Entries, TypeInv, TypeOK, RingInv, RtHeld, TrialHeld, RtHolding,
      TrialHolding, Steps, TrialSteps
  <1>1. CASE AgentPostFirst
    BY <1>1 DEF AgentPostFirst, flrVars, rtVars, trialVars
  <1>2. CASE AgentPostSecond
    BY <1>2 DEF AgentPostSecond, flrVars, rtVars, trialVars
  <1>3. CASE AgentDie
    BY <1>3 DEF AgentDie, ringVars, flrVars, rtVars, trialVars
  <1>4. CASE TrialPoll
    BY <1>4 DEF TrialPoll, trialUnchanged, flrVars, rtVars, TrialHead, TrialTail, IsAgentAlive
  <1>5. CASE TrialDeliver
    BY <1>5 DEF TrialDeliver, trialUnchanged, flrVars, rtVars
  <1>6. CASE TrialReturn
    BY <1>6 DEF TrialReturn, trialUnchanged, flrVars, rtVars
  <1>7. CASE TrialCrash
    BY <1>7 DEF TrialCrash, TrialGone, ringVars, flrVars, rtVars
  <1>8. CASE TrialKill
    BY <1>8 DEF TrialKill, TrialGone, ringVars, flrVars, rtVars
  <1>9. CASE TrialPublish
    BY <1>9 DEF TrialPublish, trialUnchanged, flrVars, rtVars
  <1>10. CASE TrialFreeEntry
    BY <1>10 DEF TrialFreeEntry, trialUnchanged, flrVars, rtVars
  <1>11. CASE RealtimePoll
    BY <1>11 DEF RealtimePoll, rtUnchanged, rtStepUnchanged, flrVars, trialVars
  <1>12. CASE RealtimeEmpty
    BY <1>12 DEF RealtimeEmpty, rtUnchanged, rtStepUnchanged, flrVars, trialVars, IsAgentAlive, IsTrialAlive
  <1>13. CASE WaitTrialTest
    BY <1>13 DEF WaitTrialTest, rtUnchanged, rtStepUnchanged, flrVars, trialVars
  <1>14. CASE WaitTrialCheck
    BY <1>14 DEF WaitTrialCheck, rtUnchanged, rtStepUnchanged, flrVars, trialVars, IsAgentAlive, IsTrialAlive
  <1>15. CASE RealtimeDeliver
    BY <1>15 DEF RealtimeDeliver, rtUnchanged, rtStepUnchanged, flrVars, trialVars
  <1>16. CASE RealtimeDone
    BY <1>16 DEF RealtimeDone, rtUnchanged, rtStepUnchanged, flrVars, trialVars
  <1>17. CASE FreeEntryTogether
    BY <1>17 DEF FreeEntryTogether, rtUnchanged, rtStepUnchanged, flrVars, trialVars
  <1>18. CASE SkipErrorMessage
    BY <1>18 DEF SkipErrorMessage, rtUnchanged, rtStepUnchanged, flrVars, trialVars, SkipTo, ErrorMessage
  <1>19. CASE OnTrialErrorAborts
    BY <1>19 DEF OnTrialErrorAborts, rtUnchanged, rtStepUnchanged, flrVars, trialVars, ErrorMessage
  <1>20. CASE StartTrialProcess
    <2>1. /\ rpc \in {"error", "fork"} /\ rpc' = "poll" /\ tpc' = "poll" /\ tnr' = rnr
          /\ tring' = IF stale THEN "realtime" ELSE "trial"
          /\ UNCHANGED <<agent, rtTail, trTail, rtHead, trHead, deliverd, processed, shm, rnr,
                         rent, tent>>
      BY <1>20 DEF StartTrialProcess, rtUnchanged, flrVars
    <2>2. stale' = FALSE /\ (strayed' <=> strayed \/ stale) /\ strayed' \in BOOLEAN
      BY <1>20 DEF StartTrialProcess
    <2>3. rtHead <= rtTail \/ strayed
      BY <2>1
    <2>4. CASE stale
      <3>1. strayed' /\ tring' = "realtime" /\ strayed' \in BOOLEAN /\ stale' \in BOOLEAN
        BY <2>1, <2>2, <2>4
      <3>2. rtHead' \in 0 .. rtTail' + 1
        BY <2>1
      <3>3. TypeOK'
        BY <2>1, <3>1, <3>2
      <3>4. RingInv'
        BY <2>1, <3>1, <3>2
      <3> QED
        BY <3>3, <3>4
    <2>5. CASE ~stale
      BY <2>1, <2>2, <2>5
    <2> QED
      BY <2>4, <2>5
  <1>21. CASE UNCHANGED vars
    BY <1>21 DEF vars, ringVars, flrVars, rtVars, trialVars
  <1> QED
    BY <1>1, <1>2, <1>3, <1>4, <1>5, <1>6, <1>7, <1>8, <1>9, <1>10, <1>11,
       <1>12, <1>13, <1>14, <1>15, <1>16, <1>17, <1>18, <1>19, <1>20, <1>21
       DEF Next, Agent, TrialStep, RealtimeStep

\* The first post of an entry.
LEMMA AgentPostFirstInv ==
    ASSUME Inv, TypeInv', ~strayed, ~strayed', AgentPostFirst
    PROVE  Inv'
  <1> USE DEF Inv, TypeInv, AgentPostFirst, flrVars, rtVars, trialVars
  <1>0. HeldInv'
    BY DEF HeldInv, RtHolding, TrialHolding, RingInv, TypeOK, ErrorInv
  <1>1. CountInv'
    BY DEF CountInv
  <1>2. ErrorInv'
    BY DEF ErrorInv
  <1>3. RecordInv'
    BY DEF RecordInv, TypeOK, CountInv, RingInv, HeldInv, RtHolding, TrialHolding
  <1>4. VettedInv'
    BY DEF VettedInv
  <1>5. DiedInv'
    BY DEF DiedInv
  <1>6. GivenInv'
    BY DEF GivenInv
  <1> QED
    BY <1>0, <1>1, <1>2, <1>3, <1>4, <1>5, <1>6

\* The second post of an entry.
LEMMA AgentPostSecondInv ==
    ASSUME Inv, TypeInv', ~strayed, ~strayed', AgentPostSecond
    PROVE  Inv'
  <1> USE DEF Inv, TypeInv, AgentPostSecond, flrVars, rtVars, trialVars
  <1>0. HeldInv'
    BY DEF HeldInv, RtHolding, TrialHolding, RingInv, TypeOK, ErrorInv
  <1>1. CountInv'
    BY DEF CountInv
  <1>2. ErrorInv'
    BY DEF ErrorInv
  <1>3. RecordInv'
    BY DEF RecordInv, TypeOK, CountInv, RingInv, HeldInv, RtHolding, TrialHolding
  <1>4. VettedInv'
    BY DEF VettedInv
  <1>5. DiedInv'
    BY DEF DiedInv
  <1>6. GivenInv'
    BY DEF GivenInv
  <1> QED
    BY <1>0, <1>1, <1>2, <1>3, <1>4, <1>5, <1>6

\* The agent may die between its two posts; the rings stay as they are.
LEMMA AgentDieInv ==
    ASSUME Inv, TypeInv', ~strayed, ~strayed', AgentDie
    PROVE  Inv'
  <1> USE DEF Inv, TypeInv, AgentDie, ringVars, flrVars, rtVars, trialVars
  <1>0. HeldInv'
    BY DEF HeldInv, RtHolding, TrialHolding, RingInv, TypeOK, ErrorInv
  <1>1. CountInv'
    BY DEF CountInv
  <1>2. ErrorInv'
    BY DEF ErrorInv
  <1>3. RecordInv'
    BY DEF RecordInv
  <1>4. VettedInv'
    BY DEF VettedInv
  <1>5. DiedInv'
    BY DEF DiedInv
  <1>6. GivenInv'
    BY DEF GivenInv
  <1> QED
    BY <1>0, <1>1, <1>2, <1>3, <1>4, <1>5, <1>6

\* The trial leaves its loop only after the agent has gone.
LEMMA TrialPollInv ==
    ASSUME Inv, TypeInv', ~strayed, ~strayed', TrialPoll
    PROVE  Inv'
  <1> USE DEF Inv, TypeInv, TrialPoll, trialUnchanged, flrVars, rtVars, TrialHead, TrialTail, IsAgentAlive
  <1>0. HeldInv'
    BY DEF HeldInv, RtHolding, TrialHolding, RingInv, TypeOK, ErrorInv
  <1>1. CountInv'
    BY DEF CountInv, TypeOK, CountInv, RingInv, HeldInv, RtHolding, TrialHolding
  <1>2. ErrorInv'
    BY DEF ErrorInv
  <1>3. RecordInv'
    BY DEF RecordInv, TypeOK, CountInv, RingInv, HeldInv, RtHolding, TrialHolding
  <1>4. VettedInv'
    BY DEF VettedInv, TypeOK, CountInv, RingInv, HeldInv, RtHolding, TrialHolding
  <1>5. DiedInv'
    BY DEF DiedInv, TypeOK, CountInv, RingInv, HeldInv, RtHolding, TrialHolding
  <1>6. GivenInv'
    BY DEF GivenInv
  <1> QED
    BY <1>0, <1>1, <1>2, <1>3, <1>4, <1>5, <1>6

\* The message goes on record before the application gets it.
LEMMA TrialDeliverInv ==
    ASSUME Inv, TypeInv', ~strayed, ~strayed', TrialDeliver
    PROVE  Inv'
  <1> USE DEF Inv, TypeInv, TrialDeliver, trialUnchanged, flrVars, rtVars
  <1>0. HeldInv'
    BY DEF HeldInv, RtHolding, TrialHolding, RingInv, TypeOK, ErrorInv
  <1>1. CountInv'
    BY DEF CountInv, TypeOK, CountInv, RingInv, HeldInv, RtHolding, TrialHolding
  <1>2. ErrorInv'
    BY DEF ErrorInv, TypeOK, CountInv, RingInv, HeldInv, RtHolding, TrialHolding
  <1>3. RecordInv'
    BY DEF RecordInv, TypeOK, CountInv, RingInv, HeldInv, RtHolding, TrialHolding
  <1>4. VettedInv'
    BY DEF VettedInv, TypeOK, CountInv, RingInv, HeldInv, RtHolding, TrialHolding
  <1>5. DiedInv'
    BY DEF DiedInv, TypeOK, CountInv, RingInv, HeldInv, RtHolding, TrialHolding
  <1>6. GivenInv'
    BY DEF GivenInv
  <1> QED
    BY <1>0, <1>1, <1>2, <1>3, <1>4, <1>5, <1>6

\* The entry is vetted, and no longer on record.
LEMMA TrialReturnInv ==
    ASSUME Inv, TypeInv', ~strayed, ~strayed', TrialReturn
    PROVE  Inv'
  <1> USE DEF Inv, TypeInv, TrialReturn, trialUnchanged, flrVars, rtVars
  <1>0. HeldInv'
    BY DEF HeldInv, RtHolding, TrialHolding, RingInv, TypeOK, ErrorInv
  <1>1. CountInv'
    BY DEF CountInv, TypeOK, CountInv, RingInv, HeldInv, RtHolding, TrialHolding
  <1>2. ErrorInv'
    BY DEF ErrorInv, TypeOK, CountInv, RingInv, HeldInv, RtHolding, TrialHolding
  <1>3. RecordInv'
    BY DEF RecordInv, TypeOK, CountInv, RingInv, HeldInv, RtHolding, TrialHolding
  <1>4. VettedInv'
    BY DEF VettedInv, TypeOK, CountInv, RingInv, HeldInv, RtHolding, TrialHolding
  <1>5. DiedInv'
    BY DEF DiedInv, TypeOK, CountInv, RingInv, HeldInv, RtHolding, TrialHolding
  <1>6. GivenInv'
    BY DEF GivenInv, TypeOK, CountInv
  <1> QED
    BY <1>0, <1>1, <1>2, <1>3, <1>4, <1>5, <1>6

\* The message on record is the next one of the trial's ring.
LEMMA TrialCrashInv ==
    ASSUME Inv, TypeInv', ~strayed, ~strayed', TrialCrash
    PROVE  Inv'
  <1> USE DEF Inv, TypeInv, TrialCrash, TrialGone, ringVars, flrVars, rtVars
  <1>0. HeldInv'
    BY DEF HeldInv, RtHolding, TrialHolding, RingInv, TypeOK, ErrorInv
  <1>1. CountInv'
    BY DEF CountInv, TypeOK, CountInv, RingInv, HeldInv, RtHolding, TrialHolding, ErrorInv, RecordInv
  <1>2. ErrorInv'
    BY DEF ErrorInv
  <1>3. RecordInv'
    BY DEF RecordInv, TypeOK, CountInv, RingInv, HeldInv, RtHolding, TrialHolding
  <1>4. VettedInv'
    BY DEF VettedInv, TypeOK, CountInv, RingInv, HeldInv, RtHolding, TrialHolding, ErrorInv, RecordInv
  <1>5. DiedInv'
    BY DEF DiedInv, TypeOK, CountInv, RingInv, HeldInv, RtHolding, TrialHolding, ErrorInv, RecordInv
  <1>6. GivenInv'
    BY DEF GivenInv, TypeOK, CountInv, ErrorInv, RecordInv
  <1> QED
    BY <1>0, <1>1, <1>2, <1>3, <1>4, <1>5, <1>6

\* The same for a kill, as long as nothing is published without being freed.
LEMMA TrialKillInv ==
    ASSUME Inv, TypeInv', ~strayed, ~strayed', TrialKill, PublishedNotKilled
    PROVE  Inv'
  <1> USE DEF Inv, TypeInv, TrialKill, TrialGone, ringVars, flrVars, rtVars
  <1>0. HeldInv'
    BY DEF HeldInv, RtHolding, TrialHolding, RingInv, TypeOK, ErrorInv
  <1>1. CountInv'
    <2>1. tpc # "published" /\ tpc' = "dead"
      BY DEF PublishedNotKilled
    <2> QED
      BY <2>1 DEF CountInv
  <1>2. ErrorInv'
    BY DEF ErrorInv
  <1>3. RecordInv'
    BY DEF RecordInv, TypeOK, CountInv, RingInv, HeldInv, RtHolding, TrialHolding
  <1>4. VettedInv'
    BY DEF VettedInv, TypeOK, CountInv, RingInv, HeldInv, RtHolding, TrialHolding, ErrorInv, RecordInv
  <1>5. DiedInv'
    BY DEF DiedInv, TypeOK, CountInv, RingInv, HeldInv, RtHolding, TrialHolding, ErrorInv, RecordInv
  <1>6. GivenInv'
    BY DEF GivenInv, TypeOK, CountInv, ErrorInv, RecordInv
  <1> QED
    BY <1>0, <1>1, <1>2, <1>3, <1>4, <1>5, <1>6

\* What is published has been vetted.
LEMMA TrialPublishInv ==
    ASSUME Inv, TypeInv', ~strayed, ~strayed', TrialPublish
    PROVE  Inv'
  <1> USE DEF Inv, TypeInv, TrialPublish, trialUnchanged, flrVars, rtVars
  <1>0. HeldInv'
    BY DEF HeldInv, RtHolding, TrialHolding, RingInv, TypeOK, ErrorInv
  <1>1. CountInv'
    BY DEF CountInv, TypeOK, CountInv, RingInv, HeldInv, RtHolding, TrialHolding
  <1>2. ErrorInv'
    BY DEF ErrorInv
  <1>3. RecordInv'
    BY DEF RecordInv, TypeOK, CountInv, RingInv, HeldInv, RtHolding, TrialHolding
  <1>4. VettedInv'
    BY DEF VettedInv, TypeOK, CountInv, RingInv, HeldInv, RtHolding, TrialHolding
  <1>5. DiedInv'
    BY DEF DiedInv, TypeOK, CountInv, RingInv, HeldInv, RtHolding, TrialHolding
  <1>6. GivenInv'
    BY DEF GivenInv
  <1> QED
    BY <1>0, <1>1, <1>2, <1>3, <1>4, <1>5, <1>6

\* The trial's head catches up with its counter.
LEMMA TrialFreeEntryInv ==
    ASSUME Inv, TypeInv', ~strayed, ~strayed', TrialFreeEntry
    PROVE  Inv'
  <1> USE DEF Inv, TypeInv, TrialFreeEntry, trialUnchanged, flrVars, rtVars
  <1>0. HeldInv'
    BY DEF HeldInv, RtHolding, TrialHolding, RingInv, TypeOK, ErrorInv
  <1>1. CountInv'
    BY DEF CountInv, TypeOK, CountInv, RingInv, HeldInv, RtHolding, TrialHolding
  <1>2. ErrorInv'
    BY DEF ErrorInv, TypeOK, CountInv, RingInv, HeldInv, RtHolding, TrialHolding
  <1>3. RecordInv'
    BY DEF RecordInv, TypeOK, CountInv, RingInv, HeldInv, RtHolding, TrialHolding
  <1>4. VettedInv'
    BY DEF VettedInv, TypeOK, CountInv, RingInv, HeldInv, RtHolding, TrialHolding
  <1>5. DiedInv'
    BY DEF DiedInv, TypeOK, CountInv, RingInv, HeldInv, RtHolding, TrialHolding
  <1>6. GivenInv'
    BY DEF GivenInv, RingInv
  <1> QED
    BY <1>0, <1>1, <1>2, <1>3, <1>4, <1>5, <1>6

\* The realtime process has an entry, or none.
LEMMA RealtimePollInv ==
    ASSUME Inv, TypeInv', ~strayed, ~strayed', RealtimePoll
    PROVE  Inv'
  <1> USE DEF Inv, TypeInv, RealtimePoll, rtUnchanged, rtStepUnchanged, flrVars, trialVars
  <1>0. HeldInv'
    BY DEF HeldInv, RtHolding, TrialHolding, RingInv, TypeOK, ErrorInv
  <1>1. CountInv'
    BY DEF CountInv, TypeOK, CountInv, RingInv, HeldInv, RtHolding, TrialHolding
  <1>2. ErrorInv'
    BY DEF ErrorInv, TypeOK, CountInv, RingInv, HeldInv, RtHolding, TrialHolding
  <1>3. RecordInv'
    BY DEF RecordInv
  <1>4. VettedInv'
    BY DEF VettedInv
  <1>5. DiedInv'
    BY DEF DiedInv
  <1>6. GivenInv'
    BY DEF GivenInv, TypeOK, CountInv
  <1> QED
    BY <1>0, <1>1, <1>2, <1>3, <1>4, <1>5, <1>6

\* The trial is dead and everything it has published is done.
LEMMA RealtimeEmptyInv ==
    ASSUME Inv, TypeInv', ~strayed, ~strayed', RealtimeEmpty
    PROVE  Inv'
  <1> USE DEF Inv, TypeInv, RealtimeEmpty, rtUnchanged, rtStepUnchanged, flrVars, trialVars, IsAgentAlive, IsTrialAlive
  <1>0. HeldInv'
    BY DEF HeldInv, RtHolding, TrialHolding, RingInv, TypeOK, ErrorInv
  <1>1. CountInv'
    BY DEF CountInv, TypeOK, CountInv, RingInv, HeldInv, RtHolding, TrialHolding
  <1>2. ErrorInv'
    BY DEF ErrorInv, TypeOK, CountInv, RingInv, HeldInv, RtHolding, TrialHolding
  <1>3. RecordInv'
    BY DEF RecordInv
  <1>4. VettedInv'
    BY DEF VettedInv
  <1>5. DiedInv'
    BY DEF DiedInv
  <1>6. GivenInv'
    BY DEF GivenInv, TypeOK, CountInv
  <1> QED
    BY <1>0, <1>1, <1>2, <1>3, <1>4, <1>5, <1>6

\* The entry the realtime process has is published.
LEMMA WaitTrialTestInv ==
    ASSUME Inv, TypeInv', ~strayed, ~strayed', WaitTrialTest
    PROVE  Inv'
  <1> USE DEF Inv, TypeInv, WaitTrialTest, rtUnchanged, rtStepUnchanged, flrVars, trialVars
  <1>0. HeldInv'
    BY DEF HeldInv, RtHolding, TrialHolding, RingInv, TypeOK, ErrorInv
  <1>1. CountInv'
    BY DEF CountInv, TypeOK, CountInv, RingInv, HeldInv, RtHolding, TrialHolding
  <1>2. ErrorInv'
    BY DEF ErrorInv, TypeOK, CountInv, RingInv, HeldInv, RtHolding, TrialHolding
  <1>3. RecordInv'
    BY DEF RecordInv
  <1>4. VettedInv'
    BY DEF VettedInv
  <1>5. DiedInv'
    BY DEF DiedInv
  <1>6. GivenInv'
    BY DEF GivenInv, TypeOK, CountInv
  <1> QED
    BY <1>0, <1>1, <1>2, <1>3, <1>4, <1>5, <1>6

\* Published, or the trial is dead and everything it has published is done.
LEMMA WaitTrialCheckInv ==
    ASSUME Inv, TypeInv', ~strayed, ~strayed', WaitTrialCheck
    PROVE  Inv'
  <1> USE DEF Inv, TypeInv, WaitTrialCheck, rtUnchanged, rtStepUnchanged, flrVars, trialVars, IsAgentAlive, IsTrialAlive
  <1>0. HeldInv'
    BY DEF HeldInv, RtHolding, TrialHolding, RingInv, TypeOK, ErrorInv
  <1>1. CountInv'
    BY DEF CountInv, TypeOK, CountInv, RingInv, HeldInv, RtHolding, TrialHolding
  <1>2. ErrorInv'
    BY DEF ErrorInv, TypeOK, CountInv, RingInv, HeldInv, RtHolding, TrialHolding
  <1>3. RecordInv'
    BY DEF RecordInv
  <1>4. VettedInv'
    BY DEF VettedInv
  <1>5. DiedInv'
    BY DEF DiedInv
  <1>6. GivenInv'
    BY DEF GivenInv, TypeOK, CountInv
  <1> QED
    BY <1>0, <1>1, <1>2, <1>3, <1>4, <1>5, <1>6

\* The entry that is given is vetted, and no trial died on it.
LEMMA RealtimeDeliverInv ==
    ASSUME Inv, TypeInv', ~strayed, ~strayed', RealtimeDeliver
    PROVE  Inv'
  <1> USE DEF Inv, TypeInv, RealtimeDeliver, rtUnchanged, rtStepUnchanged, flrVars, trialVars
  <1>0. HeldInv'
    BY DEF HeldInv, RtHolding, TrialHolding, RingInv, TypeOK, ErrorInv
  <1>1. CountInv'
    BY DEF CountInv, TypeOK, CountInv, RingInv, HeldInv, RtHolding, TrialHolding
  <1>2. ErrorInv'
    BY DEF ErrorInv, TypeOK, CountInv, RingInv, HeldInv, RtHolding, TrialHolding
  <1>3. RecordInv'
    BY DEF RecordInv
  <1>4. VettedInv'
    BY DEF VettedInv
  <1>5. DiedInv'
    BY DEF DiedInv
  <1>6. GivenInv'
    <2>0. given' = Append(given, rtHead + 1)
      BY DEF HeldInv, RtHolding
    <2>1. rtHead + 1 \in Nat /\ rtHead < shm /\ rtHead \in Nat /\ trHead \in Nat /\ shm \in Nat
      BY DEF TypeOK, CountInv
    <2>2. rtHead + 1 \in vetted
      BY <2>1 DEF VettedInv
    <2>3. rtHead + 1 \notin died
      BY <2>1 DEF DiedInv, CountInv
    <2>4. given' \in Seq(Nat) /\ Len(given') = Len(given) + 1 /\ Len(given) \in Nat
      BY <2>0, <2>1 DEF GivenInv
    <2>5. \A k \in 1 .. Len(given) : given'[k] = given[k] /\ given[k] \in Nat
      BY <2>1 DEF GivenInv
    <2>6. given'[Len(given) + 1] = rtHead + 1
      BY <2>0, <2>1 DEF GivenInv
    <2>7. ASSUME NEW k \in 1 .. Len(given')
          PROVE  given'[k] <= rtHead + 1 /\ given'[k] \in vetted /\ given'[k] \notin died
      <3>1. CASE k = Len(given) + 1
        BY <2>1, <2>2, <2>3, <2>6, <3>1
      <3>2. CASE k \in 1 .. Len(given)
        BY <2>1, <2>5, <3>2 DEF GivenInv
      <3> QED
        BY <2>4, <3>1, <3>2
    <2> QED
      BY <2>4, <2>7 DEF GivenInv
  <1> QED
    BY <1>0, <1>1, <1>2, <1>3, <1>4, <1>5, <1>6

\* The counter of the realtime process follows its head.
LEMMA RealtimeDoneInv ==
    ASSUME Inv, TypeInv', ~strayed, ~strayed', RealtimeDone
    PROVE  Inv'
  <1> USE DEF Inv, TypeInv, RealtimeDone, rtUnchanged, rtStepUnchanged, flrVars, trialVars
  <1>0. HeldInv'
    BY DEF HeldInv, RtHolding, TrialHolding, RingInv, TypeOK, ErrorInv
  <1>1. CountInv'
    BY DEF CountInv, TypeOK, CountInv, RingInv, HeldInv, RtHolding, TrialHolding
  <1>2. ErrorInv'
    BY DEF ErrorInv, TypeOK, CountInv, RingInv, HeldInv, RtHolding, TrialHolding
  <1>3. RecordInv'
    BY DEF RecordInv
  <1>4. VettedInv'
    BY DEF VettedInv, TypeOK, CountInv, RingInv, HeldInv, RtHolding, TrialHolding
  <1>5. DiedInv'
    BY DEF DiedInv, TypeOK, CountInv, RingInv, HeldInv, RtHolding, TrialHolding
  <1>6. GivenInv'
    BY DEF GivenInv, TypeOK, CountInv
  <1> QED
    BY <1>0, <1>1, <1>2, <1>3, <1>4, <1>5, <1>6

\* Both rings lose the message on record.
LEMMA SkipErrorMessageInv ==
    ASSUME Inv, TypeInv', ~strayed, ~strayed', SkipErrorMessage
    PROVE  Inv'
  <1> USE DEF Inv, TypeInv, SkipErrorMessage, rtUnchanged, rtStepUnchanged, flrVars, trialVars, SkipTo, ErrorMessage
  <1>0. HeldInv'
    BY DEF HeldInv, RtHolding, TrialHolding, RingInv, TypeOK, ErrorInv
  <1>1. CountInv'
    BY DEF CountInv, TypeOK, CountInv, RingInv, HeldInv, RtHolding, TrialHolding, ErrorInv, RecordInv
  <1>2. ErrorInv'
    BY DEF RingInv, HeldInv, RtHolding, TrialHolding, ErrorInv, RecordInv, TypeOK
  <1>3. RecordInv'
    BY DEF RingInv, HeldInv, RtHolding, TrialHolding, ErrorInv, RecordInv, TypeOK
  <1>4. VettedInv'
    BY DEF VettedInv, TypeOK, CountInv, RingInv, HeldInv, RtHolding, TrialHolding, ErrorInv, RecordInv
  <1>5. DiedInv'
    BY DEF DiedInv, TypeOK, CountInv, RingInv, HeldInv, RtHolding, TrialHolding, ErrorInv, RecordInv
  <1>6. GivenInv'
    BY DEF GivenInv, TypeOK, CountInv, ErrorInv, RecordInv
  <1> QED
    BY <1>0, <1>1, <1>2, <1>3, <1>4, <1>5, <1>6

\* The new trial counts from the heads, which are the same.
LEMMA StartTrialProcessInv ==
    ASSUME Inv, TypeInv', ~strayed, ~strayed', StartTrialProcess
    PROVE  Inv'
  <1> USE DEF Inv, TypeInv, StartTrialProcess, rtUnchanged, rtStepUnchanged, flrVars, trialVars
  <1>0. HeldInv'
    BY DEF HeldInv, RtHolding, TrialHolding, RingInv, TypeOK, ErrorInv
  <1>1. CountInv'
    BY DEF CountInv, TypeOK, CountInv, RingInv, HeldInv, RtHolding, TrialHolding, ErrorInv, RecordInv
  <1>2. ErrorInv'
    BY DEF ErrorInv, TypeOK, CountInv, RingInv, HeldInv, RtHolding, TrialHolding
  <1>3. RecordInv'
    BY DEF RecordInv, TypeOK, CountInv, RingInv, HeldInv, RtHolding, TrialHolding
  <1>4. VettedInv'
    BY DEF VettedInv, TypeOK, CountInv, RingInv, HeldInv, RtHolding, TrialHolding, ErrorInv, RecordInv
  <1>5. DiedInv'
    BY DEF DiedInv, TypeOK, CountInv, RingInv, HeldInv, RtHolding, TrialHolding, ErrorInv, RecordInv
  <1>6. GivenInv'
    BY DEF GivenInv, TypeOK, CountInv, ErrorInv, RecordInv
  <1> QED
    BY <1>0, <1>1, <1>2, <1>3, <1>4, <1>5, <1>6

-----------------------------------------------------------------------------
(* The theorems.                                                           *)

\* What OnTrialError asserts of a message on record.
LEMMA ErrorAssertsHold ==
    ASSUME Inv, rpc = "error", processed # deliverd
    PROVE  ErrorAsserts
  <1>1. deliverd = trHead + 1 /\ rtHead = trHead /\ tpc = "dead" /\ rnr = shm
    BY DEF Inv, TypeInv, RingInv, ErrorInv, RecordInv, CountInv
  <1>2. deliverd > processed
    BY DEF Inv, RecordInv, TypeInv, TypeOK
  <1>3. deliverd \in Messages
    BY <1>1, FollowerAssumption DEF Inv, RecordInv, TypeInv, TypeOK, Messages, Entries
  <1> QED
    BY <1>1, <1>2, <1>3 DEF ErrorAsserts

\* Nothing is posted yet, and the first trial is on its way, on its own ring.
LEMMA InitInv == Init => IInv
  <1> SUFFICES ASSUME Init PROVE TypeInv /\ Inv
    BY DEF IInv
  <1>1. TypeOK
    <2>1. strayed \in BOOLEAN /\ stale \in BOOLEAN /\ ~strayed
      BY DEF Init
    <2>2. /\ rtTail \in 0 .. NEntries /\ trTail \in 0 .. NEntries
          /\ rtHead \in 0 .. rtTail /\ trHead \in 0 .. trTail
          /\ deliverd \in Nat /\ processed \in Nat /\ shm \in Nat /\ rnr \in Nat /\ tnr \in Nat
      BY FollowerAssumption DEF Init
    <2>3. /\ agent \in {"between", "inside", "dead"} /\ rpc \in Steps /\ tpc \in TrialSteps
          /\ rent \in {0} \cup Entries /\ tent \in {0} \cup Entries
          /\ tring \in {"trial", "realtime"}
      BY DEF Init, Steps, TrialSteps
    <2> QED
      BY <2>1, <2>2, <2>3 DEF TypeOK
  <1>2. RingInv
    BY DEF Init, RingInv, RtHeld, TrialHeld, RtHolding, TrialHolding
  <1>3. HeldInv /\ CountInv /\ ErrorInv /\ RecordInv /\ VettedInv /\ DiedInv /\ GivenInv
    BY DEF Init, HeldInv, RtHolding, TrialHolding, CountInv, ErrorInv, RecordInv, VettedInv,
       DiedInv, GivenInv
  <1> QED
    BY <1>1, <1>2, <1>3 DEF TypeInv, Inv

\* A trial that has strayed is not forgotten.
LEMMA StrayedStays == [Next]_vars /\ ~strayed' => ~strayed
  BY DEF Next, Agent, AgentPostFirst, AgentPostSecond, AgentDie, TrialStep, TrialPoll,
     TrialDeliver, TrialReturn, TrialCrash, TrialKill, TrialGone, TrialPublish, TrialFreeEntry,
     RealtimeStep, RealtimePoll, RealtimeEmpty, WaitTrialTest, WaitTrialCheck, RealtimeDeliver,
     RealtimeDone, FreeEntryTogether, SkipErrorMessage, SkipTo, OnTrialErrorAborts,
     StartTrialProcess, vars, trialUnchanged, rtStepUnchanged

\* Every step keeps the invariant.
LEMMA NextInv ==
    ASSUME PublishedNotKilled
    PROVE  IInv /\ [Next]_vars => IInv'
  <1> SUFFICES ASSUME IInv, [Next]_vars PROVE IInv'
    OBVIOUS
  <1>1. TypeInv'
    BY TypeNext DEF IInv
  <1> SUFFICES ASSUME ~strayed' PROVE Inv'
    BY <1>1 DEF IInv
  <1>2. ~strayed /\ Inv
    BY StrayedStays DEF IInv
  <1>3. CASE Agent \/ AgentDie
    BY <1>1, <1>2, <1>3, AgentPostFirstInv, AgentPostSecondInv, AgentDieInv DEF Agent
  <1>4. CASE TrialStep \/ TrialKill
    BY <1>1, <1>2, <1>4, TrialPollInv, TrialDeliverInv, TrialReturnInv, TrialCrashInv,
       TrialKillInv, TrialPublishInv, TrialFreeEntryInv DEF TrialStep
  <1>5. CASE RealtimeStep
    <2>1. ~OnTrialErrorAborts
      BY <1>2, ErrorAssertsHold DEF OnTrialErrorAborts, ErrorMessage
    <2> QED
      BY <1>1, <1>2, <1>5, <2>1, RealtimePollInv, RealtimeEmptyInv, WaitTrialTestInv,
         WaitTrialCheckInv, RealtimeDeliverInv, RealtimeDoneInv, SkipErrorMessageInv,
         StartTrialProcessInv DEF RealtimeStep
  <1>6. CASE FreeEntryTogether
    BY <1>2, <1>6 DEF FreeEntryTogether, Inv, TypeInv, RingInv
  <1>7. CASE UNCHANGED vars
    BY <1>1, <1>2, <1>7 DEF Inv, HeldInv, RtHolding, TrialHolding, CountInv, ErrorInv, RecordInv,
       VettedInv, DiedInv, GivenInv, vars, ringVars, flrVars, rtVars, trialVars
  <1> QED
    BY <1>3, <1>4, <1>5, <1>6, <1>7 DEF Next

\* Whenever and wherever the trial process dies, and whatever ring it is on, the
\* head of the trial ring never passes its tail; that of the realtime ring passes it
\* only after a trial was forked onto it, and then by one entry at most.
THEOREM TypeCorrect == Spec => []TypeOK
  <1>1. Init => TypeInv
    BY InitInv DEF IInv
  <1>2. TypeInv => TypeOK
    BY DEF TypeInv
  <1> QED
    BY <1>1, <1>2, TypeNext, PTL DEF Spec

\* The inductive invariant holds as long as no trial is killed after it has
\* published an entry and before it has freed it.
THEOREM Invariance ==
    ASSUME PublishedNotKilled
    PROVE  Spec => []IInv
  BY InitInv, NextInv, PTL DEF Spec

\* However often the trial process crashes or is killed elsewhere, the realtime
\* application is given only entries that a trial got through, until a trial is
\* forked onto the realtime ring.
THEOREM GivenIsVetted ==
    ASSUME PublishedNotKilled
    PROVE  Spec => []OnlyVetted
  <1>1. IInv => OnlyVetted
    BY DEF IInv, Inv, GivenInv, OnlyVetted
  <1> QED
    BY <1>1, Invariance, PTL

\* A message on which a trial process died never reaches the realtime application,
\* until a trial is forked onto the realtime ring.
THEOREM DeadlyIsSkipped ==
    ASSUME PublishedNotKilled
    PROVE  Spec => []DeadlyNeverGiven
  <1>1. IInv => DeadlyNeverGiven
    BY DEF IInv, Inv, GivenInv, DeadlyNeverGiven
  <1> QED
    BY <1>1, Invariance, PTL

\* The assertions of OnTrialError hold: the message on record is the next one in
\* both rings, and the counters agree, until a trial is forked onto the realtime ring.
THEOREM AssertsHold ==
    ASSUME PublishedNotKilled
    PROVE  Spec => []TrialErrorAsserts
  <1>1. IInv => TrialErrorAsserts
    BY ErrorAssertsHold DEF IInv, TrialErrorAsserts, Inv, ErrorInv
  <1> QED
    BY <1>1, Invariance, PTL

-----------------------------------------------------------------------------
(* The records of the tx ring.                                             *)

\* A done record for the next message.
LEMMA ReportDone ==
    ASSUME NEW s \in Seq(Records), NEW h \in Nat, Reported(s, h), h + 1 \in Messages
    PROVE  /\ Append(s, <<"done", h + 1>>) \in Seq(Records)
           /\ Reported(Append(s, <<"done", h + 1>>), h + 1)
  <1> DEFINE t == Append(s, <<"done", h + 1>>)
  <1>1. t \in Seq(Records) /\ Len(t) = Len(s) + 1 /\ Len(s) \in Nat
    BY DEF Records
  <1>2. \A i \in 1 .. Len(s) : t[i] = s[i] /\ s[i] \in Records
    OBVIOUS
  <1>3. t[Len(s) + 1] = <<"done", h + 1>>
    OBVIOUS
  <1> HIDE DEF t
  <1>4. \A i \in 1 .. Len(s) : s[i][1] = "done" => s[i][2] \in Nat /\ s[i][2] <= h
    <2> TAKE i \in 1 .. Len(s)
    <2> HAVE s[i][1] = "done"
    <2>1. s[i] = <<"done", s[i][2]>> /\ s[i][2] \in Nat
      BY <1>2 DEF Records
    <2> QED
      BY <2>1 DEF Reported
  <1>5. ASSUME NEW m \in Nat
        PROVE  (\E i \in 1 .. Len(t) : t[i] = <<"done", m>>) <=> m \in Messages /\ m <= h + 1
    <2>1. CASE m = h + 1
      BY <1>1, <1>3, <2>1
    <2>2. CASE m # h + 1
      <3>1. (\E i \in 1 .. Len(t) : t[i] = <<"done", m>>)
                <=> \E i \in 1 .. Len(s) : s[i] = <<"done", m>>
        <4>1. <<"done", h + 1>> # <<"done", m>>
          BY <2>2
        <4>2. \A i \in 1 .. Len(t) : i \in 1 .. Len(s) \/ i = Len(s) + 1
          BY <1>1
        <4>3. \A i \in 1 .. Len(s) : i \in 1 .. Len(t)
          BY <1>1
        <4> QED
          BY <1>2, <1>3, <4>1, <4>2, <4>3
      <3>2. m <= h + 1 <=> m <= h
        BY <2>2
      <3> QED
        BY <3>1, <3>2 DEF Reported
    <2> QED
      BY <2>1, <2>2
  <1>6. ASSUME NEW i \in 1 .. Len(t), NEW j \in 1 .. Len(t), i < j,
               t[i][1] = "done", t[j][1] = "done"
        PROVE  t[i][2] < t[j][2]
    <2>1. i \in 1 .. Len(s)
      BY <1>1, <1>6
    <2>2. CASE j = Len(s) + 1
      BY <1>2, <1>3, <1>4, <1>6, <2>1, <2>2
    <2>3. CASE j \in 1 .. Len(s)
      BY <1>2, <1>6, <2>1, <2>3 DEF Reported
    <2> QED
      BY <1>1, <2>2, <2>3
  <1> QED
    BY <1>1, <1>5, <1>6 DEF Reported, t

\* A discard record.
LEMMA ReportDiscard ==
    ASSUME NEW s \in Seq(Records), NEW h \in Nat, Reported(s, h), NEW m \in Nat
    PROVE  Append(s, <<"discard", m>>) \in Seq(Records) /\ Reported(Append(s, <<"discard", m>>), h)
  <1> DEFINE t == Append(s, <<"discard", m>>)
  <1>1. t \in Seq(Records) /\ Len(t) = Len(s) + 1 /\ Len(s) \in Nat
    BY DEF Records
  <1>2. \A i \in 1 .. Len(s) : t[i] = s[i]
    OBVIOUS
  <1>3. t[Len(s) + 1] = <<"discard", m>> /\ t[Len(s) + 1][1] # "done"
    OBVIOUS
  <1> HIDE DEF t
  <1>4. \A i \in 1 .. Len(t) : i \in 1 .. Len(s) \/ i = Len(s) + 1
    BY <1>1
  <1>5. \A k \in Nat : (\E i \in 1 .. Len(t) : t[i] = <<"done", k>>)
                           <=> \E i \in 1 .. Len(s) : s[i] = <<"done", k>>
    BY <1>1, <1>2, <1>3, <1>4
  <1>6. \A i, j \in 1 .. Len(t) : i < j /\ t[i][1] = "done" /\ t[j][1] = "done" => t[i][2] < t[j][2]
    BY <1>2, <1>3, <1>4 DEF Reported
  <1> QED
    BY <1>1, <1>5, <1>6 DEF Reported, t

\* For every message that is over there is one done record in the tx ring, skipped
\* or not, they are in order, and there is none for another message.
THEOREM DoneOnce ==
    ASSUME PublishedNotKilled
    PROVE  Spec => []DoneOncePerMessage
  <1> DEFINE DoneInv == strayed \/ (tx \in Seq(Records) /\ DoneInOrder)
  <1>1. Init => DoneInv
    BY FollowerAssumption DEF Init, DoneInOrder, Reported, Messages, Entries
  <1>2. IInv /\ DoneInv /\ [Next]_vars => DoneInv'
    <2> SUFFICES ASSUME Inv, ~strayed, tx \in Seq(Records), DoneInOrder, [Next]_vars
                 PROVE  tx' \in Seq(Records) /\ DoneInOrder'
      BY StrayedStays DEF IInv
    <2>1. rtHead \in Nat /\ rtTail \in Nat /\ rtTail <= NEntries /\ trHead \in Nat
      BY FollowerAssumption DEF Inv, TypeInv, TypeOK
    <2>2. CASE RealtimeDone
      <3>1. rtHead < rtTail /\ rtHead' = rtHead + 1
        BY <2>1, <2>2 DEF RealtimeDone, Inv, TypeInv, RingInv, TypeOK, RtHeld, TrialHeld, RtHolding
      <3>2. CASE rtHead + 1 \in Events
        <4>1. \A m \in Nat : m \in Messages /\ m <= rtHead + 1 <=> m \in Messages /\ m <= rtHead
          BY <2>1, <3>2 DEF Messages
        <4>2. tx' = tx
          BY <2>2, <3>2 DEF RealtimeDone, Inv, HeldInv, RtHolding
        <4> QED
          BY <3>1, <4>1, <4>2 DEF DoneInOrder, Reported
      <3>3. CASE rtHead + 1 \notin Events
        <4>1. rtHead + 1 \in Messages
          BY <2>1, <3>1, <3>3, FollowerAssumption DEF Messages, Entries
        <4>2. tx' = Append(tx, <<"done", rtHead + 1>>)
          BY <2>2, <3>3 DEF RealtimeDone, Inv, HeldInv, RtHolding
        <4> QED
          BY <2>1, <3>1, <4>1, <4>2, ReportDone DEF DoneInOrder
      <3> QED
        BY <3>2, <3>3
    <2>3. CASE SkipErrorMessage
      <3>1. /\ rtHead' = rtHead + 1 /\ rtHead < rtTail /\ rpc = "error" /\ processed # deliverd
            /\ tx' = tx \o << <<"discard", rtHead + 1>>, <<"done", rtHead + 1>> >>
        BY <2>3 DEF SkipErrorMessage, SkipTo, ErrorMessage
      <3>2. rtHead + 1 \in Messages
        BY <2>1, <3>1, FollowerAssumption DEF Inv, ErrorInv, RecordInv, Messages, Entries
      <3> DEFINE t == Append(tx, <<"discard", rtHead + 1>>)
      <3>3. t \in Seq(Records) /\ Reported(t, rtHead)
        BY <2>1, ReportDiscard DEF DoneInOrder
      <3>4. tx' = Append(t, <<"done", rtHead + 1>>)
        BY <2>1, <3>1 DEF Records
      <3> HIDE DEF t
      <3> QED
        BY <2>1, <3>1, <3>2, <3>3, <3>4, ReportDone DEF DoneInOrder
    <2>4. CASE ~RealtimeDone /\ ~SkipErrorMessage
      <3>1. tx' = tx /\ rtHead' = rtHead
        <4>1. ~FreeEntryTogether
          BY DEF FreeEntryTogether, Inv, TypeInv, RingInv
        <4> QED
          BY <2>4, <4>1 DEF Next, Agent, AgentPostFirst, AgentPostSecond, AgentDie, TrialStep, TrialPoll,
             TrialDeliver, TrialReturn, TrialCrash, TrialKill, TrialGone, TrialPublish,
             TrialFreeEntry, RealtimeStep, RealtimePoll, RealtimeEmpty, WaitTrialTest,
             WaitTrialCheck, RealtimeDeliver, OnTrialErrorAborts, StartTrialProcess, vars,
             ringVars, trialUnchanged, rtStepUnchanged, Inv, TypeInv, RingInv
      <3> QED
        BY <3>1 DEF DoneInOrder
    <2> QED
      BY <2>2, <2>3, <2>4
  <1>3. DoneInv => DoneOncePerMessage
    <2> SUFFICES ASSUME tx \in Seq(Records), DoneInOrder PROVE DoneOncePerMessage
      BY DEF DoneOncePerMessage
    <2>1. \A i \in 1 .. Len(tx) : tx[i] \in Records
      OBVIOUS
    <2>2. \A i \in 1 .. Len(tx) : \A m : tx[i] = <<"done", m>> <=> tx[i][1] = "done" /\ tx[i][2] = m
      BY <2>1 DEF Records
    <2>3. \A i \in 1 .. Len(tx) : tx[i][2] \in Nat
      BY <2>1 DEF Records
    <2>4. \A m \in Messages : m \in Nat
      BY FollowerAssumption DEF Messages, Entries
    <2> DEFINE done == {i \in 1 .. Len(tx) : tx[i][1] = "done"}
    <2>5. \A m \in Nat :
              (\E i \in 1 .. Len(tx) : tx[i] = <<"done", m>>) <=> m \in Messages /\ m <= rtHead
      BY DEF DoneInOrder, Reported
    <2>6. ASSUME NEW i \in done PROVE tx[i][2] \in {m \in Messages : m <= rtHead}
      <3>1. PICK n \in Nat : n = tx[i][2]
        BY <2>3
      <3>2. tx[i] = <<"done", n>>
        BY <2>2, <3>1
      <3> QED
        BY <2>5, <3>1, <3>2
    <2>7. ASSUME NEW m \in Messages, m <= rtHead PROVE \E i \in done : tx[i][2] = m
      <3>1. PICK i \in 1 .. Len(tx) : tx[i] = <<"done", m>>
        BY <2>4, <2>5, <2>7
      <3> QED
        BY <2>2, <3>1
    <2>8. {tx[i][2] : i \in done} = {m \in Messages : m <= rtHead}
      BY <2>6, <2>7
    <2>9. \A i, j \in done : i < j => tx[i][2] < tx[j][2]
      BY DEF DoneInOrder, Reported
    <2> QED
      BY <2>8, <2>9 DEF DoneOncePerMessage
  <1> QED
    BY <1>1, <1>2, <1>3, Invariance, PTL DEF Spec

=============================================================================
