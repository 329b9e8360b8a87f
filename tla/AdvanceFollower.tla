--------------------------- MODULE AdvanceFollower ---------------------------
(***************************************************************************)
(* A shard in advance-follower mode: the agent puts every entry into two  *)
(* rings, a trial process runs each entry first, and the realtime process *)
(* follows it through the counters of FlrProxyLaunchShm in shared memory. *)
(* When the trial process dies, the realtime process throws away the      *)
(* message it died on and forks a new trial from itself.  The child       *)
(* returns into PollingMessage, which refreshes its local rx_cont_shm only *)
(* after WaitTrialProcess: a trial forked while the realtime ring is empty *)
(* goes on polling and freeing that ring, beside the realtime process.    *)
(*                                                                         *)
(* Entries are numbered 1, 2, ... in the order the agent posts them; those *)
(* in Events are AMI events or channel posts, the others are messages and *)
(* carry their number as total_order_sqn.  The rings themselves are       *)
(* module ContinueMemory: here a ring is its head and its tail, and all   *)
(* entries have the same length.  Assertions are compiled in: a process   *)
(* that fails one aborts.                                                  *)
(***************************************************************************)
EXTENDS Integers, Sequences

CONSTANTS NEntries,      \* bound: entries the agent posts
          Events,        \* the entries that are not messages
          Fatal,         \* entries the trial application may turn out to crash on
          KillPoints,    \* steps of the trial process at which it may be killed
          MaxKills,      \* bound: kills in a behaviour
          AgentMayDie    \* whether the agent process may die

Entries  == 1 .. NEntries
Messages == Entries \ Events

ASSUME FollowerAssumption ==
    /\ NEntries \in Nat /\ MaxKills \in Nat /\ AgentMayDie \in BOOLEAN
    /\ Events \subseteq Entries /\ Fatal \subseteq Entries

VARIABLES
    agent,                         \* "between", "inside" (one ring posted) or "dead"
    rtTail, trTail,                \* tails of the realtime and of the trial rx ring
    rtHead, trHead,                \* and their heads
    deliverd, processed, shm,      \* flr_launch_: nr_msg_deliverd_sqn,
                                   \* nr_msg_processed_sqn, nr_shm_processed_sqn
    rpc, rnr,                      \* realtime: step, its ctx's nr_shm_processed_sqn
    tpc, tnr,                      \* trial: step, its ctx's nr_shm_processed_sqn
    rent, tent,                    \* the entry each of them holds, 0 for none
    tring,                         \* the ring that rx_cont_shm names in the trial
    stale,                         \* OnTrialError was called from CheckAndFixTrial
    kills, poison,                 \* kills so far, entries the application crashes on
    tx,                            \* what the realtime process wrote to its tx ring
    given, vetted, died,           \* histories: entries handed to the realtime
                                   \* application, entries a trial got through,
                                   \* messages a trial died on
    strayed                        \* history: a trial was forked onto the realtime ring

ringVars == <<rtTail, trTail, rtHead, trHead>>
flrVars  == <<deliverd, processed, shm>>
rtVars    == <<rpc, rnr, rent, stale>>
trialVars == <<tpc, tnr, tent, tring>>
vars == <<agent, ringVars, flrVars, rtVars, trialVars, kills, poison, tx,
          given, vetted, died, strayed>>

Init ==
    /\ agent = "between"
    /\ rtTail = 0 /\ trTail = 0 /\ rtHead = 0 /\ trHead = 0
    /\ deliverd = 0 /\ processed = 0 /\ shm = 0
    /\ rpc = "poll" /\ rnr = 0
    /\ tpc = "poll" /\ tnr = 0 /\ tring = "trial"
    /\ rent = 0 /\ tent = 0 /\ stale = FALSE /\ strayed = FALSE
    /\ kills = 0 /\ poison \in SUBSET Fatal
    /\ tx = << >> /\ given = << >> /\ vetted = {} /\ died = {}

IsAgentAlive == agent # "dead"
IsTrialAlive == tpc \notin {"dead", "exited"}

-----------------------------------------------------------------------------
(* The agent.                                                              *)

\* The first of the two posts of an entry: DeliverFlrMessage fills the trial
\* ring first, PushEvent and ShardingPost the realtime ring.
AgentPostFirst ==
    /\ agent = "between" /\ trTail < NEntries
    /\ IF trTail + 1 \in Events THEN rtTail' = rtTail + 1 /\ UNCHANGED trTail
                                ELSE trTail' = trTail + 1 /\ UNCHANGED rtTail
    /\ agent' = "inside"
    /\ UNCHANGED <<rtHead, trHead, flrVars, rtVars, trialVars, kills, poison, tx,
                   given, vetted, died, strayed>>

AgentPostSecond ==
    /\ agent = "inside"
    /\ IF rtTail < trTail THEN rtTail' = rtTail + 1 /\ UNCHANGED trTail
                          ELSE trTail' = trTail + 1 /\ UNCHANGED rtTail
    /\ agent' = "between"
    /\ UNCHANGED <<rtHead, trHead, flrVars, rtVars, trialVars, kills, poison, tx,
                   given, vetted, died, strayed>>

\* The agent stops or is killed: the proxies find kComStop or a closed pipe.
AgentDie ==
    /\ AgentMayDie /\ IsAgentAlive
    /\ agent' = "dead"
    /\ UNCHANGED <<ringVars, flrVars, rtVars, trialVars, kills, poison, tx,
                   given, vetted, died, strayed>>

-----------------------------------------------------------------------------
(* The trial process: PollingMessage with is_trial_.                       *)

trialUnchanged == <<agent, rtTail, trTail, rtVars, tring, kills, poison, tx, given,
                    strayed>>

\* The ring that the trial process polls and frees.
TrialHead == IF tring = "trial" THEN trHead ELSE rtHead
TrialTail == IF tring = "trial" THEN trTail ELSE rtTail

\* TryWaitEntry; with the ring empty and the agent gone the process leaves its
\* loop and writes kComStop to the realtime process.
TrialPoll ==
    /\ tpc = "poll"
    /\ tpc' = CASE TrialHead < TrialTail -> "entry"
                [] TrialHead >= TrialTail /\ IsAgentAlive -> "poll"
                [] OTHER -> "exited"
    /\ tent' = IF TrialHead < TrialTail THEN TrialHead + 1 ELSE 0
    /\ UNCHANGED <<trialUnchanged, rtHead, trHead, flrVars, tnr, vetted, died>>

TrialDeliver ==
    /\ tpc = "entry"
    /\ deliverd' = IF tent \in Events THEN deliverd ELSE tent
    /\ tpc' = "app"
    /\ UNCHANGED <<trialUnchanged, rtHead, trHead, processed, shm, tnr, tent, vetted, died>>

\* The application's callback returns ...
TrialReturn ==
    /\ tpc = "app" /\ tent \notin poison
    /\ processed' = IF tent \in Events THEN processed ELSE tent
    /\ vetted' = vetted \cup {tent}
    /\ tpc' = "processed"
    /\ UNCHANGED <<trialUnchanged, rtHead, trHead, deliverd, shm, tnr, tent, died>>

\* The process is gone: its pipe closes.  An unfinished message is on record.
TrialGone ==
    /\ tpc' = "dead" /\ tent' = 0
    /\ died' = IF deliverd # processed THEN died \cup {deliverd} ELSE died
    /\ UNCHANGED <<agent, ringVars, flrVars, rtVars, tnr, tring, poison, tx, given, vetted,
                   strayed>>

\* ... or it raises a fatal signal (HandExceptionSignal).
TrialCrash ==
    /\ tpc = "app" /\ tent \in poison
    /\ TrialGone /\ UNCHANGED kills

\* A quit signal (OnSignal calls _exit), or a fault in another thread.
TrialKill ==
    /\ tpc \in KillPoints /\ kills < MaxKills
    /\ kills' = kills + 1
    /\ TrialGone

\* The realtime process may follow from here on.
TrialPublish ==
    /\ tpc = "processed"
    /\ tnr' = tnr + 1 /\ shm' = tnr + 1
    /\ tpc' = "published"
    /\ UNCHANGED <<trialUnchanged, rtHead, trHead, deliverd, processed, tent, vetted, died>>

TrialFreeEntry ==
    /\ tpc = "published"
    /\ IF tring = "trial"
         THEN trHead' = trHead + 1 /\ UNCHANGED rtHead
         ELSE rtHead' = rtHead + 1 /\ UNCHANGED trHead
    /\ tpc' = "poll" /\ tent' = 0
    /\ UNCHANGED <<trialUnchanged, flrVars, tnr, vetted, died>>

-----------------------------------------------------------------------------
(* The realtime process: PollingMessage without is_trial_.                 *)

rtUnchanged == <<agent, rtTail, trTail, kills, poison, vetted, died>>

\* A step that moves the realtime process alone.
rtStepUnchanged == <<rtUnchanged, rtHead, trHead, flrVars, rnr, trialVars, tx, strayed>>

RealtimePoll ==
    /\ rpc = "poll"
    /\ rpc' = IF rtHead < rtTail THEN "wait" ELSE "empty"
    /\ rent' = IF rtHead < rtTail THEN rtHead + 1 ELSE 0
    /\ UNCHANGED <<rtStepUnchanged, stale, given>>


\* The ring was empty: return if the agent is gone, else CheckAndFixTrial.
RealtimeEmpty ==
    /\ rpc = "empty"
    /\ rpc' = CASE ~IsAgentAlive -> "exited"
                [] IsAgentAlive /\ ~IsTrialAlive /\ rnr >= shm -> "error"
                [] OTHER -> "poll"
    /\ stale' = (rpc' = "error")
    /\ UNCHANGED <<rtStepUnchanged, rent, given>>

\* Mutant: off by one.
WaitTrialTestOneEarly ==
    /\ rpc = "wait"
    /\ rpc' = IF rnr <= shm THEN "deliver" ELSE "check"
    /\ UNCHANGED <<rtStepUnchanged, rent, stale, given>>

\* WaitTrialProcess, the condition of its loop.
WaitTrialTest ==
    /\ rpc = "wait"
    /\ rpc' = IF rnr < shm THEN "deliver" ELSE "check"
    /\ UNCHANGED <<rtStepUnchanged, rent, stale, given>>

\* Mutant: the counter not read again.
WaitTrialCheckOnce ==
    /\ rpc = "check"
    /\ rpc' = CASE ~IsAgentAlive -> "poll"
                [] IsAgentAlive /\ IsTrialAlive -> "wait"
                [] OTHER -> "error"
    /\ rent' = IF rpc' \in {"poll", "error"} THEN 0 ELSE rent
    /\ UNCHANGED <<rtStepUnchanged, stale, given>>

\* Its body: the counter is read again once the trial is known to be gone; with
\* the agent gone the caller polls the ring again.
WaitTrialCheck ==
    /\ rpc = "check"
    /\ rpc' = CASE ~IsAgentAlive -> "poll"
                [] IsAgentAlive /\ IsTrialAlive -> "wait"
                [] IsAgentAlive /\ ~IsTrialAlive /\ rnr < shm -> "deliver"
                [] OTHER -> "error"
    /\ rent' = IF rpc' \in {"poll", "error"} THEN 0 ELSE rent
    /\ UNCHANGED <<rtStepUnchanged, stale, given>>

\* The entry goes to the application: a message, an event or a channel response.
RealtimeDeliver ==
    /\ rpc = "deliver"
    /\ given' = Append(given, rent)
    /\ rpc' = "delivered"
    /\ UNCHANGED <<rtStepUnchanged, rent, stale>>

\* ProcessMessageDone for a message, then the counter and FreeEntry.
RealtimeDone ==
    /\ rpc = "delivered"
    /\ tx' = IF rent \in Events THEN tx ELSE Append(tx, <<"done", rent>>)
    /\ rnr' = rnr + 1
    /\ rtHead' = rtHead + 1
    /\ rpc' = "poll" /\ rent' = 0
    /\ UNCHANGED <<rtUnchanged, trHead, flrVars, trialVars, stale, given, strayed>>

\* FreeEntry adds to the head without a lock: when both processes free an entry of
\* the realtime ring at the same time, one addition is lost.
FreeEntryTogether ==
    /\ rpc = "delivered" /\ tpc = "published" /\ tring = "realtime"
    /\ tx' = IF rent \in Events THEN tx ELSE Append(tx, <<"done", rent>>)
    /\ rnr' = rnr + 1
    /\ rtHead' = rtHead + 1
    /\ rpc' = "poll" /\ rent' = 0
    /\ tpc' = "poll" /\ tent' = 0
    /\ UNCHANGED <<rtUnchanged, trHead, flrVars, tnr, tring, stale, given, strayed>>

\* OnTrialError finds an unfinished message and has waited for the next entry of
\* both rings (WaitEntry blocks until there is one).
ErrorMessage == /\ rpc = "error" /\ processed # deliverd
                /\ rtHead < rtTail /\ trHead < trTail

\* What it asserts of them: both are that message, and the counters agree.
ErrorAsserts == /\ deliverd > processed
                /\ rtHead + 1 = deliverd /\ trHead + 1 = deliverd
                /\ deliverd \in Messages
                /\ rnr = shm

\* The effects of skipping, with the new head of the realtime ring and the records
\* written left open.
SkipTo(newHead, records) ==
    /\ ErrorMessage /\ ErrorAsserts
    /\ rtHead' = newHead /\ trHead' = trHead + 1
    /\ processed' = rtHead + 1
    /\ rnr' = rnr + 1 /\ shm' = rnr + 1
    /\ tx' = tx \o records
    /\ rpc' = "fork"
    /\ UNCHANGED <<rtUnchanged, deliverd, trialVars, rent, stale, given, strayed>>

\* Mutants: the realtime ring popped twice, or not at all; no done record.
SkipErrorMessageTwice ==
    SkipTo(rtHead + 2, << <<"discard", rtHead + 1>>, <<"done", rtHead + 1>> >>)

SkipErrorMessageTrialOnly ==
    SkipTo(rtHead, << <<"discard", rtHead + 1>>, <<"done", rtHead + 1>> >>)

SkipErrorMessageNotDone == SkipTo(rtHead + 1, << <<"discard", rtHead + 1>> >>)

\* It takes the message out of both rings, counts it as processed and reports it
\* discarded and done ...
SkipErrorMessage ==
    SkipTo(rtHead + 1, << <<"discard", rtHead + 1>>, <<"done", rtHead + 1>> >>)

\* ... or an assertion fails, and the process with it.
OnTrialErrorAborts ==
    /\ ErrorMessage /\ ~ErrorAsserts
    /\ rpc' = "aborted"
    /\ UNCHANGED <<rtStepUnchanged, rent, stale, given>>

\* Mutant: the new trial goes on counting where the dead one stopped.
StartTrialProcessOldCount ==
    /\ rpc \in {"fork", "error"} /\ processed = deliverd
    /\ tpc' = "poll" /\ tring' = (IF stale THEN "realtime" ELSE "trial")
    /\ strayed' = (strayed \/ stale)
    /\ rpc' = "poll" /\ stale' = FALSE
    /\ UNCHANGED <<rtUnchanged, rtHead, trHead, flrVars, rnr, rent, tnr, tent, tx, given>>

\* StartTrialProcess: the child starts from a copy of the realtime context, which
\* TrialFlush puts on the trial ring.  PollingMessage takes the ring from there only
\* on the way back from WaitTrialProcess.
StartTrialProcess ==
    /\ rpc \in {"fork", "error"} /\ processed = deliverd
    /\ tpc' = "poll" /\ tnr' = rnr
    /\ tring' = (IF stale THEN "realtime" ELSE "trial")
    /\ strayed' = (strayed \/ stale)
    /\ rpc' = "poll" /\ stale' = FALSE
    /\ UNCHANGED <<rtUnchanged, rtHead, trHead, flrVars, rnr, rent, tent, tx, given>>

-----------------------------------------------------------------------------
Agent == AgentPostFirst \/ AgentPostSecond

TrialStep == \/ TrialPoll \/ TrialDeliver \/ TrialReturn \/ TrialCrash
             \/ TrialPublish \/ TrialFreeEntry

RealtimeStep == \/ RealtimePoll \/ RealtimeEmpty \/ WaitTrialTest \/ WaitTrialCheck
                \/ RealtimeDeliver \/ RealtimeDone \/ SkipErrorMessage \/ OnTrialErrorAborts
                \/ StartTrialProcess

Next == Agent \/ AgentDie \/ TrialStep \/ TrialKill \/ RealtimeStep \/ FreeEntryTogether

Spec == Init /\ [][Next]_vars

\* The three processes are scheduled; deaths need not happen.
FairSpec == Spec /\ WF_vars(Agent) /\ WF_vars(TrialStep) /\ WF_vars(RealtimeStep)

-----------------------------------------------------------------------------
Steps == {"poll", "wait", "check", "empty", "deliver", "delivered", "error", "fork",
          "exited", "aborted"}
TrialSteps == {"poll", "entry", "app", "processed", "published", "dead", "exited"}

\* The state of the three processes; a ring's head passes its tail only when two
\* processes free entries of that ring, and then by one entry at most.
TypeOK ==
    /\ agent \in {"between", "inside", "dead"}
    /\ rtTail \in 0 .. NEntries /\ trTail \in 0 .. NEntries
    /\ rtHead \in 0 .. IF strayed THEN rtTail + 1 ELSE rtTail
    /\ trHead \in 0 .. trTail
    /\ deliverd \in Nat /\ processed \in Nat /\ shm \in Nat
    /\ rpc \in Steps /\ rnr \in Nat /\ rent \in {0} \cup Entries /\ stale \in BOOLEAN
    /\ tpc \in TrialSteps /\ tnr \in Nat /\ tent \in {0} \cup Entries
    /\ tring \in {"trial", "realtime"} /\ strayed \in BOOLEAN

\* The realtime application is given only entries a trial process got through, as
\* long as no trial was forked onto the realtime ring.
OnlyVetted == strayed \/ \A k \in 1 .. Len(given) : given[k] \in vetted

\* A message a trial process died on never reaches the realtime application, as long
\* as no trial was forked onto the realtime ring.
DeadlyNeverGiven == strayed \/ \A k \in 1 .. Len(given) : given[k] \notin died

\* The assertions of OnTrialError hold: the unfinished message is the next one in
\* both rings, as far as it is there yet, and the counters agree; no process aborts.
\* Only after a trial was forked onto the realtime ring can they fail.
TrialErrorAsserts ==
    strayed \/ /\ rpc = "error" /\ processed # deliverd => ErrorAsserts
               /\ rpc # "aborted"

\* The agent's sort thread takes one process-done record per message off the tx
\* ring: there is exactly one for each that is over, skipped or not, they come in
\* order, and there is none for anything else, as long as no trial was forked onto
\* the realtime ring.
DoneOncePerMessage ==
    LET done == {i \in 1 .. Len(tx) : tx[i][1] = "done"}
    IN  \/ strayed
        \/ /\ {tx[i][2] : i \in done} = {m \in Messages : m <= rtHead}
           /\ \A i, j \in done : i < j => tx[i][2] < tx[j][2]

\* What a trial got through, the realtime application is given before the entry
\* leaves the realtime ring.
VettedIsGiven ==
    \A k \in vetted : k <= rtHead => \E i \in 1 .. Len(given) : given[i] = k

\* However often the trial process dies, every entry is dealt with in the end, as
\* long as there is an agent.  Two things stop the shard for good: an event on which
\* each new trial crashes again, which is nowhere on record so that nobody skips it,
\* and a trial forked onto the realtime ring.
AllHandled == <>(\/ rtHead = NEntries \/ ~IsAgentAlive
                 \/ rtHead + 1 \in poison \cap Events
                 \/ strayed)

\* Nobody is left to try what the realtime process still has in its ring, or to post
\* the message that OnTrialError waits for.
Abandoned == /\ ~IsAgentAlive /\ ~IsTrialAlive
             /\ \/ rtHead < rtTail /\ rnr >= shm
                \/ rpc = "error" /\ processed # deliverd /\ rtHead >= rtTail

=============================================================================
