-------------------------- MODULE RedeliveryQueue ---------------------------
(***************************************************************************)
(* What a message queue in shared memory promises to applications that    *)
(* crash and start again: a message is sent once, under a number of its   *)
(* own; it may be handled from then until it is released; messages are    *)
(* released in the order of their numbers, and only after they were       *)
(* handled.  A restart hands out again whatever was not released, or      *)
(* drops what had been taken, as the caller chose.                        *)
(***************************************************************************)
EXTENDS Naturals

CONSTANTS Number, Message   \* the numbers are 1, 2, ...

VARIABLES sent,       \* set of <<number, message>>
          handled,    \* the pairs an application has handled
          released,   \* the messages up to this number are over
          restarts    \* how often an application started again

Init == sent = {} /\ handled = {} /\ released = 0 /\ restarts = 0

Send == \E m \in Message, n \in Number :
            /\ \A s \in sent : s[1] # n
            /\ sent' = sent \cup {<<n, m>>}
            /\ UNCHANGED <<handled, released, restarts>>

Handle == \E s \in sent :
            /\ s[1] > released
            /\ handled' = handled \cup {s}
            /\ UNCHANGED <<sent, released, restarts>>

Release == /\ \E s \in handled : s[1] = released + 1
           /\ released' = released + 1
           /\ UNCHANGED <<sent, handled, restarts>>

\* What was not released stays where it is, and is handed out again ...
Redeliver == restarts' = restarts + 1 /\ UNCHANGED <<sent, handled, released>>

\* ... or some of it is over without having been handled to the end.
Drop == \E s \in sent :
            /\ s[1] > released
            /\ released' = s[1]
            /\ restarts' = restarts + 1
            /\ UNCHANGED <<sent, handled>>

Next == Send \/ Handle \/ Release \/ Redeliver \/ Drop

Spec == Init /\ [][Next]_<<sent, handled, released, restarts>>
=============================================================================
