----------------------------- MODULE FifoQueue -----------------------------
(***************************************************************************)
(* What a single-reader message ring promises: messages come out in the   *)
(* order in which they were published, each once, with the content they   *)
(* were published with.  sent and rcvd are the whole histories.           *)
(***************************************************************************)
EXTENDS Naturals, Sequences

CONSTANT Message

VARIABLES sent, rcvd

Init == sent = << >> /\ rcvd = << >>

Send == \E m \in Message : sent' = Append(sent, m) /\ UNCHANGED rcvd

Receive == /\ Len(rcvd) < Len(sent)
           /\ rcvd' = Append(rcvd, sent[Len(rcvd) + 1])
           /\ UNCHANGED sent

Next == Send \/ Receive

Spec == Init /\ [][Next]_<<sent, rcvd>>
=============================================================================
