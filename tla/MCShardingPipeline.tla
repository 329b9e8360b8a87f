------------------------- MODULE MCShardingPipeline -------------------------
(* Applications that use the pipeline in different ways. *)
EXTENDS ShardingPipeline

\* An application that only sends, its tx rings as small as they can be.
Sender(messages, events) == [tx |-> 1, messages |-> messages, events |-> events,
                             channel |-> FALSE, skips |-> FALSE, fails |-> FALSE]

\* One that gets a message now and then and many events, whose callbacks send as
\* well; one with as many messages as there may be and an event; one whose shards
\* are advance followers and whose outputs may fail; one that answers requests, with
\* room in its tx rings for all a callback may send.
MCSetups == {Sender(1, 3), Sender(2, 1),
             [Sender(2, 0) EXCEPT !.skips = TRUE, !.fails = TRUE],
             [Sender(2, 0) EXCEPT !.tx = 8, !.channel = TRUE]}

\* One that answers requests, with small tx rings.
MCPostToSetups == {[Sender(3, 0) EXCEPT !.channel = TRUE]}
=============================================================================
