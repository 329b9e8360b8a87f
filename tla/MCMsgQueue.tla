----------------------------- MODULE MCMsgQueue -----------------------------
(* The combinations of calls that the classes of lock_free_msg_queue.h allow. *)
EXTENDS MsgQueue

Calls(prod, cons, shared) == [prod |-> prod, cons |-> cons, shared |-> shared]

MCSetups == {Calls("cas", "entry", TRUE), Calls("cas", "peek", FALSE), Calls("cas", "pop", FALSE),
             Calls("exp", "pop", TRUE), Calls("single", "multi", TRUE),
             Calls("single", "pop", FALSE), Calls("reorder", "reorder", TRUE),
             Calls("seq", "seq", FALSE)}
=============================================================================
