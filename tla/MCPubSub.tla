------------------------------- MODULE MCPubSub -------------------------------
(* Two subscriptions of one channel and two threads: one function may panic, *)
(* and the jobs of one subscription can take up both threads.                *)
EXTENDS PubSub

CONSTANTS s1, s2

MCChannel == [s \in Sub |-> "blocks"]
=============================================================================
