-------------------------- MODULE MCChannelManager --------------------------
(* Instantiates ChannelManager for TLC: three text messages, a long one of *)
(* two parts from cron, one the agent sends synchronously and its reply.   *)
EXTENDS ChannelManager

MCMsg == 1 .. 3
MCTo == [m \in MCMsg |-> "c"]
MCKindOf == [m \in MCMsg |-> "text"]
MCPartsOf == [m \in MCMsg |-> IF m = 1 THEN 2 ELSE 1]
MCStarts == {[conf |-> {"c"}, up |-> {"c"}], [conf |-> {"c"}, up |-> {}],
             [conf |-> {}, up |-> {}]}
=============================================================================
