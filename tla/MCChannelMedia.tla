--------------------------- MODULE MCChannelMedia ---------------------------
(* Instantiates ChannelManager for TLC: two channels share a dispatcher;   *)
(* three media messages for c, enough to block it on a full queue, with    *)
(* one for d, which takes no media, behind them, in an order of the        *)
(* issuers' choosing.                                                      *)
EXTENDS ChannelManager

MCMsg == 1 .. 4
MCTo == [m \in MCMsg |-> IF m = 4 THEN "d" ELSE "c"]
MCKindOf == [m \in MCMsg |-> "media"]
MCPartsOf == [m \in MCMsg |-> 1]
MCStarts == {[conf |-> {"c", "d"}, up |-> {"c", "d"}], [conf |-> {"c", "d"}, up |-> {"d"}]}
=============================================================================
