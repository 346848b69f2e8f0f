--------------------------- MODULE MCLlamaServer ---------------------------
(* Instantiates LlamaServer for TLC.                                       *)
EXTENDS LlamaServer, TLC

CONSTANTS c1, c2
MCSymmetry == Permutations({c1, c2})
=============================================================================
