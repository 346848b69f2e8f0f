---------------------------- MODULE MCJsonlStore ----------------------------
(* Instantiates JsonlStore for TLC.                                        *)
EXTENDS JsonlStore, TLC

CONSTANTS m1, m2, m3, m4

\* ClearHistory replaces the history by nothing, forceCompression by a
\* rewritten one.
MCSymmetry == Permutations({m1, m2, m3})

MCSetArgs == {<<>>, <<m4>>}
=============================================================================
