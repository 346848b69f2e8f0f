-------------------------- MODULE MCInferenceServer --------------------------
(* Values for InferenceServer: a request with a child, and others without.  *)
EXTENDS InferenceServer, TLC

CONSTANTS a, b, c

\* a asks for two completions; b wants slot 1; c takes any slot. With a batch to
\* share, a wants slot 2 and the others slot 1. The last one has adapters of its
\* own.
MCNChildren == [r \in Request |-> IF r = a THEN 1 ELSE 0]
MCWants     == [r \in Request |-> IF r = b THEN 1 ELSE 0]
MCApart     == [r \in Request |-> IF r = a THEN 2 ELSE 1]
MCNone      == [r \in Request |-> 0]
MCLora      == [r \in Request |-> r = IF c \in Request THEN c ELSE b]
=============================================================================
