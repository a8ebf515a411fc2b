----------------------------- MODULE MCCollector -----------------------------
EXTENDS Collector

CONSTANTS a1, a2, a3, null

\* Objects of different sizes, so that a wrong account shows.
MCSize == [o \in Object |-> CASE o = a1 -> 1 [] o = a2 -> 2 [] o = a3 -> 4 [] OTHER -> 8]
=============================================================================
