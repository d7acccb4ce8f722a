--------------------------- MODULE MCSessionControl ---------------------------
(* Small instances of SessionControl for TLC. *)
EXTENDS SessionControl, TLC

CONSTANTS a, b, t1, t2, t3, v1, k1, k2

MCData == {a, b}
\* b fills the retry window by itself, two of a fill it together.
MCWeight == [d \in MCData |-> IF d = a THEN 1 ELSE 2]
MCThreads == Permutations({t1, t2})

\* One payload is enough where only threads and order matter.
MCOneDatum == {a}
MCUnitWeight == [d \in MCOneDatum |-> 1]
===============================================================================
