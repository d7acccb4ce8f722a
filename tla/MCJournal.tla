------------------------------- MODULE MCJournal -------------------------------
(* Small instances of Journal for TLC. *)
EXTENDS Journal, TLC

CONSTANTS p1, p2, g1, once, twice, n1, n2, n3

MCProcesses == Permutations({p1, p2}) \cup Permutations({n1, n2, n3})
MCMaxUses == [t \in Terms |-> IF t = once THEN 1 ELSE 2]
MCThreeUses == [t \in Terms |-> 3]
===============================================================================
