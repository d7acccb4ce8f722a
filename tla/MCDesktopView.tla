----------------------------- MODULE MCDesktopView -----------------------------
(* Small instances of DesktopView for TLC. *)
EXTENDS DesktopView, TLC

CONSTANTS s1, s2

\* The two sessions differ in nothing but their name.
MCSessions == Permutations(Session)
===============================================================================
