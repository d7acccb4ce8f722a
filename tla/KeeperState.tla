------------------------------ MODULE KeeperState ------------------------------
(***************************************************************************)
(* What the threads of a keeper know of its program (session/src/main.rs,  *)
(* State): that it has exited, and that all of its output is in the        *)
(* history.  The output side (SessionOutput) sets both, and the reaper     *)
(* (KeeperLife) acts on them.                                              *)
(***************************************************************************)
EXTENDS Naturals, Sequences, FiniteSets

VARIABLES
  exited,       \* child.wait returned
  outputClosed  \* the reader saw the end of the output

flags == <<exited, outputClosed>>

\* The session is over.
Ended == exited /\ outputClosed
===============================================================================
