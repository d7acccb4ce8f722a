---------------------------- MODULE MCDesktopOrder ----------------------------
(***************************************************************************)
(* One behaviour of DesktopView, step by step, in which a later key        *)
(* arrives before an earlier one.  It is too long for TLC to find by       *)
(* itself.                                                                 *)
(*                                                                         *)
(*   1-17   Another view had a lease of A and of B.  This view takes the   *)
(*          second of A; key 1 arrives there, its answer is under way.     *)
(*  18-31   B is selected, its second lease taken, and key 2 typed behind  *)
(*          the answer to key 1.                                           *)
(*  32-34   That answer comes: its lease of A is taken for the one of B,   *)
(*          so key 2 is sent with number 2.  It times out, and is late.    *)
(*  35-45   C is selected and its first lease taken.                       *)
(*  46-58   B is selected.  While C's release is awaited, a tap asks for   *)
(*          control of C, whose second lease is kept as one of B.          *)
(*  59-61   Key 3 goes to B under lease 2 with number 1, and arrives; then *)
(*          the late key 2 does, with number 2.                            *)
(***************************************************************************)
EXTENDS DesktopView

CONSTANTS A, B, C
VARIABLE pc

Served(by) == \E c \in calls : c.by = by /\ KeeperServes(c)

Step ==
  \/ pc = 1 /\ OtherMoves(A)
  \/ pc = 2 /\ OtherGivesBack(A) /\ OtherMoves(A)
  \/ pc = 3 /\ OtherMoves(B)
  \/ pc = 4 /\ OtherGivesBack(B) /\ OtherMoves(B)
  \/ pc = 5 /\ Select(A)
  \/ pc = 18 /\ Select(B)
  \/ pc = 35 /\ Select(C)
  \/ pc = 46 /\ Select(B)
  \/ pc \in {20, 52} /\ \E c \in calls : SelectReleased(c)
  \/ pc \in {6, 21, 36, 53} /\ SelectShows
  \/ pc \in {7, 22, 37, 55} /\ SelectEnds
  \/ pc \in {8, 23, 38, 47} /\ Tap
  \/ pc \in {10, 25, 40, 50} /\ \E c \in calls : TapGreeted(c)
  \/ pc \in {12, 27, 42, 54} /\ \E c \in calls : Acquired(c)
  \/ pc \in {13, 28, 43, 56} /\ Resize("tap")
  \/ pc \in {15, 30, 45, 58} /\ \E c \in calls : ControlSettles(c)
  \/ pc \in {9, 11, 14, 24, 26, 29, 39, 41, 44, 49, 51, 57} /\ Served("tap")
  \/ pc \in {19, 48} /\ Served("select")
  \/ pc \in {16, 31, 59} /\ Key
  \/ pc \in {17, 60} /\ Served("input")
  \/ pc \in {32, 34} /\ \E c \in calls : InputReturns(c)
  \/ pc = 33 /\ \E c \in calls : c.by = "input" /\ TimesOut(c) /\ \E d \in calls' : d.by = "gone"
  \/ pc = 61 /\ Served("gone")

OrderSpec == Init /\ pc = 1 /\ [][Step /\ pc' = pc + 1]_<<vars, pc>>

\* KeysInOrder, also when the view took a lease of one session for a lease of
\* another.
AlwaysInOrder ==
  \A s \in Session : \A i, j \in 1..Len(pty[s]) :
    i < j /\ pty[s][i].by = Self /\ pty[s][j].by = Self => pty[s][i].key < pty[s][j].key
===============================================================================
