-------------------------------- MODULE History --------------------------------
(***************************************************************************)
(* The output history of one session: core/src/lib.rs, struct History.  A  *)
(* ring keeps the last Capacity bytes of the stream; a list of marks says  *)
(* which grid the bytes from an offset on were produced under.             *)
(*                                                                         *)
(* Append and Resize run whole under the history mutex.  Read and ReadFrame*)
(* change nothing: they are operators whose value is the answer.           *)
(***************************************************************************)
EXTENDS Naturals, Sequences, FiniteSetsExt

CONSTANTS
  Capacity,   \* bytes kept (1 MiB in the keeper)
  MaxMarks,   \* MAX_MARKS, grids remembered
  Grid        \* the sizes a terminal can have

ASSUME HistoryAssumption ==
  /\ Capacity \in Nat \ {0}
  /\ MaxMarks \in Nat \ {0}

VARIABLES
  ring,   \* the bytes kept, oldest first
  next,   \* the offset after the last byte
  marks   \* [at, grid, epoch], ascending; never empty

historyVars == <<ring, next, marks>>

Mark == [at : Nat, grid : Grid, epoch : Nat]

HistoryInit(g) ==
  /\ ring = <<>>
  /\ next = 0
  /\ marks = <<[at |-> 0, grid |-> g, epoch |-> 0]>>

Newest(s, n) == SubSeq(s, Max({1, Len(s) - n + 1}), Len(s))
Larger(m, n) == IF m > n THEN m ELSE n
Smaller(m, n) == IF m < n THEN m ELSE n

Oldest == next - Len(ring)
Geometry == marks[Len(marks)]

\* The last mark at or before an offset; the first one if there is none.
InForce(ms, offset) == Max({1} \cup { i \in DOMAIN ms : ms[i].at <= offset })

\* Marks before the one in force at the oldest byte are dropped, then the
\* oldest beyond MaxMarks.
Pruned(ms, oldest) ==
  Newest(SubSeq(ms, InForce(ms, oldest), Len(ms)), MaxMarks)

AppendBytes(data) ==
  /\ ring' = Newest(ring \o data, Capacity)
  /\ next' = next + Len(data)
  /\ marks' = Pruned(marks, next' - Len(ring'))

\* A resize with no output since the last one takes its place.
Resized(ms, at, g) ==
  LET kept == IF ms[Len(ms)].at = at THEN SubSeq(ms, 1, Len(ms) - 1) ELSE ms
  IN  Append(kept, [at |-> at, grid |-> g, epoch |-> ms[Len(ms)].epoch + 1])

Resize(g) ==
  /\ marks' = Pruned(Resized(marks, next, g), Oldest)
  /\ UNCHANGED <<ring, next>>

-------------------------------------------------------------------------------
\* A mutant of Read: one byte too many is lost before a gap is told.
ReadLateGap(after, limit) ==
  LET start == Larger(after, Oldest)
      from == start - Oldest + 1
      data == SubSeq(ring, from, Smaller(Len(ring), from + limit - 1))
  IN  [start |-> start, next |-> start + Len(data), gap |-> after + 1 < Oldest,
       data |-> data]

\* after > next is an error; these are the answers to the other requests.
Read(after, limit) ==
  LET start == Larger(after, Oldest)
      from == start - Oldest + 1
      data == SubSeq(ring, from, Smaller(Len(ring), from + limit - 1))
  IN  [start |-> start, next |-> start + Len(data), gap |-> after < Oldest,
       data |-> data]

\* A frame stops where the next grid begins.
ReadFrame(after, limit) ==
  LET start == Larger(after, Oldest)
      at == InForce(marks, start)
      room == IF at < Len(marks) THEN marks[at + 1].at - start ELSE limit
  IN  [chunk |-> Read(after, Smaller(limit, room)),
       geometry |-> [grid |-> marks[at].grid, epoch |-> marks[at].epoch]]
===============================================================================
