----------------------------- MODULE KeeperProofs -----------------------------
(***************************************************************************)
(* What a keeper says of its output is so, for any number of views, any    *)
(* sizes of ring, frames and reads, and any number of marks: a frame names *)
(* the grid its bytes were parsed under, a gap is told, and the answer     *)
(* that says the output is over is the last one.  And how the keeper ends, *)
(* for any number of clients and any limit: the reasons to leave           *)
(* (ReasonInv), and the slots of the connections it serves (SlotInv),      *)
(* which rests on what waits in the backlog.                               *)
(***************************************************************************)
EXTENDS SessionOutput, KeeperLife, SequenceTheorems, FiniteSetTheorems, WellFoundedInduction,
        TLAPS

(* Numbers and sequences.                                                  *)

\* A set of naturals that is not empty has a least element ...
LEMMA Least ==
  ASSUME NEW S \in SUBSET Nat, S # {}
  PROVE  \E n \in S : \A m \in S : n <= m
<1>1. IsWellFoundedOn(OpToRel(<, Nat), Nat) BY NatLessThanWellFounded
<1>2. PICK n \in S : \A m \in S : <<m, n>> \notin OpToRel(<, Nat) BY <1>1, WFMin, Zenon
<1>3. \A m \in S : ~(m < n) BY <1>2 DEF OpToRel
<1> QED BY <1>3

\* ... and one that is bounded a greatest, which is what Max returns.
LEMMA Greatest ==
  ASSUME NEW n \in Nat, NEW S \in SUBSET (0..n), S # {}
  PROVE  Max(S) \in S /\ \A m \in S : m <= Max(S)
<1> DEFINE T == { k \in Nat : n - k \in S }
<1>1. PICK m \in S : TRUE OBVIOUS
<1>2. n - m \in T
  <2>1. n - m \in Nat /\ n - (n - m) = m OBVIOUS
  <2> QED BY <2>1
<1>3. PICK k \in T : \A i \in T : k <= i BY <1>2, Least
<1>4. \A i \in S : i <= n - k
  <2> SUFFICES ASSUME NEW i \in S PROVE i <= n - k OBVIOUS
  <2>1. n - i \in Nat /\ n - (n - i) = i OBVIOUS
  <2>2. k <= n - i BY <2>1, <1>3
  <2> QED BY <2>2
<1>5. \A i \in S : n - k >= i BY <1>4
<1>6. n - k \in S OBVIOUS
<1>7. \E x \in S : \A y \in S : x >= y BY <1>5, <1>6
<1>8. Max(S) \in S /\ \A y \in S : Max(S) >= y BY <1>7 DEF Max
<1> QED BY <1>8

\* The newest n elements of a sequence are a suffix of it.
LEMMA NewestIs ==
  ASSUME NEW S, NEW s \in Seq(S), NEW n \in Nat
  PROVE  /\ Newest(s, n) \in Seq(S)
         /\ Len(Newest(s, n)) = Smaller(n, Len(s))
         /\ \A i \in 1..Len(Newest(s, n)) :
              Newest(s, n)[i] = s[Len(s) - Len(Newest(s, n)) + i]
<1>1. PICK l \in Nat : l = Len(s) BY LenProperties
<1>2. PICK first : first = Max({1, l - n + 1}) OBVIOUS
<1>3. /\ first \in Nat \ {0}
      /\ first = IF l > n THEN l - n + 1 ELSE 1
  BY <1>2 DEF Max
<1>4. PICK t : t = SubSeq(s, first, l) OBVIOUS
<1>5. \A i \in first..l : s[i] \in S BY <1>1, <1>3
<1>6. /\ t \in Seq(S)
      /\ Len(t) = IF first <= l THEN l - first + 1 ELSE 0
      /\ \A i \in 1..l - first + 1 : t[i] = s[first + i - 1]
  BY <1>3, <1>4, <1>5, SubSeqProperties
<1>7. PICK k \in Nat : k = Len(t) BY <1>3, <1>6
<1>8. k = Smaller(n, l) /\ first + k = l + 1 BY <1>3, <1>6, <1>7 DEF Smaller
<1>9. \A i \in 1..k : t[i] = s[l - k + i]
  <2> SUFFICES ASSUME NEW i \in 1..k PROVE t[i] = s[l - k + i] OBVIOUS
  <2>1. i \in 1..l - first + 1 /\ first + i - 1 = l - k + i BY <1>3, <1>8
  <2> QED BY <1>6, <2>1
<1>10. t = Newest(s, n) BY <1>1, <1>2, <1>4 DEF Newest
<1> QED BY <1>1, <1>6, <1>7, <1>8, <1>9, <1>10

--------------------------------------------------------------------------------
(* The history.                                                            *)

\* The bytes kept are the last ones of the output: as many as fit.
RingInv ==
  /\ next \in Nat
  /\ ring \in Seq(Nat) /\ Len(ring) = Smaller(Capacity, next)
  /\ \A i \in 1..Len(ring) : ring[i] = next - Len(ring) + i

\* The mark in force at an offset is the last one that is not after it.
LEMMA InForceIs ==
  ASSUME NEW ms \in Seq(Mark), Len(ms) > 0, NEW offset \in Nat
  PROVE  /\ InForce(ms, offset) \in 1..Len(ms)
         /\ \A i \in 1..Len(ms) : i > InForce(ms, offset) => ms[i].at > offset
         /\ ms[1].at <= offset => ms[InForce(ms, offset)].at <= offset
<1> DEFINE S == {1} \cup { i \in DOMAIN ms : ms[i].at <= offset }
<1>1. DOMAIN ms = 1..Len(ms) /\ Len(ms) \in Nat /\ \A i \in 1..Len(ms) : ms[i].at \in Nat
  <2>1. \A i \in 1..Len(ms) : ms[i] \in Mark BY ElementOfSeq
  <2> QED BY <2>1, LenProperties DEF Mark
<1>2. S \in SUBSET (0..Len(ms)) /\ S # {} BY <1>1
<1> HIDE DEF S
<1>3. PICK m : m = Max(S) OBVIOUS
<1>4. m \in S /\ \A i \in S : i <= m BY <1>1, <1>2, <1>3, Greatest
<1>5. m \in 1..Len(ms) BY <1>1, <1>4 DEF S
<1>6. \A i \in 1..Len(ms) : i > m => ms[i].at > offset
  BY <1>1, <1>4, <1>5 DEF S
<1>7. ms[1].at <= offset => ms[m].at <= offset BY <1>1, <1>4 DEF S
<1> QED BY <1>3, <1>5, <1>6, <1>7 DEF InForce, S

\* Of the marks a suffix is kept, and the last one always.
LEMMA PrunedIs ==
  ASSUME NEW ms \in Seq(Mark), Len(ms) > 0, NEW oldest \in Nat, HistoryAssumption
  PROVE  /\ Pruned(ms, oldest) \in Seq(Mark)
         /\ Len(Pruned(ms, oldest)) \in 1..Len(ms)
         /\ \A i \in 1..Len(Pruned(ms, oldest)) :
              Pruned(ms, oldest)[i] = ms[Len(ms) - Len(Pruned(ms, oldest)) + i]
<1>1. PICK at \in 1..Len(ms) : at = InForce(ms, oldest) BY InForceIs
<1>2. \A i \in at..Len(ms) : ms[i] \in Mark BY <1>1
<1>3. PICK t : t = SubSeq(ms, at, Len(ms)) OBVIOUS
<1>4. /\ t \in Seq(Mark) /\ Len(t) = Len(ms) - at + 1
      /\ \A i \in 1..Len(t) : t[i] = ms[at + i - 1]
  <2>1. Len(ms) \in Int /\ at \in Int /\ at <= Len(ms) BY <1>1
  <2> QED BY <1>2, <1>3, <2>1, SubSeqProperties
<1>5. PICK p : p = Newest(t, MaxMarks) OBVIOUS
<1>6. /\ p \in Seq(Mark) /\ Len(p) = Smaller(MaxMarks, Len(t))
      /\ \A i \in 1..Len(p) : p[i] = t[Len(t) - Len(p) + i]
  BY <1>4, <1>5, NewestIs DEF HistoryAssumption
<1>7. Len(p) \in 1..Len(t) BY <1>1, <1>4, <1>6 DEF Smaller, HistoryAssumption
<1>8. \A i \in 1..Len(p) : p[i] = ms[Len(ms) - Len(p) + i]
  <2> SUFFICES ASSUME NEW i \in 1..Len(p) PROVE p[i] = ms[Len(ms) - Len(p) + i] OBVIOUS
  <2>1. Len(ms) \in Nat /\ Len(t) \in Nat /\ Len(p) \in Nat BY <1>4, <1>6, LenProperties
  <2>2. Len(t) - Len(p) + i \in 1..Len(t) BY <1>7, <2>1
  <2>3. t[Len(t) - Len(p) + i] = ms[at + (Len(t) - Len(p) + i) - 1] BY <1>4, <2>2
  <2>4. at + (Len(t) - Len(p) + i) - 1 = Len(ms) - Len(p) + i BY <1>1, <1>4, <2>1
  <2> QED BY <1>6, <2>3, <2>4
<1> QED BY <1>1, <1>3, <1>4, <1>5, <1>6, <1>7, <1>8 DEF Pruned

\* The oldest byte kept has an offset.
LEMMA OldestIs ==
  ASSUME NEW r \in Seq(Nat), NEW n \in Nat, Len(r) = Smaller(Capacity, n), HistoryAssumption
  PROVE  n - Len(r) \in Nat
BY LenProperties DEF Smaller, HistoryAssumption

\* What is read begins where it was asked for or, with a gap, at the oldest byte; and
\* there is something unless nothing follows.
LEMMA ReadIs ==
  ASSUME RingInv, NEW after \in Nat, after <= next, NEW limit \in Nat \ {0},
         HistoryAssumption, NEW r, r = Read(after, limit)
  PROVE  /\ r.start = Larger(after, Oldest)
         /\ r.start \in Nat /\ after <= r.start /\ r.start <= next
         /\ r.data \in Seq(Nat) /\ Len(r.data) <= limit
         /\ r.next = r.start + Len(r.data) /\ r.next <= next
         /\ \A i \in 1..Len(r.data) : r.data[i] = r.start + i
         /\ r.start = after \/ r.gap
         /\ r.data = <<>> => after = next
<1>1. next \in Nat /\ Len(ring) \in Nat /\ Len(ring) <= next /\ ring \in Seq(Nat)
  BY LenProperties DEF RingInv, Smaller, HistoryAssumption
<1>2. PICK start : start = Larger(after, Oldest) OBVIOUS
<1>3. start \in Nat /\ after <= start /\ Oldest <= start /\ start <= next
      /\ (start = after \/ after < Oldest)
  BY <1>1, <1>2 DEF Larger, Oldest
<1>4. PICK from : from = start - Oldest + 1 OBVIOUS
<1>5. PICK to : to = Smaller(Len(ring), from + limit - 1) OBVIOUS
<1>6. /\ from \in 1..Len(ring) + 1 /\ to \in 0..Len(ring) /\ to < from + limit
      /\ to >= from \/ from = Len(ring) + 1
      /\ from <= to + 1
  BY <1>1, <1>3, <1>4, <1>5 DEF Smaller, Oldest
<1>7. PICK data : data = SubSeq(ring, from, to) OBVIOUS
<1>8. /\ data \in Seq(Nat) /\ Len(data) = to - from + 1
      /\ \A i \in 1..Len(data) : data[i] = ring[from + i - 1]
  <2>1. \A i \in from..to : ring[i] \in Nat BY <1>1, <1>6
  <2>2. from \in Int /\ to \in Int BY <1>1, <1>6
  <2> QED BY <1>6, <1>7, <2>1, <2>2, SubSeqProperties
<1>9. \A i \in 1..Len(data) : data[i] = start + i
  <2> SUFFICES ASSUME NEW i \in 1..Len(data) PROVE data[i] = start + i OBVIOUS
  <2>1. from + i - 1 \in 1..Len(ring)
    <3>1. PICK l \in Nat : l = Len(ring) BY <1>1
    <3>2. from \in 1..l + 1 /\ to \in 0..l /\ from <= to + 1 BY <3>1, <1>6
    <3>3. i \in 1..to - from + 1 BY <1>8
    <3> QED BY <3>1, <3>2, <3>3
  <2>2. ring[from + i - 1] = next - Len(ring) + (from + i - 1) BY <2>1 DEF RingInv
  <2> QED BY <1>1, <1>3, <1>4, <1>6, <1>8, <2>2 DEF Oldest
<1>10. data = <<>> => after = next
  <2> SUFFICES ASSUME data = <<>> PROVE after = next OBVIOUS
  <2>1. Len(data) = 0 BY EmptySeq
  <2>2. from = Len(ring) + 1 BY <1>1, <1>6, <1>8, <2>1
  <2>3. start = next BY <1>1, <1>3, <1>4, <2>2 DEF Oldest
  <2>4. CASE start = after BY <2>3, <2>4
  <2>5. CASE after < Oldest
    BY <1>1, <1>2, <2>3, <2>5 DEF Larger, Oldest, RingInv, Smaller, HistoryAssumption
  <2> QED BY <1>3, <2>4, <2>5
<1>11. r = [start |-> start, next |-> start + Len(data), gap |-> after < Oldest, data |-> data]
  BY <1>2, <1>4, <1>5, <1>7 DEF Read
<1>12. /\ r.start = start /\ r.next = start + Len(data) /\ r.data = data
       /\ r.gap = (after < Oldest)
  <2>1. PICK gap : gap = (after < Oldest) OBVIOUS
  <2>2. PICK end : end = start + Len(data) OBVIOUS
  <2>3. r = [start |-> start, next |-> end, gap |-> gap, data |-> data] BY <1>11, <2>1, <2>2, Zenon
  <2> QED BY <2>1, <2>2, <2>3
<1>13. start + Len(data) <= next /\ Len(data) <= limit
  BY <1>1, <1>3, <1>4, <1>6, <1>8 DEF Oldest
<1> QED BY <1>2, <1>3, <1>8, <1>9, <1>10, <1>12, <1>13

\* What a mark names is what the bytes after it, up to the next mark, were parsed under.
Named(m) == [grid |-> m.grid, epoch |-> m.epoch]
Marked(ms, end, parsed, scr) ==
  /\ ms \in Seq(Mark) /\ Len(ms) > 0
  /\ Named(ms[Len(ms)]) = scr
  /\ \A i \in 1..Len(ms) : ms[i].at <= end
  /\ \A i \in 1..Len(ms) : \A k \in 1..end :
       ms[i].at < k /\ (i < Len(ms) => k <= ms[i + 1].at) => parsed[k] = Named(ms[i])

\* Dropping the first marks leaves the others true.
LEMMA PrunedKeeps ==
  ASSUME NEW ms, NEW end \in Nat, NEW parsed, NEW scr, Marked(ms, end, parsed, scr),
         NEW oldest \in Nat, HistoryAssumption
  PROVE  Marked(Pruned(ms, oldest), end, parsed, scr)
<1>1. ms \in Seq(Mark) /\ Len(ms) > 0 /\ Len(ms) \in Nat BY LenProperties DEF Marked
<1>2. PICK p : p = Pruned(ms, oldest) OBVIOUS
<1>3. /\ p \in Seq(Mark) /\ Len(p) \in 1..Len(ms)
      /\ \A i \in 1..Len(p) : p[i] = ms[Len(ms) - Len(p) + i]
  BY <1>1, <1>2, PrunedIs
<1>4. PICK l \in Nat, n \in Nat : l = Len(ms) /\ n = Len(p) BY <1>1, <1>3
<1>5. n \in 1..l /\ \A i \in 1..n : l - n + i \in 1..l /\ p[i] = ms[l - n + i]
  BY <1>3, <1>4
<1>6. Named(p[n]) = scr BY <1>4, <1>5 DEF Marked
<1>7. \A i \in 1..n : p[i].at <= end BY <1>4, <1>5 DEF Marked
<1>8. ASSUME NEW i \in 1..n, NEW k \in 1..end, p[i].at < k, i < n => k <= p[i + 1].at
      PROVE  parsed[k] = Named(p[i])
  <2>1. ms[l - n + i].at < k BY <1>5, <1>8
  <2>2. l - n + i < l => k <= ms[l - n + i + 1].at
    <3> SUFFICES ASSUME l - n + i < l PROVE k <= ms[l - n + i + 1].at OBVIOUS
    <3>1. i < n /\ i + 1 \in 1..n /\ l - n + (i + 1) = l - n + i + 1 OBVIOUS
    <3> QED BY <1>5, <1>8, <3>1
  <2> QED BY <1>4, <1>5, <2>1, <2>2 DEF Marked
<1> QED BY <1>2, <1>3, <1>4, <1>5, <1>6, <1>7, <1>8 DEF Marked

\* The mark a resize leaves is after every byte there is.
LEMMA ResizedKeeps ==
  ASSUME NEW ms, NEW end \in Nat, NEW parsed, NEW scr, Marked(ms, end, parsed, scr),
         NEW g \in Grid
  PROVE  Marked(Resized(ms, end, g), end, parsed, [grid |-> g, epoch |-> scr.epoch + 1])
<1>1. PICK l \in Nat \ {0} : l = Len(ms) BY LenProperties DEF Marked
<1>2. ms \in Seq(Mark) /\ \A i \in 1..l : ms[i] \in Mark /\ ms[i].at \in Nat
  <2>1. ms \in Seq(Mark) BY DEF Marked
  <2>2. \A i \in 1..l : ms[i] \in Mark BY <1>1, <2>1, ElementOfSeq
  <2> QED BY <2>1, <2>2 DEF Mark
<1>3. ms[l].epoch \in Nat /\ ms[l].epoch = scr.epoch BY <1>1, <1>2 DEF Marked, Named, Mark
<1>4. PICK kept : kept = IF ms[l].at = end THEN SubSeq(ms, 1, l - 1) ELSE ms OBVIOUS
<1>5. /\ kept \in Seq(Mark) /\ Len(kept) = (IF ms[l].at = end THEN l - 1 ELSE l)
      /\ \A i \in 1..Len(kept) : kept[i] = ms[i]
  <2>1. CASE ms[l].at = end
    <3>1. /\ SubSeq(ms, 1, l - 1) \in Seq(Mark)
          /\ Len(SubSeq(ms, 1, l - 1)) = IF 1 <= l - 1 THEN (l - 1) - 1 + 1 ELSE 0
          /\ \A i \in 1..(l - 1) - 1 + 1 : SubSeq(ms, 1, l - 1)[i] = ms[1 + i - 1]
      BY <1>2, SubSeqProperties
    <3> QED BY <1>4, <2>1, <3>1
  <2>2. CASE ms[l].at # end BY <1>1, <1>2, <1>4, <2>2
  <2> QED BY <2>1, <2>2
<1>6. PICK m : m = [at |-> end, grid |-> g, epoch |-> ms[l].epoch + 1] OBVIOUS
<1>7. PICK r : r = Append(kept, m) OBVIOUS
<1>8. PICK n \in Nat : n = Len(kept) BY <1>5, LenProperties
<1>9. m \in Mark BY <1>3, <1>6 DEF Mark
<1>10. /\ r \in Seq(Mark) /\ Len(r) = n + 1 /\ r[n + 1] = m
       /\ \A i \in 1..n : r[i] = ms[i]
  BY <1>5, <1>7, <1>8, <1>9, AppendProperties
<1>11. Named(m) = [grid |-> g, epoch |-> scr.epoch + 1] BY <1>3, <1>6 DEF Named
<1>12. n <= l /\ (n < l => n = l - 1 /\ ms[l].at = end) BY <1>5, <1>8
<1>13. \A i \in 1..n + 1 : r[i].at <= end
  BY <1>1, <1>6, <1>10, <1>12 DEF Marked
<1>14. ASSUME NEW i \in 1..n + 1, NEW k \in 1..end, r[i].at < k,
              i < n + 1 => k <= r[i + 1].at
       PROVE  parsed[k] = Named(r[i])
  <2>1. i \in 1..n
    <3>1. i # n + 1 BY <1>6, <1>10, <1>14
    <3> QED BY <3>1
  <2>2. ms[i].at < k /\ Named(r[i]) = Named(ms[i]) BY <1>10, <1>14, <2>1
  <2>3. i < l => k <= ms[i + 1].at
    <3> SUFFICES ASSUME i < l PROVE k <= ms[i + 1].at OBVIOUS
    <3>1. CASE i < n
      <4>1. i + 1 \in 1..n BY <3>1
      <4> QED BY <1>10, <1>14, <4>1
    <3>2. CASE i = n BY <1>12, <3>2
    <3> QED BY <2>1, <3>1, <3>2
  <2> QED BY <1>1, <1>12, <2>1, <2>2, <2>3 DEF Marked
<1>15. r = Resized(ms, end, g) BY <1>1, <1>4, <1>6, <1>7 DEF Resized
<1> QED BY <1>10, <1>11, <1>13, <1>14, <1>15 DEF Marked

\* Bytes that are appended belong to the last mark.
LEMMA AppendKeeps ==
  ASSUME NEW ms, NEW end \in Nat, NEW parsed, NEW scr, Marked(ms, end, parsed, scr),
         NEW later \in Nat, end <= later, \A k \in end + 1..later : parsed[k] = scr
  PROVE  Marked(ms, later, parsed, scr)
<1>1. PICK l \in Nat \ {0} : l = Len(ms) BY LenProperties DEF Marked
<1>2. \A i \in 1..l : ms[i].at \in Nat /\ ms[i].at <= end
  <2>1. \A i \in 1..l : ms[i] \in Mark BY <1>1, ElementOfSeq DEF Marked
  <2> QED BY <1>1, <2>1 DEF Marked, Mark
<1>3. ASSUME NEW i \in 1..l, NEW k \in 1..later, ms[i].at < k, i < l => k <= ms[i + 1].at
      PROVE  parsed[k] = Named(ms[i])
  <2>1. CASE k <= end BY <1>1, <1>3, <2>1 DEF Marked
  <2>2. CASE k > end
    <3>1. i = l
      <4> SUFFICES ASSUME i < l PROVE FALSE OBVIOUS
      <4>1. i + 1 \in 1..l OBVIOUS
      <4> QED BY <1>2, <1>3, <2>2, <4>1
    <3> QED BY <1>1, <2>2, <3>1 DEF Marked
  <2> QED BY <2>1, <2>2
<1>4. \A i \in 1..l : ms[i].at <= later BY <1>2
<1> QED BY <1>1, <1>3, <1>4 DEF Marked

\* A frame is of one mark, and it does not reach past the next one.
LEMMA FrameIs ==
  ASSUME RingInv, NEW parsed, NEW scr, Marked(marks, next, parsed, scr),
         NEW after \in Nat, after <= next, NEW limit \in Nat \ {0}, HistoryAssumption,
         NEW f, f = ReadFrame(after, limit)
  PROVE  /\ \E max \in Nat \ {0} : f.chunk = Read(after, max)
         /\ f.chunk.start >= marks[1].at =>
              \A k \in f.chunk.start + 1..f.chunk.next : parsed[k] = f.geometry
<1>1. PICK l \in Nat \ {0} : l = Len(marks) BY LenProperties DEF Marked
<1>2. marks \in Seq(Mark) /\ \A i \in 1..l : marks[i].at \in Nat
  <2>1. \A i \in 1..l : marks[i] \in Mark BY <1>1, ElementOfSeq DEF Marked
  <2> QED BY <2>1 DEF Marked, Mark
<1>3. PICK start : start = Larger(after, Oldest) OBVIOUS
<1>4. start \in Nat
  BY <1>3, LenProperties DEF Larger, Oldest, RingInv, Smaller, HistoryAssumption
<1>5. PICK at : at = InForce(marks, start) OBVIOUS
<1>6. /\ at \in 1..l /\ \A i \in 1..l : i > at => marks[i].at > start
      /\ marks[1].at <= start => marks[at].at <= start
  <2>1. Len(marks) > 0 BY <1>1
  <2>2. /\ InForce(marks, start) \in 1..Len(marks)
        /\ \A i \in 1..Len(marks) : i > InForce(marks, start) => marks[i].at > start
        /\ marks[1].at <= start => marks[InForce(marks, start)].at <= start
    BY <1>2, <1>4, <2>1, InForceIs
  <2> QED BY <1>1, <1>5, <2>2
<1>7. PICK room : room = IF at < l THEN marks[at + 1].at - start ELSE limit OBVIOUS
<1>8. room \in Nat \ {0} /\ (at < l => start + room = marks[at + 1].at)
  <2>1. CASE at < l
    <3>1. at + 1 \in 1..l /\ at + 1 > at BY <1>6, <2>1
    <3>2. marks[at + 1].at \in Nat /\ marks[at + 1].at > start BY <1>2, <1>6, <3>1
    <3> QED BY <1>4, <1>7, <2>1, <3>2
  <2>2. CASE ~(at < l) BY <1>7, <2>2
  <2> QED BY <2>1, <2>2
<1>9. PICK max : max = Smaller(limit, room) OBVIOUS
<1>10. max \in Nat \ {0} /\ max <= room BY <1>8, <1>9 DEF Smaller
<1>11. PICK c : c = Read(after, max) OBVIOUS
<1>12. /\ c.start = start /\ c.next \in Nat /\ c.next <= next
       /\ at < l => c.next <= marks[at + 1].at
  <2>1. /\ c.start = start /\ c.next = start + Len(c.data) /\ Len(c.data) \in Nat
        /\ Len(c.data) <= max /\ c.next <= next
    BY <1>3, <1>10, <1>11, ReadIs, LenProperties
  <2> QED BY <1>4, <1>8, <1>10, <2>1
<1>13. PICK geometry : geometry = Named(marks[at]) OBVIOUS
<1>14. f = [chunk |-> c, geometry |-> geometry]
  BY <1>1, <1>3, <1>5, <1>7, <1>9, <1>11, <1>13 DEF ReadFrame, Named
<1>15. ASSUME start >= marks[1].at, NEW k \in start + 1..c.next
       PROVE  parsed[k] = geometry
  <2>1. 1 \in 1..l /\ marks[1].at \in Nat BY <1>2
  <2>2. marks[at].at < k BY <1>2, <1>4, <1>6, <1>15, <2>1
  <2>3. at < l => k <= marks[at + 1].at
    <3> SUFFICES ASSUME at < l PROVE k <= marks[at + 1].at OBVIOUS
    <3>1. marks[at + 1].at \in Nat BY <1>2, <1>6
    <3> QED BY <1>4, <1>12, <3>1
  <2>4. k \in 1..next BY <1>4, <1>12 DEF RingInv
  <2> QED BY <1>1, <1>6, <1>13, <2>2, <2>3, <2>4 DEF Marked
<1> QED BY <1>10, <1>11, <1>12, <1>14, <1>15

\* The bytes a history is given are the next ones of the output.
LEMMA AppendIs ==
  ASSUME RingInv, HistoryAssumption, NEW data \in Seq(Nat),
         \A i \in 1..Len(data) : data[i] = next + i, AppendBytes(data)
  PROVE  RingInv' /\ next' = next + Len(data)
<1>1. PICK n \in Nat, l \in Nat, d \in Nat : n = next /\ l = Len(ring) /\ d = Len(data)
  BY LenProperties DEF RingInv
<1>2. /\ ring \in Seq(Nat) /\ l = Smaller(Capacity, n)
      /\ \A i \in 1..l : ring[i] = n - l + i
  BY <1>1 DEF RingInv
<1>3. PICK t : t = ring \o data OBVIOUS
<1>4. /\ t \in Seq(Nat) /\ Len(t) = l + d
      /\ \A i \in 1..l + d : t[i] = IF i <= l THEN ring[i] ELSE data[i - l]
  <2>1. /\ ring \o data \in Seq(Nat) /\ Len(ring \o data) = Len(ring) + Len(data)
        /\ \A i \in 1..Len(ring) + Len(data) :
             (ring \o data)[i] = IF i <= Len(ring) THEN ring[i] ELSE data[i - Len(ring)]
    BY <1>2, ConcatProperties
  <2> QED BY <1>1, <1>3, <2>1
<1>5. \A i \in 1..l + d : t[i] = n - l + i
  <2> SUFFICES ASSUME NEW i \in 1..l + d PROVE t[i] = n - l + i OBVIOUS
  <2>1. CASE i <= l
    <3>1. i \in 1..l BY <1>1, <2>1
    <3>2. t[i] = ring[i] BY <1>4, <2>1
    <3> QED BY <1>2, <3>1, <3>2
  <2>2. CASE i > l
    <3>1. i - l \in 1..d BY <1>1, <2>2
    <3> QED BY <1>1, <1>4, <2>2, <3>1
  <2> QED BY <2>1, <2>2
<1>6. PICK r : r = Newest(t, Capacity) OBVIOUS
<1>7. PICK k \in Nat : k = Smaller(Capacity, l + d) BY DEF Smaller, HistoryAssumption
<1>8. r \in Seq(Nat) /\ Len(r) = k /\ \A i \in 1..k : r[i] = t[l + d - k + i]
  <2>1. Capacity \in Nat BY DEF HistoryAssumption
  <2>2. /\ r \in Seq(Nat) /\ Len(r) = Smaller(Capacity, Len(t))
        /\ \A i \in 1..Len(r) : r[i] = t[Len(t) - Len(r) + i]
    <3>1. /\ Newest(t, Capacity) \in Seq(Nat)
          /\ Len(Newest(t, Capacity)) = Smaller(Capacity, Len(t))
          /\ \A i \in 1..Len(Newest(t, Capacity)) :
               Newest(t, Capacity)[i] = t[Len(t) - Len(Newest(t, Capacity)) + i]
      <4>1. t \in Seq(Nat) BY <1>4
      <4> QED BY <2>1, <4>1, NewestIs
    <3> QED BY <1>6, <3>1
  <2>3. Len(t) = l + d /\ Len(r) = k BY <1>4, <1>7, <2>2
  <2>4. \A i \in 1..k : r[i] = t[l + d - k + i]
    <3> SUFFICES ASSUME NEW i \in 1..k PROVE r[i] = t[l + d - k + i] OBVIOUS
    <3>1. i \in 1..Len(r) BY <2>3
    <3>2. r[i] = t[Len(t) - Len(r) + i] BY <2>2, <3>1
    <3> QED BY <2>3, <3>2
  <2> QED BY <2>2, <2>3, <2>4
<1>9. k <= l + d /\ k = Smaller(Capacity, n + d)
  BY <1>1, <1>2, <1>7 DEF Smaller, HistoryAssumption
<1>10. \A i \in 1..k : r[i] = n + d - k + i
  <2> SUFFICES ASSUME NEW i \in 1..k PROVE r[i] = n + d - k + i OBVIOUS
  <2>1. l + d - k + i \in 1..l + d BY <1>1, <1>7, <1>9
  <2>2. r[i] = n - l + (l + d - k + i) BY <1>5, <1>8, <2>1
  <2>3. n - l + (l + d - k + i) = n + d - k + i OBVIOUS
  <2> QED BY <2>2, <2>3
<1>11. ring' = r /\ next' = n + d BY <1>1, <1>3, <1>6 DEF AppendBytes
<1>12. PICK m \in Nat : m = n + d OBVIOUS
<1>13. r \in Seq(Nat) /\ Len(r) = Smaller(Capacity, m) /\ \A i \in 1..Len(r) : r[i] = m - Len(r) + i
  BY <1>8, <1>9, <1>10, <1>12
<1> QED BY <1>1, <1>11, <1>12, <1>13 DEF RingInv

--------------------------------------------------------------------------------
(* The reader, the resizer and the two mutexes.                            *)

\* What the reader has is the output that comes next, and it closes at its end.
FlowInv ==
  /\ reader \in {"reading", "fetched", "screen", "fed", "recorded", "closing", "done"}
  /\ made \in Nat /\ batch \in Seq(Nat)
  /\ fetched = next + Len(batch) /\ fetched <= made
  /\ \A i \in 1..Len(batch) : batch[i] = next + i
  /\ reader \in {"reading", "recorded", "closing", "done"} => batch = <<>>
  /\ reader \in {"closing", "done"} => gone /\ next = made
  /\ outputClosed => reader \in {"closing", "done"}

\* Whoever stands inside has the mutexes.
LockInv ==
  /\ screenLock = "reader" <=> reader \in {"screen", "fed"}
  /\ screenLock = "resizer" <=> resizer \in {"screen", "resized"}
  /\ historyLock = "reader" <=> reader = "fed"
  /\ historyLock = "resizer" <=> resizer = "resized"

\* What was fed to the screen was parsed under what the marks name.
Look == [grid : Grid, epoch : Nat]
ScreenInv ==
  /\ screen \in Look /\ wanted \in Grid
  /\ parsedUnder \in Seq(Look)
  /\ Len(parsedUnder) = next + (IF reader = "fed" THEN Len(batch) ELSE 0)
  /\ reader = "fed" => \A k \in next + 1..next + Len(batch) : parsedUnder[k] = screen
  /\ Marked(marks, next, parsedUnder, screen)

Quiet == UNCHANGED <<outputVars, child, threads, locks, flags>>

\* Subscribers and pollers change nothing but themselves.
LEMMA OthersAreQuiet ==
  /\ \A s \in Subscriber : Subscribed(s) \/ Heartbeat(s) \/ Disconnect(s) => Quiet /\ SubscriberStep
  /\ \A p \in Poller : Polls(p) => Quiet /\ PollStep
<1>1. ASSUME NEW s \in Subscriber, Subscribed(s) \/ Heartbeat(s) \/ Disconnect(s)
      PROVE  SubscriberStep
  BY <1>1 DEF Subscribed, SeeSignal, SeeEnded, SeeHistory, SendFrame, SendClosing, Wait, Wake,
     Heartbeat, Disconnect
<1>2. ASSUME NEW p \in Poller, Polls(p) PROVE PollStep
  BY <1>2 DEF Polls, PollHistory, PollEnded
<1> QED BY <1>1, <1>2 DEF SubscriberStep, PollStep, Quiet

\* At first nothing was made, and the first mark names the screen.
LEMMA FlowInit == Init /\ SessionOutputAssumption /\ HistoryAssumption
                    => RingInv /\ FlowInv /\ LockInv
<1> SUFFICES ASSUME Init, SessionOutputAssumption, HistoryAssumption
             PROVE  RingInv /\ FlowInv /\ LockInv
  OBVIOUS
<1>1. <<>> \in Seq(Nat) /\ Len(<<>>) = 0 BY EmptySeq
<1>2. ring = <<>> /\ next = 0 /\ batch = <<>> /\ made = 0 /\ fetched = 0
      /\ reader = "reading" /\ outputClosed = FALSE
  BY DEF Init, HistoryInit
<1>3. RingInv BY <1>1, <1>2 DEF RingInv, Smaller, HistoryAssumption
<1>4. FlowInv BY <1>1, <1>2 DEF FlowInv
<1>5. LockInv BY DEF Init, LockInv, SessionOutputAssumption
<1> QED BY <1>3, <1>4, <1>5

\* No step of anybody breaks the mutexes.
LEMMA LockStep ==
  ASSUME LockInv, [Next]_vars, SessionOutputAssumption
  PROVE  LockInv'
<1>1. CASE UNCHANGED <<reader, resizer, locks>> BY <1>1 DEF LockInv, locks
<1>2. CASE Reader
  BY <1>2 DEF Reader, Fetch, ReaderLocksScreen, Feed, Record, ReaderNotifies, EndOfOutput,
     ReaderLeaves, LockInv, locks, SessionOutputAssumption
<1>3. CASE Resizer
  <2>1. CASE ResizerLocksScreen BY <2>1 DEF ResizerLocksScreen, LockInv, SessionOutputAssumption
  <2>2. CASE RecordResize BY <2>2 DEF RecordResize, LockInv, SessionOutputAssumption
  <2>3. CASE ResizerNotifies BY <2>3 DEF ResizerNotifies, LockInv, locks
  <2>4. ASSUME NEW ok \in BOOLEAN, ResizePty(ok) PROVE LockInv'
    BY <2>4 DEF ResizePty, LockInv, SessionOutputAssumption
  <2> QED BY <1>3, <2>1, <2>2, <2>3, <2>4 DEF Resizer
<1>4. ASSUME NEW g \in Grid, AskResize(g) PROVE LockInv'
  BY <1>4 DEF AskResize, LockInv, locks
<1>5. CASE ChildWrites \/ ChildEnds \/ ChildReaped
  BY <1>1, <1>5 DEF ChildWrites, ChildEnds, ChildReaped, threads
<1>6. CASE Quiet BY <1>1, <1>6 DEF Quiet, threads
<1>7. CASE UNCHANGED vars BY <1>1, <1>7 DEF vars, threads
<1> QED BY <1>2, <1>3, <1>4, <1>5, <1>6, <1>7, OthersAreQuiet DEF Next

\* Nor the flow of the output.
LEMMA FlowStep ==
  ASSUME RingInv, FlowInv, [Next]_vars, HistoryAssumption, SessionOutputAssumption
  PROVE  RingInv' /\ FlowInv'
<1> USE DEF historyVars
<1>1. ASSUME UNCHANGED historyVars PROVE RingInv' BY <1>1 DEF RingInv
<1>2. CASE UNCHANGED <<historyVars, reader, made, gone, batch, fetched, outputClosed>>
  BY <1>1, <1>2 DEF FlowInv
<1>3. CASE Fetch
  <2>1. PICK n \in 1..Smaller(ReadSize, made - fetched) :
          batch' = [i \in 1..n |-> fetched + i] /\ fetched' = fetched + n
    BY <1>3 DEF Fetch
  <2>2. batch = <<>> /\ fetched = next /\ next \in Nat /\ made \in Nat
    BY <1>3, EmptySeq DEF Fetch, FlowInv, RingInv
  <2>3. n \in Nat /\ fetched + n <= made
    BY <1>3, <2>2 DEF Smaller, Fetch, SessionOutputAssumption
  <2>4. /\ batch' \in Seq(Nat) /\ Len(batch') = n
        /\ \A i \in 1..n : batch'[i] = next + i
    <3>1. \A i \in 1..n : fetched + i \in Nat BY <2>2, <2>3
    <3> QED BY <2>1, <2>2, <2>3, <3>1
  <2>5. UNCHANGED <<historyVars, made, gone, outputClosed>> /\ reader' = "fetched"
        /\ reader = "reading"
    BY <1>3 DEF Fetch, outputVars, child, flags
  <2> QED BY <1>1, <2>1, <2>2, <2>3, <2>4, <2>5 DEF FlowInv
<1>4. CASE ReaderLocksScreen \/ Feed
  <2>1. /\ UNCHANGED <<historyVars, made, gone, batch, fetched, outputClosed>>
        /\ reader \in {"fetched", "screen"} /\ reader' \in {"screen", "fed"}
    BY <1>4 DEF ReaderLocksScreen, Feed, outputVars, child, flags
  <2> QED BY <1>1, <2>1 DEF FlowInv
<1>5. CASE Record
  <2>1. /\ AppendBytes(batch) /\ batch' = <<>> /\ reader = "fed" /\ reader' = "recorded"
        /\ UNCHANGED <<made, gone, fetched, outputClosed>>
    BY <1>5 DEF Record, child, flags
  <2>2. RingInv' /\ next' = next + Len(batch) BY <2>1, AppendIs DEF FlowInv
  <2>3. <<>> \in Seq(Nat) /\ Len(<<>>) = 0 BY EmptySeq
  <2>4. next' \in Nat BY <2>2 DEF RingInv
  <2> QED BY <2>1, <2>2, <2>3, <2>4 DEF FlowInv
<1>6. CASE ReaderNotifies \/ EndOfOutput \/ ReaderLeaves
  <2>1. /\ UNCHANGED <<historyVars, made, gone, batch, fetched>>
        /\ \/ reader = "recorded" /\ reader' = "reading" /\ outputClosed' = outputClosed
           \/ reader = "closing" /\ reader' = "done" /\ outputClosed' = outputClosed
           \/ reader = "reading" /\ reader' = "closing" /\ gone /\ fetched = made
    BY <1>6 DEF ReaderNotifies, EndOfOutput, ReaderLeaves, outputVars, child, flags
  <2>2. Len(<<>>) = 0 /\ next \in Nat BY EmptySeq DEF RingInv
  <2> QED BY <1>1, <2>1, <2>2 DEF FlowInv
<1>7. CASE ChildWrites
  <2>1. /\ UNCHANGED <<historyVars, reader, gone, batch, fetched, outputClosed>>
        /\ ~gone /\ made' = made + 1
    BY <1>7 DEF ChildWrites, outputVars, threads, flags
  <2>2. next \in Nat /\ Len(batch) \in Nat BY LenProperties DEF RingInv, FlowInv
  <2> QED BY <1>1, <2>1, <2>2 DEF FlowInv
<1>8. CASE ChildEnds
  <2>1. UNCHANGED <<historyVars, reader, made, batch, fetched, outputClosed>> /\ gone' = TRUE
    BY <1>8 DEF ChildEnds, outputVars, threads, flags
  <2> QED BY <1>1, <2>1 DEF FlowInv
<1>9. CASE ChildReaped
  BY <1>2, <1>9 DEF ChildReaped, outputVars, child, threads
<1>10. CASE Resizer
  <2>1. UNCHANGED <<ring, next, reader, made, gone, batch, fetched, outputClosed>>
    BY <1>10 DEF Resizer, ResizerLocksScreen, RecordResize, ResizerNotifies, ResizePty, Resize,
       outputVars, child, flags
  <2> QED BY <2>1 DEF RingInv, FlowInv
<1>11. ASSUME NEW g \in Grid, AskResize(g) PROVE RingInv' /\ FlowInv'
  BY <1>2, <1>11 DEF AskResize, outputVars, child, flags
<1>12. CASE Quiet BY <1>2, <1>12 DEF Quiet, outputVars, child, threads, flags
<1>13. CASE UNCHANGED vars BY <1>2, <1>13 DEF vars, outputVars, child, threads, flags
<1> QED BY <1>3, <1>4, <1>5, <1>6, <1>7, <1>8, <1>9, <1>10, <1>11, <1>12, <1>13,
           OthersAreQuiet DEF Next, Reader

\* The first mark names the screen there is.
LEMMA ScreenInit == Init /\ SessionOutputAssumption /\ HistoryAssumption => ScreenInv
<1> SUFFICES ASSUME Init PROVE ScreenInv OBVIOUS
<1>1. PICK g \in Grid :
        /\ marks = <<[at |-> 0, grid |-> g, epoch |-> 0]>>
        /\ screen = [grid |-> g, epoch |-> 0] /\ wanted = g
        /\ next = 0 /\ parsedUnder = <<>> /\ reader = "reading"
  BY DEF Init, HistoryInit
<1>2. PICK m : m = [at |-> 0, grid |-> g, epoch |-> 0] OBVIOUS
<1>3. m \in Mark /\ Named(m) = screen /\ m.at = 0 BY <1>1, <1>2 DEF Mark, Named
<1>4. marks = <<m>> BY <1>1, <1>2
<1>5. marks \in Seq(Mark) /\ Len(marks) = 1 /\ marks[1] = m BY <1>3, <1>4
<1>6. Marked(marks, next, parsedUnder, screen) BY <1>1, <1>3, <1>5 DEF Marked
<1>7. screen \in Look BY <1>1 DEF Look
<1>8. <<>> \in Seq(Look) /\ Len(<<>>) = 0 BY EmptySeq
<1> QED BY <1>1, <1>6, <1>7, <1>8 DEF ScreenInv

\* Bytes are parsed and recorded, and grids changed, with both mutexes held.
LEMMA ScreenStep ==
  ASSUME RingInv, FlowInv, LockInv, ScreenInv, RingInv', [Next]_vars,
         HistoryAssumption, SessionOutputAssumption
  PROVE  ScreenInv'
<1>1. ASSUME UNCHANGED <<next, marks, screen, wanted, parsedUnder, reader, batch>>
      PROVE  ScreenInv'
  BY <1>1 DEF ScreenInv
<1>2. CASE Fetch \/ ReaderLocksScreen \/ ReaderNotifies \/ EndOfOutput \/ ReaderLeaves
  <2>1. /\ UNCHANGED <<next, marks, screen, wanted, parsedUnder>>
        /\ reader # "fed" /\ reader' # "fed"
    BY <1>2 DEF Fetch, ReaderLocksScreen, ReaderNotifies, EndOfOutput, ReaderLeaves,
       outputVars, historyVars
  <2> QED BY <2>1 DEF ScreenInv
<1>3. CASE Feed
  <2>1. /\ reader = "screen" /\ reader' = "fed"
        /\ parsedUnder' = parsedUnder \o [i \in DOMAIN batch |-> ParsedUnder]
        /\ UNCHANGED <<next, marks, screen, wanted, batch>>
    BY <1>3 DEF Feed, historyVars
  <2>2. PICK n \in Nat, d \in Nat : n = next /\ d = Len(batch)
    BY LenProperties DEF RingInv, FlowInv
  <2>3. PICK look \in Look : look = screen BY DEF ScreenInv
  <2>4. ParsedUnder = look BY <2>3 DEF ParsedUnder, Look
  <2>5. DOMAIN batch = 1..d BY <2>2, LenProperties DEF FlowInv
  <2>6. PICK fed : fed = [i \in 1..d |-> look] OBVIOUS
  <2>7. fed \in Seq(Look) /\ Len(fed) = d /\ \A i \in 1..d : fed[i] = look BY <2>6
  <2>8. PICK old : old = parsedUnder OBVIOUS
  <2>9. old \in Seq(Look) /\ Len(old) = n BY <2>1, <2>2, <2>8 DEF ScreenInv
  <2>10. PICK new : new = old \o fed OBVIOUS
  <2>11. /\ new \in Seq(Look) /\ Len(new) = n + d
         /\ \A i \in 1..n + d : new[i] = IF i <= n THEN old[i] ELSE fed[i - n]
    <3>1. /\ old \o fed \in Seq(Look) /\ Len(old \o fed) = Len(old) + Len(fed)
          /\ \A i \in 1..Len(old) + Len(fed) :
               (old \o fed)[i] = IF i <= Len(old) THEN old[i] ELSE fed[i - Len(old)]
      BY <2>7, <2>9, ConcatProperties
    <3> QED BY <2>7, <2>9, <2>10, <3>1
  <2>12. \A k \in 1..n : new[k] = old[k] BY <2>11
  <2>13. \A k \in n + 1..n + d : new[k] = look
    <3> SUFFICES ASSUME NEW k \in n + 1..n + d PROVE new[k] = look OBVIOUS
    <3>1. k - n \in 1..d /\ ~(k <= n) /\ k \in 1..n + d OBVIOUS
    <3>2. new[k] = fed[k - n] BY <2>11, <3>1
    <3> QED BY <2>7, <3>1, <3>2
  <2>14. Marked(marks, n, old, look) BY <2>2, <2>3, <2>8 DEF ScreenInv
  <2>15. Marked(marks, n, new, look) BY <2>12, <2>14 DEF Marked
  <2>16. parsedUnder' = new BY <2>1, <2>4, <2>5, <2>6, <2>8, <2>10
  <2> QED BY <2>1, <2>2, <2>3, <2>11, <2>13, <2>15, <2>16 DEF ScreenInv
<1>4. CASE Record
  <2>1. /\ reader = "fed" /\ reader' = "recorded" /\ AppendBytes(batch)
        /\ UNCHANGED <<screen, wanted, parsedUnder>>
    BY <1>4 DEF Record
  <2>2. next' = next + Len(batch) BY <2>1, AppendIs DEF FlowInv
  <2>3. next \in Nat /\ next' \in Nat /\ next <= next' /\ Len(batch) \in Nat
    BY <2>2, LenProperties DEF RingInv, FlowInv
  <2>4. \A k \in next + 1..next' : parsedUnder[k] = screen BY <2>1, <2>2 DEF ScreenInv
  <2>5. Marked(marks, next, parsedUnder, screen) BY DEF ScreenInv
  <2>6. PICK end \in Nat : end = next' BY <2>3
  <2>7. Marked(marks, end, parsedUnder, screen) BY <2>3, <2>4, <2>5, <2>6, AppendKeeps
  <2>8. PICK oldest \in Nat : oldest = next' - Len(ring')
    BY OldestIs DEF RingInv
  <2>9. Marked(Pruned(marks, oldest), end, parsedUnder, screen) BY <2>7, PrunedKeeps
  <2>10. marks' = Pruned(marks, oldest) BY <2>1, <2>8 DEF AppendBytes
  <2>11. Marked(marks', next', parsedUnder', screen') BY <2>1, <2>6, <2>9, <2>10
  <2>12. Len(parsedUnder) = next' BY <2>1, <2>2 DEF ScreenInv
  <2>13. reader' # "fed" /\ screen' \in Look /\ wanted' \in Grid /\ parsedUnder' \in Seq(Look)
    BY <2>1 DEF ScreenInv
  <2>14. Len(parsedUnder') = next' BY <2>1, <2>12
  <2>15. next' \in Nat BY DEF RingInv
  <2>16. Len(parsedUnder') = next' + (IF reader' = "fed" THEN Len(batch') ELSE 0)
    <3>1. (IF reader' = "fed" THEN Len(batch') ELSE 0) = 0 BY <2>13
    <3>2. PICK n \in Nat : n = next' BY <2>15
    <3>3. n + 0 = n OBVIOUS
    <3> QED BY <2>14, <3>1, <3>2, <3>3
  <2> QED BY <2>11, <2>13, <2>16 DEF ScreenInv
<1>5. CASE RecordResize
  <2>1. /\ resizer = "resized" /\ Resize(wanted)
        /\ screen' = [grid |-> wanted, epoch |-> screen.epoch + 1]
        /\ UNCHANGED <<parsedUnder, reader, batch, wanted, next>>
    BY <1>5 DEF RecordResize, Resize
  <2>2. reader # "fed" BY <2>1 DEF LockInv
  <2>3. PICK end \in Nat, g \in Grid : end = next /\ g = wanted BY DEF RingInv, ScreenInv
  <2>4. Marked(marks, end, parsedUnder, screen) BY <2>3 DEF ScreenInv
  <2>5. PICK look : look = [grid |-> g, epoch |-> screen.epoch + 1] OBVIOUS
  <2>6. Marked(Resized(marks, end, g), end, parsedUnder, look) BY <2>4, <2>5, ResizedKeeps
  <2>7. PICK oldest \in Nat : oldest = Oldest
    BY OldestIs DEF RingInv, Oldest
  <2>8. Marked(Pruned(Resized(marks, end, g), oldest), end, parsedUnder, look)
    BY <2>6, PrunedKeeps
  <2>9. marks' = Pruned(Resized(marks, end, g), oldest) BY <2>1, <2>3, <2>7 DEF Resize
  <2>10. screen' = look BY <2>1, <2>3, <2>5
  <2>11. Marked(marks', next', parsedUnder', screen') BY <2>1, <2>3, <2>8, <2>9, <2>10
  <2>12. look \in Look
    <3>1. screen.epoch \in Nat BY DEF ScreenInv, Look
    <3> QED BY <2>5, <3>1 DEF Look
  <2> QED BY <2>1, <2>2, <2>10, <2>11, <2>12 DEF ScreenInv
<1>6. CASE ResizerLocksScreen \/ ResizerNotifies \/ \E ok \in BOOLEAN : ResizePty(ok)
  BY <1>1, <1>6 DEF ResizerLocksScreen, ResizerNotifies, ResizePty, outputVars, historyVars
<1>7. ASSUME NEW g \in Grid, AskResize(g) PROVE ScreenInv'
  <2>1. UNCHANGED <<next, marks, screen, parsedUnder, reader, batch>> /\ wanted' \in Grid
    BY <1>7 DEF AskResize, outputVars, historyVars
  <2> QED BY <2>1 DEF ScreenInv
<1>8. CASE ChildWrites \/ ChildEnds \/ ChildReaped
  BY <1>1, <1>8 DEF ChildWrites, ChildEnds, ChildReaped, outputVars, historyVars, threads
<1>9. CASE Quiet BY <1>1, <1>9 DEF Quiet, outputVars, historyVars, threads
<1>10. CASE UNCHANGED vars BY <1>1, <1>10 DEF vars, outputVars, historyVars, threads
<1> QED BY <1>2, <1>3, <1>4, <1>5, <1>6, <1>7, <1>8, <1>9, <1>10, OthersAreQuiet
        DEF Next, Reader, Resizer

--------------------------------------------------------------------------------
(* Subscribers and pollers.                                                *)

\* A chunk holds what follows the cursor, or tells that something is missing.
ChunkOk(c, after) ==
  /\ c.start \in Nat /\ after <= c.start /\ (c.start = after \/ c.gap)
  /\ c.data \in Seq(Nat) /\ c.next = c.start + Len(c.data)
  /\ \A i \in 1..Len(c.data) : c.data[i] = c.start + i

\* What read answers is one.
LEMMA ChunkIs ==
  ASSUME RingInv, NEW after \in Nat, after <= next, NEW limit \in Nat \ {0}, HistoryAssumption
  PROVE  ChunkOk(Read(after, limit), after)
<1>1. PICK r : r = Read(after, limit) OBVIOUS
<1>2. ChunkOk(r, after) BY <1>1, ReadIs DEF ChunkOk
<1> QED BY <1>1, <1>2

\* What a subscriber knows, if over says that the output is and end where it ends.
SubOk(r, over, end) ==
  /\ r = [at |-> r.at, after |-> r.after, from |-> r.from, seen |-> r.seen,
          ended |-> r.ended, frame |-> r.frame, heard |-> r.heard, gapped |-> r.gapped]
  /\ r.from \in Nat /\ r.after \in Nat /\ r.from <= r.after
  /\ ~r.gapped => r.heard = r.from + 1..r.after
  /\ r.at \in {"history", "deciding"} /\ r.ended => over
  /\ r.at = "deciding" => ChunkOk(r.frame.chunk, r.after)
  /\ r.at = "deciding" /\ r.ended /\ r.frame.chunk.data = <<>> => r.after = end
  /\ r.at = "closed" => over /\ r.after = end
SubInv ==
  /\ sub = [s \in Subscriber |-> sub[s]]
  /\ \A s \in Subscriber : SubOk(sub[s], outputClosed, made)

\* And what a poller knows.
PollOk(r, over, end) ==
  /\ r = [at |-> r.at, after |-> r.after, exited |-> r.exited, frame |-> r.frame]
  /\ r.after \in Nat
  /\ r.at \in {"history", "answered"} /\ r.exited => over
  /\ r.at = "answered" /\ r.exited /\ r.frame.chunk.data = <<>> => r.after = end
PollInv ==
  /\ poll = [p \in Poller |-> poll[p]]
  /\ \A p \in Poller : PollOk(poll[p], outputClosed, made)

\* Once the output is over it stays so, and nothing more is made.
LEMMA OverStays ==
  ASSUME FlowInv, [Next]_vars, outputClosed
  PROVE  outputClosed' /\ made' = made
<1>1. gone /\ reader \in {"closing", "done"} BY DEF FlowInv
<1>2. CASE ChildWrites \/ ChildEnds \/ ChildReaped
  BY <1>1, <1>2 DEF ChildWrites, ChildEnds, ChildReaped, flags, child
<1>3. CASE Reader
  BY <1>1, <1>3 DEF Reader, Fetch, ReaderLocksScreen, Feed, Record, ReaderNotifies, EndOfOutput,
     ReaderLeaves, flags, child
<1>4. CASE Resizer
  BY <1>4 DEF Resizer, ResizerLocksScreen, RecordResize, ResizerNotifies, ResizePty, flags, child
<1>5. ASSUME NEW g \in Grid, AskResize(g) PROVE outputClosed' /\ made' = made
  BY <1>5 DEF AskResize, flags, child
<1>6. CASE Quiet BY <1>6 DEF Quiet, flags, child
<1>7. CASE UNCHANGED vars BY <1>7 DEF vars, flags, child
<1> QED BY <1>2, <1>3, <1>4, <1>5, <1>6, <1>7, OthersAreQuiet DEF Next

\* What was true of a subscriber or a poller that does not move stays so.
LEMMA OkStays ==
  ASSUME NEW r, NEW over, NEW over2, NEW end, NEW end2, over => over2 /\ end2 = end
  PROVE  /\ SubOk(r, over, end) => SubOk(r, over2, end2)
         /\ PollOk(r, over, end) => PollOk(r, over2, end2)
BY DEF SubOk, PollOk

\* One subscriber moves.
LEMMA SubMoves ==
  ASSUME SubInv, NEW s \in Subscriber, NEW r, sub' = [sub EXCEPT ![s] = r],
         SubOk(r, outputClosed, made), SubscriberStep
  PROVE  SubInv'
<1>1. outputClosed' = outputClosed /\ made' = made BY DEF SubscriberStep, flags, child
<1>2. /\ sub' = [t \in Subscriber |-> sub'[t]]
      /\ \A t \in Subscriber : sub'[t] = IF t = s THEN r ELSE sub[t]
  BY DEF SubInv
<1>3. \A t \in Subscriber : SubOk(sub'[t], outputClosed, made) BY <1>2 DEF SubInv
<1> QED BY <1>1, <1>2, <1>3 DEF SubInv

\* One that goes on to a place where nothing more is known of it.
LEMMA SubGoes ==
  ASSUME SubInv, NEW s \in Subscriber, NEW at, Goes(s, at), SubscriberStep,
         at \notin {"history", "deciding"},
         at = "closed" => outputClosed /\ sub[s].after = made
  PROVE  SubInv'
<1>1. PICK j : j = sub[s] OBVIOUS
<1>2. SubOk(j, outputClosed, made) BY <1>1 DEF SubInv
<1>3. j = [at |-> j.at, after |-> j.after, from |-> j.from, seen |-> j.seen,
           ended |-> j.ended, frame |-> j.frame, heard |-> j.heard, gapped |-> j.gapped]
  BY <1>2 DEF SubOk
<1>4. PICK r : r = [j EXCEPT !.at = at] OBVIOUS
<1>5. r = [at |-> at, after |-> j.after, from |-> j.from, seen |-> j.seen,
           ended |-> j.ended, frame |-> j.frame, heard |-> j.heard, gapped |-> j.gapped]
  BY <1>3, <1>4
<1>6. sub' = [sub EXCEPT ![s] = r] BY <1>1, <1>4 DEF Goes
<1>7. SubOk(r, outputClosed, made) BY <1>1, <1>2, <1>5 DEF SubOk
<1> QED BY <1>6, <1>7, SubMoves

\* What a subscriber is sent is what it is missing, or it is told.
LEMMA SubStep ==
  ASSUME RingInv, FlowInv, ScreenInv, SubInv, NEW s \in Subscriber,
         Subscribed(s) \/ Heartbeat(s) \/ Disconnect(s),
         HistoryAssumption, SessionOutputAssumption
  PROVE  SubInv'
<1>1. SubscriberStep BY OthersAreQuiet
<1>2. PICK j : j = sub[s] OBVIOUS
<1>3. SubOk(j, outputClosed, made) BY <1>2 DEF SubInv
<1>4. j = [at |-> j.at, after |-> j.after, from |-> j.from, seen |-> j.seen,
           ended |-> j.ended, frame |-> j.frame, heard |-> j.heard, gapped |-> j.gapped]
  BY <1>3 DEF SubOk
<1>5. CASE SeeSignal(s)
  <2>1. PICK r : r = [j EXCEPT !.at = "ended", !.seen = signal] OBVIOUS
  <2>2. r = [at |-> "ended", after |-> j.after, from |-> j.from, seen |-> signal,
             ended |-> j.ended, frame |-> j.frame, heard |-> j.heard, gapped |-> j.gapped]
    BY <1>4, <2>1
  <2>3. sub' = [sub EXCEPT ![s] = r] BY <1>2, <1>5, <2>1 DEF SeeSignal
  <2>4. SubOk(r, outputClosed, made) BY <1>3, <2>2 DEF SubOk
  <2> QED BY <1>1, <2>3, <2>4, SubMoves
<1>6. CASE SeeEnded(s)
  <2>1. PICK e : e = (exited /\ outputClosed) OBVIOUS
  <2>2. PICK r : r = [j EXCEPT !.at = "history", !.ended = e] OBVIOUS
  <2>3. r = [at |-> "history", after |-> j.after, from |-> j.from, seen |-> j.seen,
             ended |-> e, frame |-> j.frame, heard |-> j.heard, gapped |-> j.gapped]
    BY <1>4, <2>2
  <2>4. sub' = [sub EXCEPT ![s].at = "history", ![s].ended = e]
    BY <1>6, <2>1, Zenon DEF SeeEnded
  <2>5. sub' = [sub EXCEPT ![s] = r] BY <1>2, <2>2, <2>4
  <2>6. SubOk(r, outputClosed, made)
    <3>1. e => outputClosed BY <2>1
    <3> QED BY <1>3, <2>3, <3>1 DEF SubOk
  <2> QED BY <1>1, <2>5, <2>6, SubMoves
<1>7. CASE SeeHistory(s)
  <2>1. CASE j.after > next
    <3>1. Goes(s, "refused") BY <1>2, <1>7, <2>1 DEF SeeHistory, Goes
    <3> QED BY <1>1, <3>1, SubGoes
  <2>2. CASE ~(j.after > next)
    <3>1. PICK after \in Nat : after = j.after BY <1>3 DEF SubOk
    <3>2. after <= next BY <2>2, <3>1 DEF RingInv
    <3>3. PICK f : f = ReadFrame(after, Limit) OBVIOUS
    <3>4. PICK max \in Nat \ {0} : f.chunk = Read(after, max)
      <4>1. Limit \in Nat \ {0} BY DEF SessionOutputAssumption
      <4>2. Marked(marks, next, parsedUnder, screen) BY DEF ScreenInv
      <4> QED BY <3>2, <3>3, <4>1, <4>2, FrameIs
    <3>5. PICK c : c = f.chunk OBVIOUS
    <3>6. ChunkOk(c, after) /\ (c.data = <<>> => after = next)
      BY <3>2, <3>4, <3>5, ReadIs DEF ChunkOk
    <3>7. PICK r : r = [j EXCEPT !.at = "deciding", !.frame = f] OBVIOUS
    <3>8. r = [at |-> "deciding", after |-> after, from |-> j.from, seen |-> j.seen,
               ended |-> j.ended, frame |-> f, heard |-> j.heard, gapped |-> j.gapped]
      BY <1>4, <3>1, <3>7
    <3>9. j.at = "history" BY <1>2, <1>7 DEF SeeHistory
    <3>10. sub' = [sub EXCEPT ![s] = r] BY <1>2, <1>7, <2>2, <3>1, <3>3, <3>7 DEF SeeHistory
    <3>11. SubOk(r, outputClosed, made)
      <4>1. j.ended => outputClosed /\ next = made BY <1>3, <3>9 DEF SubOk, FlowInv
      <4> QED BY <1>3, <3>1, <3>5, <3>6, <3>8, <4>1 DEF SubOk
    <3> QED BY <1>1, <3>10, <3>11, SubMoves
  <2> QED BY <2>1, <2>2
<1>8. CASE SendFrame(s)
  <2>1. PICK c : c = j.frame.chunk OBVIOUS
  <2>2. j.at = "deciding" BY <1>2, <1>8 DEF SendFrame
  <2>3. ChunkOk(c, j.after) BY <1>3, <2>1, <2>2 DEF SubOk
  <2>4. PICK n \in Nat, start \in Nat, after \in Nat, from \in Nat :
          n = Len(c.data) /\ start = c.start /\ after = j.after /\ from = j.from
    BY <1>3, <2>3, LenProperties DEF SubOk, ChunkOk
  <2>5. PICK bytes : bytes = { c.data[i] : i \in DOMAIN c.data } OBVIOUS
  <2>6. bytes = start + 1..start + n
    <3>1. DOMAIN c.data = 1..n BY <2>3, <2>4, LenProperties DEF ChunkOk
    <3>2. \A i \in 1..n : c.data[i] = start + i BY <2>3, <2>4 DEF ChunkOk
    <3>3. bytes = { start + i : i \in 1..n } BY <2>5, <3>1, <3>2
    <3>4. \A k \in start + 1..start + n : k - start \in 1..n /\ start + (k - start) = k OBVIOUS
    <3> QED BY <3>3, <3>4
  <2>7. PICK heard, gapped : heard = j.heard \cup bytes /\ gapped = (j.gapped \/ c.gap) OBVIOUS
  <2>8. PICK r : r = [j EXCEPT !.at = "signal", !.after = c.next, !.heard = heard,
                               !.gapped = gapped]
    OBVIOUS
  <2>9. r = [at |-> "signal", after |-> c.next, from |-> j.from, seen |-> j.seen,
             ended |-> j.ended, frame |-> j.frame, heard |-> heard, gapped |-> gapped]
    BY <1>4, <2>8
  <2>10. sub' = [sub EXCEPT ![s].at = "signal", ![s].after = c.next,
                            ![s].heard = heard, ![s].gapped = gapped]
    <3>1. sub' = [sub EXCEPT ![s].at = "signal", ![s].after = sub[s].frame.chunk.next,
                   ![s].heard = sub[s].heard \cup { sub[s].frame.chunk.data[i] :
                                                     i \in DOMAIN sub[s].frame.chunk.data },
                   ![s].gapped = sub[s].gapped \/ sub[s].frame.chunk.gap]
      BY <1>8, Zenon DEF SendFrame
    <3>2. /\ c.next = sub[s].frame.chunk.next
          /\ heard = sub[s].heard \cup { sub[s].frame.chunk.data[i] :
                                          i \in DOMAIN sub[s].frame.chunk.data }
          /\ gapped = (sub[s].gapped \/ sub[s].frame.chunk.gap)
      BY <1>2, <2>1, <2>5, <2>7, Zenon
    <3> QED BY <3>1, <3>2, Zenon
  <2>11. sub' = [sub EXCEPT ![s] = r] BY <1>2, <2>8, <2>10
  <2>12. c.next = start + n /\ after <= start /\ from <= after BY <1>3, <2>3, <2>4 DEF SubOk, ChunkOk
  <2>13. ~gapped => heard = from + 1..c.next
    <3> SUFFICES ASSUME ~gapped PROVE heard = from + 1..c.next OBVIOUS
    <3>1. ~j.gapped /\ ~c.gap BY <2>7
    <3>2. j.heard = from + 1..after BY <1>3, <2>4, <3>1 DEF SubOk
    <3>3. start = after BY <2>3, <2>4, <3>1 DEF ChunkOk
    <3>4. heard = (from + 1..after) \cup (after + 1..after + n) BY <2>6, <2>7, <3>2, <3>3
    <3>5. (from + 1..after) \cup (after + 1..after + n) = from + 1..after + n BY <2>12
    <3> QED BY <2>12, <3>3, <3>4, <3>5
  <2>14. SubOk(r, outputClosed, made)
    <3>1. r.at = "signal" /\ r.after = start + n /\ r.from = from /\ r.gapped = gapped
          /\ r.heard = heard
      BY <2>4, <2>9, <2>12
    <3>2. start + n \in Nat /\ from <= start + n BY <2>12
    <3> QED BY <2>9, <2>12, <2>13, <3>1, <3>2 DEF SubOk
  <2> QED BY <1>1, <2>11, <2>14, SubMoves
<1>9. CASE SendClosing(s)
  <2>1. j.at = "deciding" /\ j.ended /\ j.frame.chunk.data = <<>> /\ Goes(s, "closed")
    BY <1>2, <1>9 DEF SendClosing, HasBytes
  <2>2. outputClosed /\ j.after = made BY <1>3, <2>1 DEF SubOk
  <2> QED BY <1>1, <1>2, <2>1, <2>2, SubGoes
<1>10. CASE Wait(s) \/ Wake(s) \/ Heartbeat(s) \/ Disconnect(s)
  <2>1. PICK at \in {"waiting", "signal", "disconnected"} : Goes(s, at)
    BY <1>10 DEF Wait, Wake, Heartbeat, Disconnect
  <2> QED BY <1>1, <2>1, SubGoes
<1> QED BY <1>5, <1>6, <1>7, <1>8, <1>9, <1>10 DEF Subscribed

\* A poller is told that the output is over only if its answer is the last.
LEMMA PollStepIs ==
  ASSUME RingInv, FlowInv, ScreenInv, PollInv, NEW p \in Poller, Polls(p),
         HistoryAssumption, SessionOutputAssumption
  PROVE  PollInv'
<1>1. outputClosed' = outputClosed /\ made' = made
  BY OthersAreQuiet DEF PollStep, flags, child
<1>2. PICK j : j = poll[p] OBVIOUS
<1>3. PollOk(j, outputClosed, made) BY <1>2 DEF PollInv
<1>4. ASSUME NEW r, poll' = [poll EXCEPT ![p] = r], PollOk(r, outputClosed, made)
      PROVE  PollInv'
  <2>1. /\ poll' = [q \in Poller |-> poll'[q]]
        /\ \A q \in Poller : poll'[q] = IF q = p THEN r ELSE poll[q]
    BY <1>4 DEF PollInv
  <2>2. \A q \in Poller : PollOk(poll'[q], outputClosed, made) BY <1>4, <2>1 DEF PollInv
  <2> QED BY <1>1, <2>1, <2>2 DEF PollInv
<1>5. ASSUME NEW c \in Cursor, PollEnded(p, c) PROVE PollInv'
  <2>1. PICK e : e = (exited /\ outputClosed) OBVIOUS
  <2>2. PICK r : r = [at |-> "history", after |-> c, frame |-> NoFrame, exited |-> e] OBVIOUS
  <2>3. poll' = [poll EXCEPT ![p] = [at |-> "history", after |-> c, frame |-> NoFrame,
                                     exited |-> e]]
    BY <1>5, <2>1, Zenon DEF PollEnded
  <2>4. c \in Nat BY DEF Cursor, SessionOutputAssumption
  <2>5. e => outputClosed BY <2>1
  <2>6. PollOk(r, outputClosed, made) BY <2>2, <2>4, <2>5 DEF PollOk
  <2> QED BY <1>4, <2>2, <2>3, <2>6
<1>6. CASE PollHistory(p)
  <2>1. j = [at |-> j.at, after |-> j.after, exited |-> j.exited, frame |-> j.frame]
        /\ j.at = "history"
    BY <1>2, <1>3, <1>6 DEF PollOk, PollHistory
  <2>2. CASE j.after > next
    <3>1. PICK r : r = [j EXCEPT !.at = "idle"] OBVIOUS
    <3>2. r = [at |-> "idle", after |-> j.after, exited |-> j.exited, frame |-> j.frame]
      BY <2>1, <3>1
    <3>3. poll' = [poll EXCEPT ![p] = r] BY <1>2, <1>6, <2>2, <3>1 DEF PollHistory
    <3>4. PollOk(r, outputClosed, made) BY <1>3, <3>2 DEF PollOk
    <3> QED BY <1>4, <3>3, <3>4
  <2>3. CASE ~(j.after > next)
    <3>1. PICK after \in Nat : after = j.after BY <1>3 DEF PollOk
    <3>2. after <= next BY <2>3, <3>1 DEF RingInv
    <3>3. PICK f : f = ReadFrame(after, Limit) OBVIOUS
    <3>4. PICK max \in Nat \ {0} : f.chunk = Read(after, max)
      <4>1. Limit \in Nat \ {0} BY DEF SessionOutputAssumption
      <4>2. Marked(marks, next, parsedUnder, screen) BY DEF ScreenInv
      <4> QED BY <3>2, <3>3, <4>1, <4>2, FrameIs
    <3>5. f.chunk.data = <<>> => after = next BY <3>2, <3>4, ReadIs
    <3>6. PICK r : r = [j EXCEPT !.at = "answered", !.frame = f] OBVIOUS
    <3>7. r = [at |-> "answered", after |-> after, exited |-> j.exited, frame |-> f]
      BY <2>1, <3>1, <3>6
    <3>8. poll' = [poll EXCEPT ![p] = r] BY <1>2, <1>6, <2>3, <3>1, <3>3, <3>6 DEF PollHistory
    <3>9. PollOk(r, outputClosed, made)
      <4>1. j.exited => outputClosed /\ next = made BY <1>3, <2>1 DEF PollOk, FlowInv
      <4> QED BY <3>1, <3>5, <3>7, <4>1 DEF PollOk
    <3> QED BY <1>4, <3>8, <3>9
  <2> QED BY <2>2, <2>3
<1> QED BY <1>5, <1>6 DEF Polls

\* Nobody knows anything at first.
LEMMA ReadersInit == Init /\ SessionOutputAssumption => SubInv /\ PollInv
<1> SUFFICES ASSUME Init, SessionOutputAssumption PROVE SubInv /\ PollInv OBVIOUS
<1>1. ASSUME NEW s \in Subscriber PROVE SubOk(sub[s], outputClosed, made)
  <2>0. sub[s] \in { [at |-> "signal", after |-> c, from |-> c, seen |-> 0, ended |-> FALSE,
                      frame |-> NoFrame, heard |-> {}, gapped |-> FALSE] : c \in Cursor }
    BY <1>1, Zenon DEF Init
  <2>3. PICK no : no = FALSE OBVIOUS
  <2>1. PICK c \in Cursor :
          sub[s] = [at |-> "signal", after |-> c, from |-> c, seen |-> 0, ended |-> no,
                    frame |-> NoFrame, heard |-> {}, gapped |-> no]
    BY <2>0, <2>3, Zenon
  <2>2. c \in Nat /\ c + 1..c = {} BY DEF Cursor, SessionOutputAssumption
  <2> QED BY <2>1, <2>2, <2>3 DEF SubOk
<1>2. sub = [s \in Subscriber |-> sub[s]] BY DEF Init
<1>3. ASSUME NEW p \in Poller PROVE PollOk(poll[p], outputClosed, made)
  <2>1. PICK no : no = FALSE OBVIOUS
  <2>2. poll[p] = [at |-> "idle", after |-> 0, exited |-> no, frame |-> NoFrame]
    BY <1>3, <2>1, Zenon DEF Init
  <2> QED BY <2>2 DEF PollOk
<1>4. poll = [p \in Poller |-> poll[p]] BY DEF Init
<1> QED BY <1>1, <1>2, <1>3, <1>4 DEF SubInv, PollInv

--------------------------------------------------------------------------------
(* What is promised.                                                       *)

OutputInv == RingInv /\ FlowInv /\ LockInv /\ ScreenInv /\ SubInv /\ PollInv

\* All of it is true at every moment.
LEMMA OutputAlways == Spec => []OutputInv
<1>1. Init => OutputInv
  BY FlowInit, ScreenInit, ReadersInit, HistoryAssumption, SessionOutputAssumption DEF OutputInv
<1>2. OutputInv /\ [Next]_vars => OutputInv'
  <2> SUFFICES ASSUME OutputInv, [Next]_vars PROVE OutputInv' OBVIOUS
  <2> USE HistoryAssumption, SessionOutputAssumption DEF OutputInv
  <2>1. RingInv' /\ FlowInv' BY FlowStep
  <2>2. LockInv' BY LockStep
  <2>3. ScreenInv' BY <2>1, ScreenStep
  <2>4. SubInv'
    <3>1. CASE \E s \in Subscriber : Subscribed(s) \/ Heartbeat(s) \/ Disconnect(s)
      BY <3>1, SubStep
    <3>2. CASE UNCHANGED sub
      <4>1. outputClosed => outputClosed' /\ made' = made BY OverStays
      <4>2. \A s \in Subscriber : SubOk(sub[s], outputClosed', made')
        BY <4>1, OkStays DEF SubInv
      <4> QED BY <3>2, <4>2 DEF SubInv
    <3>3. UNCHANGED sub \/ \E s \in Subscriber : Subscribed(s) \/ Heartbeat(s) \/ Disconnect(s)
      BY OthersAreQuiet DEF Next, vars, PollStep, ChildWrites, ChildEnds, ChildReaped, Reader, Fetch,
         ReaderLocksScreen, Feed, Record, ReaderNotifies, EndOfOutput, ReaderLeaves, Resizer,
         ResizerLocksScreen, RecordResize, ResizerNotifies, ResizePty, AskResize
    <3> QED BY <3>1, <3>2, <3>3
  <2>5. PollInv'
    <3>1. CASE \E p \in Poller : Polls(p) BY <3>1, PollStepIs
    <3>2. CASE UNCHANGED poll
      <4>1. outputClosed => outputClosed' /\ made' = made BY OverStays
      <4>2. \A p \in Poller : PollOk(poll[p], outputClosed', made')
        BY <4>1, OkStays DEF PollInv
      <4> QED BY <3>2, <4>2 DEF PollInv
    <3>3. UNCHANGED poll \/ \E p \in Poller : Polls(p)
      BY OthersAreQuiet DEF Next, vars, SubscriberStep, ChildWrites, ChildEnds, ChildReaped, Reader,
         Fetch, ReaderLocksScreen, Feed, Record, ReaderNotifies, EndOfOutput, ReaderLeaves, Resizer,
         ResizerLocksScreen, RecordResize, ResizerNotifies, ResizePty, AskResize
    <3> QED BY <3>1, <3>2, <3>3
  <2> QED BY <2>1, <2>2, <2>3, <2>4, <2>5
<1> QED BY <1>1, <1>2, PTL DEF Spec

\* Whatever a view asks for, a frame names the grid and the resize its bytes were
\* parsed under, as far back as marks are kept (read_frame, and both mutexes held
\* by the reader and by Resize).
THEOREM HonestFrames == Spec => []FramesAreHonest
<1>1. OutputInv => FramesAreHonest
  <2> SUFFICES ASSUME OutputInv, NEW c \in 0..next,
                      NEW f, f = ReadFrame(c, Limit), f.chunk.start >= marks[1].at,
                      NEW i \in DOMAIN f.chunk.data
               PROVE  parsedUnder[f.chunk.data[i]] = f.geometry
    BY DEF FramesAreHonest
  <2>1. c \in Nat /\ c <= next /\ RingInv /\ Marked(marks, next, parsedUnder, screen)
    BY DEF OutputInv, RingInv, ScreenInv
  <2>2. Limit \in Nat \ {0} BY SessionOutputAssumption DEF SessionOutputAssumption
  <2>3. /\ \E max \in Nat \ {0} : f.chunk = Read(c, max)
        /\ \A k \in f.chunk.start + 1..f.chunk.next : parsedUnder[k] = f.geometry
    BY <2>1, <2>2, HistoryAssumption, FrameIs
  <2>4. PICK max \in Nat \ {0} : f.chunk = Read(c, max) BY <2>3
  <2>8. PICK chunk : chunk = f.chunk OBVIOUS
  <2>5. /\ chunk.start \in Nat /\ chunk.data \in Seq(Nat)
        /\ chunk.next = chunk.start + Len(chunk.data)
        /\ \A k \in 1..Len(chunk.data) : chunk.data[k] = chunk.start + k
    <3>1. chunk = Read(c, max) BY <2>4, <2>8
    <3>2. RingInv /\ c \in Nat /\ c <= next BY <2>1
    <3>3. ChunkOk(chunk, c) BY <3>1, <3>2, HistoryAssumption, ChunkIs, Zenon
    <3> QED BY <3>3 DEF ChunkOk
  <2>6. i \in 1..Len(chunk.data) /\ Len(chunk.data) \in Nat BY <2>5, <2>8, LenProperties
  <2>7. chunk.data[i] \in chunk.start + 1..chunk.next BY <2>5, <2>6
  <2> QED BY <2>3, <2>7, <2>8
<1> QED BY <1>1, OutputAlways, PTL

\* A subscriber that was told of no gap has every byte since its cursor (subscribe
\* and the ring's read).
THEOREM LossIsTold == Spec => []NoSilentLoss
<1>1. OutputInv => NoSilentLoss BY DEF OutputInv, SubInv, SubOk, NoSilentLoss
<1> QED BY <1>1, OutputAlways, PTL

\* The closing frame of a subscription comes after the last byte (subscribe reads
\* the flags before the history).
THEOREM ClosingIsLast == Spec => []NothingAfterClosing
<1>1. OutputInv => NothingAfterClosing
  BY DEF OutputInv, SubInv, SubOk, FlowInv, NothingAfterClosing
<1> QED BY <1>1, OutputAlways, PTL

\* And so does the empty answer that says exited (Read and ReadFrame in dispatch).
THEOREM ExitedIsLast == Spec => []ExitedAnswerIsLast
<1>1. OutputInv => ExitedAnswerIsLast
  BY DEF OutputInv, PollInv, PollOk, FlowInv, ExitedAnswerIsLast
<1> QED BY <1>1, OutputAlways, PTL

-------------------------------------------------------------------------------
(* How the keeper ends.                                                    *)

ConnTypes == conn = [c \in Client |-> conn[c]]

\* Whoever sets the flag, or is about to, was asked to or found the session over.
ReasonInv ==
  /\ \A c \in Client : conn[c] \in {"stopping", "waking"} => stopAsked
  /\ reaper \in {"looking", "waking"} => Ended
  /\ stop => stopAsked \/ Ended
  /\ ~Running => stopAsked \/ Ended

\* Both hold from the beginning.
LEMMA ReasonInit == LifeInit => ConnTypes /\ ReasonInv
BY DEF LifeInit, ConnTypes, ReasonInv, Running

\* Every action but those of the accept loop, the reaper and Stop leaves the reasons be.
LEMMA ReasonStep ==
  ASSUME ConnTypes, ReasonInv, [LifeNext]_lifeVars
  PROVE  ConnTypes' /\ ReasonInv'
<1> USE DEF ConnTypes, ReasonInv, Ended, Running, flags, connections, reaping
<1>1. CASE UNCHANGED lifeVars BY <1>1 DEF lifeVars
<1>2. CASE TestStop BY <1>2 DEF TestStop, Leave
<1>3. CASE Accept BY <1>3 DEF Accept, Leave
<1>4. CASE ReaperLooks BY <1>4 DEF ReaperLooks
<1>5. CASE ReaperExits BY <1>5 DEF ReaperExits, Leave
<1>6. CASE ReaperStops BY <1>6 DEF ReaperStops
<1>7. CASE ReaperWakes BY <1>7 DEF ReaperWakes
<1>8. CASE ChildExits \/ OutputCloses \/ RetentionPasses \/ DirRemoved
  BY <1>8 DEF ChildExits, OutputCloses, RetentionPasses, DirRemoved
<1>9. ASSUME NEW c \in Client, Connect(c) \/ SendBytes(c) \/ SubscriptionEnds(c)
      PROVE  ConnTypes' /\ ReasonInv'
  BY <1>9 DEF Connect, SendBytes, SubscriptionEnds, Ends
<1>10. ASSUME NEW c \in Client, Answer(c) PROVE ConnTypes' /\ ReasonInv'
  BY <1>10 DEF Answer, Ends
<1>11. ASSUME NEW c \in Client, SetStop(c) PROVE ConnTypes' /\ ReasonInv'
  BY <1>11 DEF SetStop
<1>12. ASSUME NEW c \in Client, WakeAccept(c) PROVE ConnTypes' /\ ReasonInv'
  BY <1>12 DEF WakeAccept, Ends
<1> QED
  BY <1>1, <1>2, <1>3, <1>4, <1>5, <1>6, <1>7, <1>8, <1>9, <1>10, <1>11, <1>12
    DEF LifeNext, Reaper, Serve

\* Detached work is never reaped: unless a client stopped it, a keeper leaves only
\* after its program has exited and all of its output is kept.
THEOREM NeverReaped == LifeSpec => []NeverReapsRunning
<1>1. ReasonInv => NeverReapsRunning BY DEF ReasonInv, NeverReapsRunning
<1> QED BY <1>1, ReasonInit, ReasonStep, PTL DEF LifeSpec

-------------------------------------------------------------------------------
Serving == { c \in Client : conn[c] \in {"served", "stopping", "waking"} }

\* The backlog holds each connection once, and only those that wait in it; nobody
\* connects to wake the accept loop before the flag is set.
BacklogInv ==
  /\ backlog \in Seq(Client \cup {"wake"})
  /\ \A i \in DOMAIN backlog : backlog[i] \in Client => conn[backlog[i]] = "queued"
  /\ \A i, j \in DOMAIN backlog : backlog[i] \in Client /\ backlog[i] = backlog[j] => i = j
  /\ \A i \in DOMAIN backlog : backlog[i] = "wake" => stop
  /\ \A c \in Client : conn[c] = "waking" => stop
  /\ reaper = "waking" => stop

SlotInv == ConnTypes /\ BacklogInv /\ clients = Cardinality(Serving)

\* At first there is no connection.
LEMMA SlotInit == LifeInit => SlotInv
<1> SUFFICES ASSUME LifeInit PROVE SlotInv OBVIOUS
<1>1. Serving = {} BY DEF LifeInit, Serving
<1> QED BY <1>1, FS_EmptySet DEF LifeInit, SlotInv, ConnTypes, BacklogInv

\* How the set of those served changes with one connection's place.
LEMMA ServingMoves ==
  ASSUME ConnTypes, NEW c \in Client, NEW place, conn' = [conn EXCEPT ![c] = place]
  PROVE  /\ place \in {"served", "stopping", "waking"} => Serving' = Serving \cup {c}
         /\ place \notin {"served", "stopping", "waking"} => Serving' = Serving \ {c}
BY DEF ConnTypes, Serving

\* The count of those served goes with the one connection that changes.
LEMMA ServingCount ==
  ASSUME NEW c \in Client
  PROVE  /\ Cardinality(Serving) \in Nat
         /\ Cardinality(Serving \cup {c}) =
              IF c \in Serving THEN Cardinality(Serving) ELSE Cardinality(Serving) + 1
         /\ Cardinality(Serving \ {c}) =
              IF c \in Serving THEN Cardinality(Serving) - 1 ELSE Cardinality(Serving)
<1>1. IsFiniteSet(Serving)
  BY FS_Subset, KeeperLifeAssumption DEF Serving
<1> QED BY <1>1, FS_AddElement, FS_RemoveElement, FS_CardinalityType

\* A connection that is not in the backlog changes its place.
LEMMA PlaceStep ==
  ASSUME SlotInv, NEW c \in Client, NEW place, conn[c] # "queued",
         conn' = [conn EXCEPT ![c] = place], UNCHANGED <<backlog, reaper>>,
         stop => stop', place = "waking" => stop'
  PROVE  ConnTypes' /\ BacklogInv'
BY DEF SlotInv, ConnTypes, BacklogInv

\* Every step keeps count and threads together, one step of the proof for each action.
LEMMA SlotStep == ASSUME SlotInv, [LifeNext]_lifeVars PROVE SlotInv'
<1> USE DEF flags, connections, reaping
<1>0. ConnTypes /\ BacklogInv /\ clients = Cardinality(Serving) BY DEF SlotInv
<1>1. CASE UNCHANGED lifeVars
  BY <1>1 DEF lifeVars, SlotInv, BacklogInv, ConnTypes, Serving
<1>2. CASE TestStop
  BY <1>2 DEF TestStop, Leave, SlotInv, BacklogInv, ConnTypes, Serving
<1>3. CASE Accept
  <2> DEFINE c == Head(backlog)
  <2>1. /\ backlog # <<>> /\ backlog' = Tail(backlog) /\ UNCHANGED <<stop, reaper>>
        /\ backlog \in Seq(Client \cup {"wake"})
    BY <1>3, <1>0 DEF Accept, BacklogInv
  <2>2. /\ c = backlog[1] /\ 1 \in DOMAIN backlog
        /\ backlog' \in Seq(Client \cup {"wake"})
        /\ \A i \in DOMAIN backlog' : i + 1 \in DOMAIN backlog /\ backlog'[i] = backlog[i + 1]
                                      /\ i + 1 # 1 /\ i \in Nat
    BY <2>1
  <2>3. /\ \A i \in DOMAIN backlog' : backlog'[i] = "wake" => stop'
        /\ \A i, j \in DOMAIN backlog' :
             backlog'[i] \in Client /\ backlog'[i] = backlog'[j] => i = j
        /\ \A i \in DOMAIN backlog' :
             backlog'[i] \in Client => backlog'[i] # c /\ conn[backlog'[i]] = "queued"
        /\ reaper' = "waking" => stop'
    <3>1. \A i, j \in DOMAIN backlog' :
            backlog'[i] \in Client /\ backlog'[i] = backlog'[j] => i + 1 = j + 1
      BY <2>2, <1>0 DEF BacklogInv
    <3>2. \A i, j \in DOMAIN backlog' :
            backlog'[i] \in Client /\ backlog'[i] = backlog'[j] => i = j
      BY <3>1, <2>2
    <3> QED BY <2>1, <2>2, <1>0, <3>2 DEF BacklogInv
  <2>4. CASE stop
    <3>1. UNCHANGED <<clients, conn>> BY <1>3, <2>4 DEF Accept
    <3> QED BY <3>1, <2>1, <2>2, <2>3, <1>0 DEF SlotInv, BacklogInv, ConnTypes, Serving
  <2>5. CASE ~stop
    <3>1. c \in Client /\ conn[c] = "queued"
      BY <2>1, <2>2, <2>5, <1>0 DEF BacklogInv
    <3>2. PICK place \in {"dropped", "served"} :
            /\ conn' = [conn EXCEPT ![c] = place]
            /\ clients' = IF place = "served" THEN clients + 1 ELSE clients
      BY <1>3, <2>5 DEF Accept
    <3>3. ConnTypes' /\ BacklogInv'
      BY <3>1, <3>2, <2>1, <2>2, <2>3, <1>0 DEF ConnTypes, BacklogInv
    <3>4. c \notin Serving BY <3>1 DEF Serving
    <3>5. clients' = Cardinality(Serving')
      <4>1. CASE place = "served"
        BY <4>1, <3>1, <3>2, <3>4, <1>0, ServingMoves, ServingCount
      <4>2. CASE place = "dropped"
        BY <4>2, <3>1, <3>2, <3>4, <1>0, ServingMoves, ServingCount
      <4> QED BY <4>1, <4>2
    <3> QED BY <3>3, <3>5 DEF SlotInv
  <2> QED BY <2>4, <2>5
<1>4. CASE ReaperLooks \/ ReaperExits \/ ReaperStops
  BY <1>4 DEF ReaperLooks, ReaperExits, ReaperStops, Leave, SlotInv, BacklogInv, ConnTypes,
              Serving
<1>5. CASE ReaperWakes
  BY <1>5, KeeperLifeAssumption
    DEF ReaperWakes, Woken, SlotInv, BacklogInv, ConnTypes, Serving
<1>6. CASE ChildExits \/ OutputCloses \/ RetentionPasses \/ DirRemoved
  BY <1>6 DEF ChildExits, OutputCloses, RetentionPasses, DirRemoved, SlotInv, BacklogInv,
              ConnTypes, Serving
<1>7. ASSUME NEW c \in Client, Connect(c) PROVE SlotInv'
  <2>1. /\ conn[c] = "new" /\ conn' = [conn EXCEPT ![c] = "queued"]
        /\ backlog' = Append(backlog, c) /\ UNCHANGED <<stop, reaper, clients>>
    BY <1>7 DEF Connect
  <2>2. ConnTypes' /\ BacklogInv'
    BY <2>1, <1>0, KeeperLifeAssumption DEF ConnTypes, BacklogInv
  <2>3. Serving' = Serving BY <2>1, <1>0 DEF ConnTypes, Serving
  <2> QED BY <2>1, <2>2, <2>3, <1>0 DEF SlotInv
<1>8. ASSUME NEW c \in Client, SendBytes(c) PROVE SlotInv'
  BY <1>8 DEF SendBytes, SlotInv, BacklogInv, ConnTypes, Serving
<1>9. ASSUME NEW c \in Client, conn[c] \in {"served", "stopping", "waking"}, Ends(c)
      PROVE  clients' = Cardinality(Serving')
  <2>1. c \in Serving BY <1>9 DEF Serving
  <2>2. Serving' = Serving \ {c} BY <1>9, <1>0 DEF Ends, ConnTypes, Serving
  <2> QED BY <2>1, <2>2, <1>9, <1>0, ServingCount DEF Ends
<1>10. ASSUME NEW c \in Client, NEW place \in {"stopping", "waking"},
              conn[c] \in {"served", "stopping"}, conn' = [conn EXCEPT ![c] = place],
              UNCHANGED clients
       PROVE  clients' = Cardinality(Serving')
  <2>1. Serving' = Serving BY <1>10, <1>0 DEF ConnTypes, Serving
  <2> QED BY <2>1, <1>10, <1>0
<1>11. ASSUME NEW c \in Client, SubscriptionEnds(c) PROVE SlotInv'
  <2>1. PICK place \in {"over"} : conn' = [conn EXCEPT ![c] = place]
    BY <1>11 DEF SubscriptionEnds, Ends
  <2>2. conn[c] = "served" /\ UNCHANGED <<backlog, reaper, stop>>
    BY <1>11 DEF SubscriptionEnds
  <2>3. ConnTypes' /\ BacklogInv' BY <2>1, <2>2, PlaceStep
  <2> QED BY <2>3, <1>9, <1>11 DEF SubscriptionEnds, SlotInv
<1>12. ASSUME NEW c \in Client, Answer(c) PROVE SlotInv'
  <2>1. PICK place \in {"stopping", "over"} : conn' = [conn EXCEPT ![c] = place]
    BY <1>12 DEF Answer, Ends
  <2>2. conn[c] = "served" /\ UNCHANGED <<backlog, reaper, stop>> BY <1>12 DEF Answer
  <2>3. ConnTypes' /\ BacklogInv' BY <2>1, <2>2, PlaceStep
  <2>4. clients' = Cardinality(Serving') BY <1>12, <1>9, <1>10 DEF Answer
  <2> QED BY <2>3, <2>4 DEF SlotInv
<1>13. ASSUME NEW c \in Client, SetStop(c) PROVE SlotInv'
  <2>1. PICK place \in {"waking"} : conn' = [conn EXCEPT ![c] = place]
    BY <1>13 DEF SetStop
  <2>0. conn[c] = "stopping" /\ stop' /\ UNCHANGED <<backlog, reaper>>
    BY <1>13 DEF SetStop
  <2>3. ConnTypes' /\ BacklogInv' BY <2>0, <2>1, PlaceStep
  <2>2. clients' = Cardinality(Serving') BY <1>13, <1>10 DEF SetStop
  <2> QED BY <2>3, <2>2 DEF SlotInv
<1>14. ASSUME NEW c \in Client, WakeAccept(c) PROVE SlotInv'
  <2>1. /\ conn[c] = "waking" /\ stop /\ UNCHANGED <<stop, reaper>>
        /\ conn' = [conn EXCEPT ![c] = "over"]
        /\ backlog' = backlog \/ backlog' = Append(backlog, "wake")
    BY <1>14, <1>0 DEF WakeAccept, Woken, Ends, BacklogInv
  <2>0. PICK place \in {"over"} : conn' = [conn EXCEPT ![c] = place] BY <2>1
  <2>2. ASSUME backlog' = backlog PROVE ConnTypes' /\ BacklogInv'
    BY <2>0, <2>1, <2>2, PlaceStep
  <2>3. ASSUME backlog' = Append(backlog, "wake") PROVE ConnTypes' /\ BacklogInv'
    <3>1. /\ ConnTypes' /\ backlog' \in Seq(Client \cup {"wake"})
          /\ \A d \in Client \ {c} : conn'[d] = conn[d]
          /\ \A d \in Client : conn'[d] = "waking" => stop'
      BY <2>1, <2>3, <1>0 DEF ConnTypes, BacklogInv
    <3>2. /\ DOMAIN backlog' = DOMAIN backlog \cup {Len(backlog) + 1}
          /\ \A i \in DOMAIN backlog : backlog'[i] = backlog[i]
          /\ backlog'[Len(backlog) + 1] = "wake"
      BY <2>3, <1>0 DEF BacklogInv
    <3>3. \A i \in DOMAIN backlog' : backlog'[i] \in Client =>
            i \in DOMAIN backlog /\ backlog'[i] = backlog[i] /\ backlog[i] # c
      BY <3>2, <2>1, <1>0, KeeperLifeAssumption DEF BacklogInv
    <3>4. \A i \in DOMAIN backlog' : backlog'[i] \in Client => conn'[backlog'[i]] = "queued"
      BY <3>1, <3>3, <1>0 DEF BacklogInv
    <3>5. \A i, j \in DOMAIN backlog' :
            backlog'[i] \in Client /\ backlog'[i] = backlog'[j] => i = j
      BY <3>3, <1>0 DEF BacklogInv
    <3> QED BY <3>1, <3>4, <3>5, <2>1 DEF BacklogInv
  <2>4. ConnTypes' /\ BacklogInv' BY <2>1, <2>2, <2>3
  <2> QED BY <2>4, <1>9, <1>14 DEF WakeAccept, SlotInv
<1> QED
  BY <1>1, <1>2, <1>3, <1>4, <1>5, <1>6, <1>7, <1>8, <1>11, <1>12, <1>13, <1>14
    DEF LifeNext, Reaper, Serve

\* The count that decides whether a connection is served is the number being served:
\* no way out of a connection's thread leaks its slot.
THEOREM SlotsMatch == LifeSpec => []SlotsMatchThreads
<1>1. SlotInv => SlotsMatchThreads BY DEF SlotInv, SlotsMatchThreads, Serving
<1> QED BY <1>1, SlotInit, SlotStep, PTL DEF LifeSpec
===============================================================================
