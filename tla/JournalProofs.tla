----------------------------- MODULE JournalProofs -----------------------------
(***************************************************************************)
(* A use of a grant is spent once: for any number of processes, grants and *)
(* uses, with crashes, power losses, records half written, an anchor that  *)
(* does not answer, an anchor that is reset, and an old copy of the file   *)
(* put back while nobody has it open.                                      *)
(*                                                                         *)
(* Without an old copy the file is one chain, of which every process knows *)
(* a prefix, and the anchor is behind what is on disk.  An old copy that   *)
(* does not reach the anchor is dead: nobody appends to it ever again.     *)
(***************************************************************************)
EXTENDS Journal, FiniteSetTheorems, SequenceTheorems, WellFoundedInduction, TLAPS

(* Chains.                                                                 *)

Lines == [prev : Seq(Entry), req : Request, event : Event]

\* The tip that the first k lines of f make, if f is a chain.
Entries(f, k) == [i \in 1..k |-> EntryOf(f[i])]
Chained(f) == \A i \in 1..Len(f) : Follows(Entries(f, i - 1), f[i])

LEMMA EntriesAre ==
  ASSUME NEW f \in Seq(Lines), NEW k \in 0..Len(f)
  PROVE  /\ Entries(f, k) \in Seq(Entry)
         /\ Len(Entries(f, k)) = k
         /\ DOMAIN Entries(f, k) = 1..k
         /\ \A i \in 1..k : Entries(f, k)[i] = EntryOf(f[i])
<1>1. \A i \in 1..k : f[i] \in Lines BY ElementOfSeq, LenProperties
<1>2. \A i \in 1..k : EntryOf(f[i]) \in Entry BY <1>1 DEF EntryOf, Entry, Lines
<1>3. k \in Nat BY LenProperties
<1>4. Entries(f, k) \in [1..k -> Entry] BY <1>2 DEF Entries
<1> QED BY <1>3, <1>4 DEF Entries

\* The entries of a chain do not depend on what follows them.
LEMMA SameEntries ==
  ASSUME NEW f, NEW g, NEW k \in Nat, \A i \in 1..k : f[i] = g[i]
  PROVE  Entries(f, k) = Entries(g, k)
BY DEF Entries

LEMMA NextEntry ==
  ASSUME NEW f \in Seq(Lines), NEW k \in 1..Len(f), f[k].prev = Entries(f, k - 1)
  PROVE  Tip(f[k]) = Entries(f, k)
<1>1. PICK e : e = EntryOf(f[k]) OBVIOUS
<1>2. e \in Entry /\ k - 1 \in 0..Len(f) /\ k \in 0..Len(f) /\ k \in Nat \ {0}
  <2>1. f[k] \in Lines BY ElementOfSeq
  <2> QED BY <1>1, <2>1, LenProperties DEF EntryOf, Entry, Lines
<1>3. PICK s : s = Entries(f, k - 1) OBVIOUS
<1>4. s \in Seq(Entry) /\ Len(s) = k - 1 /\ \A i \in 1..(k - 1) : s[i] = EntryOf(f[i])
  BY <1>2, <1>3, EntriesAre
<1>5. /\ Append(s, e) \in Seq(Entry) /\ Len(Append(s, e)) = k
      /\ \A i \in 1..k : Append(s, e)[i] = EntryOf(f[i])
  <2>1. /\ Append(s, e) \in Seq(Entry) /\ Len(Append(s, e)) = Len(s) + 1
        /\ \A i \in 1..Len(s) : Append(s, e)[i] = s[i]
        /\ Append(s, e)[Len(s) + 1] = e
    BY <1>2, <1>4, AppendProperties
  <2> QED BY <1>1, <1>2, <1>4, <2>1
<1>6. Append(s, e) = Entries(f, k)
  <2>1. PICK a : a = Append(s, e) OBVIOUS
  <2>2. PICK b : b = Entries(f, k) OBVIOUS
  <2>3. a \in Seq(Entry) /\ Len(a) = k /\ \A i \in 1..k : a[i] = EntryOf(f[i])
    BY <1>5, <2>1
  <2>4. b \in Seq(Entry) /\ Len(b) = k /\ \A i \in 1..k : b[i] = EntryOf(f[i])
    BY <1>2, <2>2, EntriesAre
  <2>5. a = b BY <2>3, <2>4, SeqEqual
  <2> QED BY <2>1, <2>2, <2>5
<1> QED BY <1>1, <1>3, <1>6 DEF Tip

\* Who knows a prefix of a chain verifies all of the rest.
LEMMA ReadsAll ==
  ASSUME NEW f \in Seq(Lines), Chained(f), NEW n \in 0..Len(f)
  PROVE  Verified(Entries(f, n), SubSeq(f, n + 1, Len(f)))
           = [tip |-> Entries(f, Len(f)), ok |-> TRUE]
<1>0. PICK l \in Nat : l = Len(f) BY LenProperties
<1>1. PICK s : s = Entries(f, n) OBVIOUS
<1>2. PICK u : u = SubSeq(f, n + 1, l) OBVIOUS
<1>3. Len(u) = l - n /\ \A i \in 1..(l - n) : u[i] = f[n + i]
  <2>1. \A i \in (n + 1)..l : f[i] \in Lines BY <1>0, ElementOfSeq
  <2>2. /\ Len(u) = IF n + 1 <= l THEN l - (n + 1) + 1 ELSE 0
        /\ \A i \in 1..(l - (n + 1) + 1) : u[i] = f[(n + 1) + i - 1]
    BY <1>0, <1>2, <2>1, SubSeqProperties
  <2>3. l - (n + 1) + 1 = l - n /\ (n + 1 <= l \/ l - n = 0) BY <1>0
  <2>4. ASSUME NEW i \in 1..(l - n) PROVE u[i] = f[n + i]
    <3>1. (n + 1) + i - 1 = n + i BY <1>0
    <3> QED BY <2>2, <2>3, <3>1
  <2> QED BY <2>2, <2>3, <2>4
<1>4. ASSUME NEW i \in 0..(l - n) PROVE After(s, u, i) = Entries(f, n + i)
  <2>1. CASE i = 0 BY <1>1, <2>1 DEF After
  <2>2. CASE i # 0
    <3>1. n + i \in 1..l /\ i \in 1..(l - n) BY <1>0, <2>2
    <3>2. f[n + i].prev = Entries(f, n + i - 1) BY <1>0, <3>1 DEF Chained, Follows
    <3>3. Tip(f[n + i]) = Entries(f, n + i) BY <1>0, <3>1, <3>2, NextEntry
    <3> QED BY <1>3, <2>2, <3>1, <3>3 DEF After
  <2> QED BY <2>1, <2>2
<1>5. \A i \in 1..(l - n) : Follows(After(s, u, i - 1), u[i])
  <2> SUFFICES ASSUME NEW i \in 1..(l - n) PROVE Follows(After(s, u, i - 1), u[i])
    OBVIOUS
  <2>1. /\ n + i \in 1..l /\ i - 1 \in 0..(l - n) /\ n + (i - 1) = n + i - 1
    BY <1>0
  <2>2. Follows(Entries(f, n + i - 1), f[n + i]) BY <1>0, <2>1 DEF Chained
  <2>3. After(s, u, i - 1) = Entries(f, n + i - 1) BY <1>4, <2>1
  <2> QED BY <1>3, <2>2, <2>3
<1>6. Accepted(s, u) = l - n
  <2> DEFINE S == { m \in 0..Len(u) : \A i \in 1..m : Follows(After(s, u, i - 1), u[i]) }
  <2>1. l - n \in S /\ \A m \in S : m <= l - n /\ m \in Nat BY <1>0, <1>3, <1>5
  <2> HIDE DEF S
  <2>2. \E x \in S : \A y \in S : x >= y BY <1>0, <2>1
  <2>3. Max(S) \in S /\ \A y \in S : Max(S) >= y BY <2>2 DEF Max
  <2>4. Max(S) = l - n BY <1>0, <2>1, <2>3
  <2> QED BY <2>4 DEF Accepted, S
<1>7. Verified(s, u) = [tip |-> Entries(f, l), ok |-> TRUE]
  <2>1. After(s, u, l - n) = Entries(f, l) BY <1>0, <1>4
  <2> QED BY <1>3, <1>6, <2>1 DEF Verified
<1> QED BY <1>0, <1>1, <1>2, <1>7

\* A line that follows makes a longer chain with the same beginning ...
LEMMA ChainGrows ==
  ASSUME NEW f \in Seq(Lines), Chained(f), NEW line \in Lines,
         Follows(Entries(f, Len(f)), line),
         NEW g \in Seq(Lines), Len(g) = Len(f) + 1, g[Len(f) + 1] = line,
         \A i \in 1..Len(f) : g[i] = f[i]
  PROVE  Chained(g) /\ \A k \in 0..Len(f) : Entries(g, k) = Entries(f, k)
<1>1. PICK l \in Nat : l = Len(f) BY LenProperties
<1>2. /\ Len(g) = l + 1 /\ g[l + 1] = line
      /\ \A i \in 1..l : g[i] = f[i]
  BY <1>1
<1>3. ASSUME NEW k \in 0..l PROVE Entries(g, k) = Entries(f, k)
  <2>1. k \in Nat /\ \A i \in 1..k : g[i] = f[i] BY <1>1, <1>2
  <2> QED BY <2>1, SameEntries
<1>4. ASSUME NEW i \in 1..(l + 1) PROVE Follows(Entries(g, i - 1), g[i])
  <2>1. i - 1 \in 0..l BY <1>1
  <2>2. Entries(g, i - 1) = Entries(f, i - 1) BY <1>3, <2>1
  <2>3. CASE i = l + 1
    <3>1. i - 1 = l BY <2>3, <1>1
    <3> QED BY <1>1, <1>2, <2>2, <2>3, <3>1
  <2>4. CASE i # l + 1
    <3>1. i \in 1..l BY <1>1, <2>4
    <3> QED BY <1>1, <1>2, <2>2, <3>1 DEF Chained
  <2> QED BY <2>3, <2>4
<1> QED BY <1>1, <1>2, <1>3, <1>4 DEF Chained

\* ... and the beginning of a chain is a chain.
LEMMA ChainShrinks ==
  ASSUME NEW f \in Seq(Lines), Chained(f), NEW n \in 0..Len(f), NEW g, g = SubSeq(f, 1, n)
  PROVE  /\ g \in Seq(Lines) /\ Chained(g) /\ Len(g) = n
         /\ \A i \in 1..n : g[i] = f[i]
         /\ \A k \in 0..n : Entries(g, k) = Entries(f, k)
<1>1. PICK l \in Nat : l = Len(f) BY LenProperties
<1>2. g \in Seq(Lines) /\ Len(g) = n /\ \A i \in 1..n : g[i] = f[i]
  <2>1. \A i \in 1..n : f[i] \in Lines BY <1>1, ElementOfSeq
  <2>2. /\ g \in Seq(Lines) /\ Len(g) = IF 1 <= n THEN n - 1 + 1 ELSE 0
        /\ \A i \in 1..(n - 1 + 1) : g[i] = f[1 + i - 1]
    BY <1>1, <2>1, SubSeqProperties
  <2>3. \A i \in 1..n : 1 + i - 1 = i /\ i \in 1..(n - 1 + 1) BY <1>1
  <2> QED BY <1>1, <2>2, <2>3
<1>3. ASSUME NEW k \in 0..n PROVE Entries(g, k) = Entries(f, k)
  <2>1. k \in Nat /\ \A i \in 1..k : g[i] = f[i] BY <1>1, <1>2
  <2> QED BY <2>1, SameEntries
<1>4. ASSUME NEW i \in 1..n PROVE Follows(Entries(g, i - 1), g[i])
  <2>1. i - 1 \in 0..n /\ i \in 1..l BY <1>1
  <2> QED BY <1>1, <1>2, <1>3, <2>1 DEF Chained
<1> QED BY <1>2, <1>3, <1>4 DEF Chained

LEMMA NoEntries == \A f : Entries(f, 0) = <<>>
<1> SUFFICES ASSUME NEW f PROVE Entries(f, 0) = <<>> OBVIOUS
<1>1. Entries(f, 0) = [i \in 1..0 |-> EntryOf(f[i])] BY DEF Entries
<1>2. <<>> = [i \in {} |-> {}] OBVIOUS
<1>3. 1..0 = {} OBVIOUS
<1> QED BY <1>1, <1>2, <1>3

-------------------------------------------------------------------------------
(* The inductive invariant.                                                *)

Writing == {"appending", "written", "synced"}

\* The file is a chain; a torn record is seen by whoever takes the lock next.
FileInv ==
  /\ file \in Seq(Lines) /\ durable \in 0..Len(file) /\ Chained(file)
  /\ torn \in BOOLEAN /\ (torn => lock = Nobody)

MoreTypes ==
  /\ DOMAIN applied = Process /\ DOMAIN readTo = Process
  /\ DOMAIN floor = Process /\ DOMAIN job = Process
  /\ \A p \in Process : pc[p] \in Writing \cup {"permitted", "called"} => job[p] \in Lines
  /\ "file" \notin rolledBack \/ "anchor" \notin rolledBack

\* Every process knows a prefix of the file, unless the file can no longer be read.
MemoryInv ==
  \A p \in Process :
    /\ pc[p] = "down" => readTo[p] = 0 /\ applied[p] = <<>>
    /\ torn \/ (readTo[p] \in 0..Len(file) /\ applied[p] = Entries(file, readTo[p]))

\* Who holds the lock has read the whole file but for the line it is writing.
WriterInv ==
  \A p \in Process :
    /\ pc[p] = "appending" =>
         readTo[p] = Len(file) /\ Follows(Entries(file, Len(file)), job[p])
    /\ pc[p] \in {"written", "synced"} => Len(file) > 0 /\ file[Len(file)] = job[p]
    /\ pc[p] = "written" => readTo[p] = Len(file) - 1
    /\ pc[p] = "synced" => readTo[p] = Len(file) /\ durable = Len(file)

\* An old copy of the file that does not reach the anchor is never written again.
Dead == "file" \in rolledBack /\ Len(anchor) > Len(file)
AnchorInv ==
  IF Dead THEN \A p \in Process : pc[p] \in {"down", "idle"}
  ELSE Len(anchor) <= durable /\ anchor = Entries(file, Len(anchor))

\* The lines that no fault to come can take away without making the file dead.
Reach == IF "anchor" \in rolledBack THEN durable ELSE Len(anchor)
InReach(r) == \E i \in 1..Reach : file[i].req = r /\ file[i].event = "reserve"

UsesInv == ~Dead => \A r \in Request : executed[r] > 0 => InReach(r)
PermitInv ==
  \A p \in Process : pc[p] \in {"permitted", "called"} =>
    job[p].event = "reserve" /\ InReach(job[p].req)

\* A use that is not performed yet is about nobody else's operation.
Unused(p) ==
  pc[p] \in Writing \cup {"permitted"} /\ job[p] # NoJob /\ job[p].event = "reserve"
FreshInv ==
  \A p \in Process : Unused(p) =>
    /\ executed[job[p].req] = 0
    /\ \A q \in Process \ {p} : Unused(q) => job[q].req # job[p].req
CountInv == \A r \in Request : executed[r] \in {0, 1}

\* Nothing more is performed once the file is dead.
SpentInv == Dead => ExecutedOnce /\ WithinBudget

JournalInv ==
  /\ TypeOK /\ FileInv /\ MoreTypes /\ MemoryInv /\ WriterInv /\ AnchorInv
  /\ UsesInv /\ PermitInv /\ FreshInv /\ CountInv
  /\ SpentInv

-------------------------------------------------------------------------------
(* What the chain says of the uses in it.                                  *)

\* Two uses on one chain are of two operations, and under one grant id of one set
\* of terms.
LEMMA UsesDiffer ==
  ASSUME NEW f \in Seq(Lines), Chained(f), NEW i \in 1..Len(f), NEW j \in 1..Len(f),
         f[i].event = "reserve", f[j].event = "reserve", i # j
  PROVE  /\ ~SameOp(f[i].req, f[j].req)
         /\ f[i].req.grant = f[j].req.grant => f[i].req.terms = f[j].req.terms
<1>0. PICK l \in Nat : l = Len(f) BY LenProperties
<1>1. ASSUME NEW a \in 1..l, NEW b \in 1..l, a < b,
             f[a].event = "reserve", f[b].event = "reserve"
      PROVE  /\ ~SameOp(f[a].req, f[b].req)
             /\ f[a].req.grant = f[b].req.grant => f[a].req.terms = f[b].req.terms
  <2>1. PICK s : s = Entries(f, b - 1) OBVIOUS
  <2>2. b - 1 \in 0..Len(f) /\ a \in 1..(b - 1) BY <1>0, <1>1
  <2>3. DOMAIN s = 1..(b - 1) /\ s[a] = EntryOf(f[a]) BY <2>1, <2>2, EntriesAre
  <2>4. Spendable(s, f[b].req) BY <1>0, <1>1, <2>1 DEF Chained, Follows
  <2>5. s[a].req = f[a].req /\ s[a].event = "reserve" BY <1>1, <2>3 DEF EntryOf
  <2> QED BY <2>2, <2>3, <2>4, <2>5 DEF Spendable, Known, Reserved, SameOp
<1>2. CASE i < j BY <1>0, <1>1, <1>2
<1>3. CASE j < i BY <1>0, <1>1, <1>3 DEF SameOp
<1> QED BY <1>0, <1>2, <1>3

\* The uses of a grant up to one of them are within its budget.
LEMMA UsesFit ==
  ASSUME NEW f \in Seq(Lines), Chained(f), NEW m \in 1..Len(f), f[m].event = "reserve",
         NEW S,
         \A x \in S : \E i \in 1..m :
           f[i].req = x /\ f[i].event = "reserve" /\ x.grant = f[m].req.grant
  PROVE  Cardinality(S) <= MaxUses[f[m].req.terms]
<1>0. PICK l \in Nat : l = Len(f) BY LenProperties
<1>1. PICK s : s = Entries(f, m - 1) OBVIOUS
<1>2. m - 1 \in 0..Len(f) BY <1>0
<1>3. DOMAIN s = 1..(m - 1) /\ \A i \in 1..(m - 1) : s[i] = EntryOf(f[i])
  BY <1>1, <1>2, EntriesAre
<1>4. PICK R : R = Reserved(s, f[m].req.grant) OBVIOUS
<1>5. Cardinality(R) < MaxUses[f[m].req.terms]
  BY <1>0, <1>1, <1>4 DEF Chained, Follows, Spendable
<1>6. IsFiniteSet(R) /\ Cardinality(R) \in Nat
  <2>1. R \in SUBSET (1..(m - 1)) BY <1>3, <1>4 DEF Reserved
  <2>2. IsFiniteSet(1..(m - 1)) BY <1>2, FS_Interval
  <2> QED BY <2>1, <2>2, FS_Subset, FS_CardinalityType
<1>7. IsFiniteSet(R \cup {m}) /\ Cardinality(R \cup {m}) <= Cardinality(R) + 1
  <2>1. /\ IsFiniteSet(R \cup {m})
        /\ Cardinality(R \cup {m}) =
             IF m \in R THEN Cardinality(R) ELSE Cardinality(R) + 1
    BY <1>6, FS_AddElement
  <2> QED BY <1>6, <2>1
<1>8. MaxUses[f[m].req.terms] \in Nat
  <2>1. f[m] \in Lines BY ElementOfSeq
  <2>2. f[m].req.terms \in Terms BY <2>1 DEF Lines, Request
  <2> QED BY <2>2, JournalAssumption
<1>9. PICK T : T = { f[i].req : i \in R \cup {m} } OBVIOUS
<1>10. IsFiniteSet(T) /\ Cardinality(T) <= Cardinality(R \cup {m})
  <2>1. [i \in R \cup {m} |-> f[i].req] \in Surjection(R \cup {m}, T)
    BY <1>9 DEF Surjection
  <2> QED BY <1>7, <2>1, FS_Surjection
<1>11. S \in SUBSET T
  <2> SUFFICES ASSUME NEW x \in S PROVE x \in T OBVIOUS
  <2>1. PICK i \in 1..m :
          f[i].req = x /\ f[i].event = "reserve" /\ x.grant = f[m].req.grant
    OBVIOUS
  <2>2. CASE i = m BY <1>9, <2>1, <2>2
  <2>3. CASE i # m
    <3>1. i \in 1..(m - 1) BY <1>0, <2>3
    <3>2. s[i].event = "reserve" /\ s[i].req = x BY <1>3, <2>1, <3>1 DEF EntryOf
    <3>3. i \in R BY <1>3, <1>4, <2>1, <3>1, <3>2 DEF Reserved
    <3> QED BY <1>9, <2>1, <3>3
  <2> QED BY <2>2, <2>3
<1>12. Cardinality(S) <= Cardinality(T) BY <1>10, <1>11, FS_Subset
<1>13. Cardinality(S) \in Nat /\ Cardinality(T) \in Nat /\ Cardinality(R \cup {m}) \in Nat
  BY <1>7, <1>10, <1>11, FS_Subset, FS_CardinalityType
<1> QED BY <1>5, <1>6, <1>7, <1>8, <1>10, <1>12, <1>13

\* A set of naturals below a bound has a greatest element.
LEMMA Greatest ==
  ASSUME NEW n \in Nat, NEW S \in SUBSET (0..n), S # {}
  PROVE  \E m \in S : \A k \in S : k <= m
<1> DEFINE T == { k \in 0..n : n - k \in S }
<1>1. PICK x \in S : TRUE OBVIOUS
<1>2. n - x \in 0..n /\ n - (n - x) = x BY <1>1
<1>3. T \in SUBSET Nat /\ T # {}
  <2>1. n - x \in T
    <3>1. n - (n - x) \in S BY <1>1, <1>2
    <3> QED BY <1>2, <3>1
  <2>2. \A k \in T : k \in Nat OBVIOUS
  <2> QED BY <2>1, <2>2
<1> HIDE DEF T
<1>4. IsWellFoundedOn(OpToRel(<, Nat), Nat) BY NatLessThanWellFounded
<1>5. PICK k \in T : \A j \in T : <<j, k>> \notin OpToRel(<, Nat)
  BY <1>3, <1>4, WFMin, Zenon
<1>6. \A j \in T : ~(j < k) BY <1>3, <1>5 DEF OpToRel
<1>7. k \in 0..n /\ n - k \in S BY <1>5 DEF T
<1>8. ASSUME NEW j \in S PROVE j <= n - k
  <2>1. n - j \in 0..n /\ n - (n - j) = j OBVIOUS
  <2>2. n - j \in T BY <2>1 DEF T
  <2>3. ~(n - j < k) BY <1>6, <2>2
  <2> QED BY <1>7, <2>1, <2>3
<1> QED BY <1>7, <1>8

\* What was performed is on the chain: once, and within the budget.
LEMMA SpentOnce ==
  ASSUME JournalInv
  PROVE  ExecutedOnce /\ WithinBudget
<1> USE DEF JournalInv
<1>1. CASE Dead BY <1>1 DEF SpentInv
<1>2. CASE ~Dead
  <2>1. PICK l \in Nat : l = Len(file) BY LenProperties DEF FileInv
  <2>2. Reach \in 0..l
    BY <1>2, <2>1, LenProperties DEF Reach, AnchorInv, FileInv, MoreTypes
  <2>3. \A r \in Request : executed[r] > 0 =>
          \E i \in 1..l : file[i].req = r /\ file[i].event = "reserve"
    BY <1>2, <2>1, <2>2 DEF UsesInv, InReach
  <2>4. ASSUME NEW r \in Request, NEW q \in Request, SameOp(r, q), executed[r] > 0
        PROVE  executed[r] = 1 /\ (r # q => executed[q] = 0)
    <3>1. executed[r] = 1 /\ executed[q] \in {0, 1} BY <2>4 DEF CountInv
    <3>2. ASSUME executed[q] > 0 PROVE r = q
      <4>1. PICK i \in 1..l : file[i].req = r /\ file[i].event = "reserve"
        BY <2>3, <2>4
      <4>2. PICK j \in 1..l : file[j].req = q /\ file[j].event = "reserve"
        BY <2>3, <3>2
      <4>3. i = j BY <2>1, <2>4, <4>1, <4>2, UsesDiffer DEF FileInv
      <4> QED BY <4>1, <4>2, <4>3
    <3> QED BY <3>1, <3>2
  <2>5. ASSUME NEW r \in Request, NEW q \in Request,
               r.grant = q.grant, executed[r] > 0, executed[q] > 0
        PROVE  /\ r.terms = q.terms
               /\ Cardinality({ x \in Request : x.grant = r.grant /\ executed[x] > 0 })
                    <= MaxUses[r.terms]
    <3>1. PICK i \in 1..l : file[i].req = r /\ file[i].event = "reserve" BY <2>3, <2>5
    <3>2. PICK j \in 1..l : file[j].req = q /\ file[j].event = "reserve" BY <2>3, <2>5
    <3>3. r.terms = q.terms BY <2>1, <2>5, <3>1, <3>2, UsesDiffer DEF FileInv
    <3>4. PICK U : U = { k \in 1..l : file[k].event = "reserve" /\ file[k].req.grant = r.grant }
      OBVIOUS
    <3>5. U \in SUBSET (0..l) /\ i \in U BY <2>1, <3>1, <3>4
    <3>6. PICK m \in U : \A k \in U : k <= m BY <2>1, <3>5, Greatest
    <3>7. m \in 1..Len(file) /\ file[m].event = "reserve" /\ file[m].req.grant = r.grant
      BY <2>1, <3>4, <3>6
    <3>8. file[m].req.terms = r.terms
      BY <2>1, <3>1, <3>7, UsesDiffer DEF FileInv
    <3>9. PICK S : S = { x \in Request : x.grant = r.grant /\ executed[x] > 0 } OBVIOUS
    <3>10. ASSUME NEW x \in S
           PROVE  \E k \in 1..m :
                    file[k].req = x /\ file[k].event = "reserve" /\ x.grant = file[m].req.grant
      <4>1. PICK k \in 1..l : file[k].req = x /\ file[k].event = "reserve"
        BY <2>3, <3>9, <3>10
      <4>2. x.grant = r.grant BY <3>9, <3>10
      <4>3. k \in U BY <3>4, <4>1, <4>2
      <4>4. k <= m BY <3>6, <4>3
      <4> QED BY <2>1, <3>7, <4>1, <4>2, <4>4
    <3>11. Cardinality(S) <= MaxUses[file[m].req.terms]
      BY <3>7, <3>10, UsesFit DEF FileInv
    <3> QED BY <3>3, <3>8, <3>9, <3>11
  <2> QED BY <2>4, <2>5 DEF ExecutedOnce, WithinBudget
<1> QED BY <1>1, <1>2

-------------------------------------------------------------------------------
(* Catching up.                                                            *)

\* With the file untorn, whoever takes the lock reads all of it.
LEMMA ReadsTheFile ==
  ASSUME JournalInv, NEW p \in Process, ~torn
  PROVE  /\ FileOK(p)
         /\ Reads(p) = [tip |-> Entries(file, Len(file)), ok |-> TRUE]
<1>1. readTo[p] \in 0..Len(file) /\ applied[p] = Entries(file, readTo[p])
  BY DEF JournalInv, MemoryInv
<1>2. Reads(p) = [tip |-> Entries(file, Len(file)), ok |-> TRUE]
  BY <1>1, ReadsAll DEF JournalInv, FileInv, Reads, Unread
<1> QED BY <1>1, <1>2, LenProperties DEF FileOK, JournalInv, FileInv

LEMMA CatchUpKeeps ==
  ASSUME JournalInv, NEW p \in Process, NEW up, CatchUp(p, up), file' = file, torn' = torn
  PROVE  /\ DOMAIN applied' = Process /\ DOMAIN readTo' = Process /\ DOMAIN floor' = Process
         /\ \A q \in Process : q # p => applied'[q] = applied[q] /\ readTo'[q] = readTo[q]
         /\ \A q \in Process :
              torn' \/ (readTo'[q] \in 0..Len(file') /\ applied'[q] = Entries(file', readTo'[q]))
         /\ ~torn => readTo'[p] = Len(file)
<1>1. /\ DOMAIN applied = Process /\ DOMAIN readTo = Process /\ DOMAIN floor = Process
  BY DEF JournalInv, MoreTypes
<1>2. /\ DOMAIN applied' = Process /\ DOMAIN readTo' = Process /\ DOMAIN floor' = Process
      /\ \A q \in Process : q # p => applied'[q] = applied[q] /\ readTo'[q] = readTo[q]
  BY <1>1 DEF CatchUp
<1>3. Len(file) \in Nat BY LenProperties DEF JournalInv, FileInv
<1>4. ~torn => readTo'[p] = Len(file) /\ applied'[p] = Entries(file, Len(file))
  <2> SUFFICES ASSUME ~torn
               PROVE  readTo'[p] = Len(file) /\ applied'[p] = Entries(file, Len(file))
    OBVIOUS
  <2>1. FileOK(p) /\ Reads(p).tip = Entries(file, Len(file)) BY ReadsTheFile
  <2>2. Len(file) >= readTo[p] BY <2>1 DEF FileOK
  <2> QED BY <1>1, <2>1, <2>2 DEF CatchUp
<1>5. \A q \in Process :
        torn \/ (readTo[q] \in 0..Len(file) /\ applied[q] = Entries(file, readTo[q]))
  BY DEF JournalInv, MemoryInv
<1> QED BY <1>2, <1>3, <1>4, <1>5

\* Who may go on has read all of the file, and to spend the file reaches the anchor.
LEMMA CaughtUpMeans ==
  ASSUME JournalInv, NEW p \in Process, NEW spend, NEW up, CaughtUp(p, spend, up)
  PROVE  /\ ~torn /\ Reads(p) = [tip |-> Entries(file, Len(file)), ok |-> TRUE]
         /\ spend => ~Dead
<1>1. ~torn BY DEF CaughtUp, FileOK
<1>2. Reads(p) = [tip |-> Entries(file, Len(file)), ok |-> TRUE] BY <1>1, ReadsTheFile
<1>3. PICK l \in Nat : l = Len(file) BY LenProperties DEF JournalInv, FileInv
<1>4. Len(Entries(file, Len(file))) = l
  <2>1. file \in Seq(Lines) /\ Len(file) \in 0..Len(file) BY <1>3 DEF JournalInv, FileInv
  <2> QED BY <1>3, <2>1, EntriesAre
<1>5. ASSUME spend PROVE ~Dead
  <2>1. AnchorAgrees(p, Reads(p).tip) BY <1>5 DEF CaughtUp
  <2>2. CASE anchor = Genesis
    <3>1. Len(anchor) = 0 BY <2>2 DEF Genesis
    <3> QED BY <1>3, <3>1 DEF Dead
  <2>3. CASE anchor # Genesis
    <3>1. ~(Len(Entries(file, Len(file))) < Len(anchor))
      BY <1>2, <2>1, <2>3 DEF AnchorAgrees, Contradicts
    <3> QED BY <1>3, <1>4, <3>1 DEF Dead
  <2> QED BY <2>2, <2>3
<1> QED BY <1>1, <1>2, <1>5

-------------------------------------------------------------------------------
(* The steps.                                                              *)

LEMMA InvInit == Init => JournalInv
<1> SUFFICES ASSUME Init PROVE JournalInv OBVIOUS
<1> USE DEF Init
<1>1. Len(file) = 0 /\ Len(anchor) = 0 BY DEF Genesis
<1>2. ~Dead BY <1>1 DEF Dead
<1>3. TypeOK
  <2>1. \A p \in Process : lock # p /\ pc[p] = "down" BY JournalAssumption
  <2>2. executed \in [Request -> Nat] OBVIOUS
  <2>3. durable \in 0..Len(file) BY <1>1
  <2> QED BY <2>1, <2>2, <2>3 DEF TypeOK
<1>4. FileInv
  <2>1. file \in Seq(Lines) BY EmptySeq
  <2>2. durable \in 0..Len(file) BY <1>1
  <2>3. Chained(file)
    <3>1. 1..Len(file) = {} BY <1>1
    <3> QED BY <3>1 DEF Chained
  <2> QED BY <2>1, <2>2, <2>3 DEF FileInv
<1>5. MoreTypes BY DEF MoreTypes, Writing
<1>6. MemoryInv BY <1>1, NoEntries DEF MemoryInv
<1>7. AnchorInv BY <1>1, <1>2, NoEntries DEF AnchorInv, Genesis
<1>8. WriterInv /\ PermitInv /\ FreshInv
  BY DEF WriterInv, PermitInv, FreshInv, Unused, Writing
<1>9. UsesInv /\ CountInv /\ SpentInv BY <1>2 DEF UsesInv, CountInv, SpentInv
<1> QED BY <1>3, <1>4, <1>5, <1>6, <1>7, <1>8, <1>9 DEF JournalInv

LEMMA StoresStay ==
  ASSUME file' = file, durable' = durable, anchor' = anchor, rolledBack' = rolledBack
  PROVE  /\ Dead' <=> Dead
         /\ Reach' = Reach
         /\ \A r : InReach(r)' <=> InReach(r)
<1>1. Dead' <=> Dead BY DEF Dead
<1>2. Reach' = Reach BY DEF Reach
<1> QED BY <1>1, <1>2 DEF InReach

LEMMA PerformedStays ==
  ASSUME JournalInv, executed' = executed
  PROVE  ExecutedOnce' /\ WithinBudget' /\ CountInv' /\ SpentInv'
<1>1. ExecutedOnce /\ WithinBudget BY SpentOnce
<1>2. ExecutedOnce' BY <1>1 DEF ExecutedOnce
<1>3. WithinBudget' BY <1>1 DEF WithinBudget
<1> QED BY <1>2, <1>3 DEF JournalInv, CountInv, SpentInv

\* Who holds the lock is alone in it.
LEMMA OneWriter ==
  ASSUME JournalInv
  PROVE  /\ \A p \in Process : lock = p <=> pc[p] \in Writing
         /\ \A p, q \in Process : pc[p] \in Writing /\ pc[q] \in Writing => p = q
         /\ torn \/ lock = Nobody => \A p \in Process : pc[p] \notin Writing
BY JournalAssumption DEF JournalInv, TypeOK, FileInv, Writing

\* A process that catches up and has nothing to write.
LEMMA IdlesInv ==
  ASSUME JournalInv, NEW p \in Process, NEW up, CatchUp(p, up),
         pc[p] \in {"down", "idle", "called"}, pc' = [pc EXCEPT ![p] = "idle"],
         job' = job \/ job' = [job EXCEPT ![p] = NoJob],
         UNCHANGED <<fileVars, lock, anchor, executed, rolledBack>>
  PROVE  JournalInv'
<1> USE DEF JournalInv, fileVars, Goes
<1>0. /\ \A q \in Process : q # p => pc'[q] = pc[q] /\ job'[q] = job[q]
      /\ pc'[p] = "idle" /\ DOMAIN job' = Process
  BY DEF TypeOK, MoreTypes
<1>1. TypeOK'
  <2>1. \A q \in Process : lock' = q <=> pc'[q] \in {"appending", "written", "synced"}
    BY <1>0 DEF TypeOK
  <2> QED BY <2>1 DEF TypeOK
<1>2. FileInv' BY DEF FileInv, Chained
<1>3. MoreTypes' BY <1>0, CatchUpKeeps DEF MoreTypes, Writing
<1>4. MemoryInv' BY <1>0, CatchUpKeeps DEF MemoryInv
<1>5. WriterInv'
  <2> SUFFICES ASSUME NEW q \in Process, q # p PROVE WriterInv!(q)'
    BY <1>0 DEF WriterInv
  <2>1. readTo'[q] = readTo[q] /\ pc'[q] = pc[q] /\ job'[q] = job[q] BY <1>0, CatchUpKeeps
  <2> QED BY <2>1 DEF WriterInv
<1>6. AnchorInv' BY <1>0, StoresStay DEF AnchorInv
<1>7. UsesInv' BY StoresStay DEF UsesInv
<1>8. PermitInv' BY <1>0, StoresStay DEF PermitInv
<1>9. FreshInv' BY <1>0 DEF FreshInv, Unused, Writing
<1> QED BY <1>1, <1>2, <1>3, <1>4, <1>5, <1>6, <1>7, <1>8, <1>9, PerformedStays

\* A process that has read the whole file takes the lock to append a line to it.
LEMMA BeginsInv ==
  ASSUME JournalInv, NEW p \in Process, NEW up, CatchUp(p, up), ~torn, ~Dead,
         pc[p] \in {"idle", "called"}, lock = Nobody,
         NEW line \in Lines, Follows(Entries(file, Len(file)), line),
         pc' = [pc EXCEPT ![p] = "appending"], job' = [job EXCEPT ![p] = line], lock' = p,
         UNCHANGED <<fileVars, anchor, executed, rolledBack>>
  PROVE  JournalInv'
<1> USE DEF JournalInv, fileVars
<1>0. /\ \A q \in Process : q # p => pc'[q] = pc[q] /\ job'[q] = job[q]
      /\ pc'[p] = "appending" /\ DOMAIN job' = Process /\ job'[p] = line
  BY DEF TypeOK, MoreTypes
<1>00. \A q \in Process : pc[q] \notin Writing BY OneWriter
<1>1. TypeOK'
  <2>1. \A q \in Process : lock' = q <=> pc'[q] \in {"appending", "written", "synced"}
    BY <1>0, <1>00 DEF TypeOK, Writing
  <2> QED BY <2>1 DEF TypeOK
<1>2. FileInv' BY DEF FileInv, Chained
<1>3. MoreTypes' BY <1>0, CatchUpKeeps DEF MoreTypes, Writing
<1>4. MemoryInv' BY <1>0, CatchUpKeeps DEF MemoryInv
<1>5. WriterInv' BY <1>0, <1>00, CatchUpKeeps DEF WriterInv, Writing
<1>6. AnchorInv' BY StoresStay DEF AnchorInv
<1>7. UsesInv' BY StoresStay DEF UsesInv
<1>8. PermitInv' BY <1>0, StoresStay DEF PermitInv
<1>9. FreshInv'
  <2> SUFFICES ASSUME line.event = "reserve"
               PROVE  /\ executed[line.req] = 0
                      /\ \A q \in Process \ {p} : Unused(q) => job[q].req # line.req
    BY <1>0, <1>00 DEF FreshInv, Unused, Writing
  <2>1. PICK l \in Nat : l = Len(file) BY LenProperties DEF FileInv
  <2>2. ~Known(Entries(file, l), line.req) BY <2>1 DEF Follows, Spendable
  <2>3. PICK s : s = Entries(file, l) OBVIOUS
  <2>4. DOMAIN s = 1..l /\ \A i \in 1..l : s[i] = EntryOf(file[i])
    BY <2>1, <2>3, EntriesAre DEF FileInv
  <2>5. \A i \in 1..l : file[i].req # line.req
    BY <2>2, <2>3, <2>4 DEF Known, SameOp, EntryOf
  <2>6. Reach \in 0..l
    BY <2>1, LenProperties DEF Reach, AnchorInv, FileInv, MoreTypes
  <2>7. ~InReach(line.req) BY <2>5, <2>6 DEF InReach
  <2>8. line.req \in Request BY DEF Lines
  <2>9. executed[line.req] = 0 BY <2>7, <2>8 DEF UsesInv, CountInv
  <2>10. ASSUME NEW q \in Process \ {p}, Unused(q) PROVE job[q].req # line.req
    BY <1>00, <2>7, <2>10 DEF PermitInv, Unused
  <2> QED BY <2>9, <2>10
<1> QED BY <1>1, <1>2, <1>3, <1>4, <1>5, <1>6, <1>7, <1>8, <1>9, PerformedStays

LEMMA OpenInv ==
  ASSUME JournalInv, NEW p \in Process, NEW up \in BOOLEAN, Open(p, up) PROVE JournalInv'
BY IdlesInv DEF Open, Goes

LEMMA AuthorizeInv ==
  ASSUME JournalInv, NEW p \in Process, NEW up \in BOOLEAN, NEW r \in Request,
         Authorize(p, r, up)
  PROVE  JournalInv'
<1>1. CASE CaughtUp(p, TRUE, up) /\ Spendable(Reads(p).tip, r)
  <2>0. /\ ~torn /\ (TRUE => ~Dead)
        /\ Reads(p) = [tip |-> Entries(file, Len(file)), ok |-> TRUE]
    BY <1>1, CaughtUpMeans, Zenon
  <2>1. ~torn /\ ~Dead /\ Reads(p).tip = Entries(file, Len(file)) BY <2>0
  <2>2. PICK line : line = Line(Reads(p).tip, r, "reserve") OBVIOUS
  <2>3. file \in Seq(Lines) /\ Len(file) \in 0..Len(file)
    BY LenProperties DEF JournalInv, FileInv
  <2>4. Entries(file, Len(file)) \in Seq(Entry) BY <2>3, EntriesAre
  <2>5. line \in Lines BY <2>1, <2>2, <2>4 DEF Line, Lines, Event
  <2>6. Follows(Entries(file, Len(file)), line)
    BY <1>1, <2>1, <2>2 DEF Line, Follows
  <2> QED BY <1>1, <2>1, <2>2, <2>5, <2>6, BeginsInv DEF Authorize, Goes
<1>2. CASE ~(CaughtUp(p, TRUE, up) /\ Spendable(Reads(p).tip, r))
  <2>1. pc' = [pc EXCEPT ![p] = "idle"] BY <1>2 DEF Authorize, JournalInv, TypeOK
  <2> QED BY <1>2, <2>1, IdlesInv DEF Authorize
<1> QED BY <1>1, <1>2

LEMMA FinishInv ==
  ASSUME JournalInv, NEW p \in Process, NEW up \in BOOLEAN,
         NEW outcome \in {"succeeded", "unknown"}, Finish(p, outcome, up)
  PROVE  JournalInv'
<1>1. CASE CaughtUp(p, FALSE, up) /\ Pending(Reads(p).tip, job[p].req)
  <2>0. ~torn /\ Reads(p) = [tip |-> Entries(file, Len(file)), ok |-> TRUE]
    BY <1>1, CaughtUpMeans, Zenon
  <2>1. ~torn /\ Reads(p).tip = Entries(file, Len(file)) BY <2>0
  <2>2. PICK line : line = Line(Reads(p).tip, job[p].req, outcome) OBVIOUS
  <2>3. file \in Seq(Lines) /\ Len(file) \in 0..Len(file)
    BY LenProperties DEF JournalInv, FileInv
  <2>4. Entries(file, Len(file)) \in Seq(Entry) BY <2>3, EntriesAre
  <2>5. job[p] \in Lines /\ ~Dead BY DEF Finish, JournalInv, MoreTypes, AnchorInv
  <2>6. line \in Lines BY <2>1, <2>2, <2>4, <2>5 DEF Line, Lines, Event
  <2>7. Follows(Entries(file, Len(file)), line)
    BY <1>1, <2>1, <2>2 DEF Line, Follows
  <2> QED BY <1>1, <2>1, <2>2, <2>5, <2>6, <2>7, BeginsInv DEF Finish, Goes
<1>2. CASE ~(CaughtUp(p, FALSE, up) /\ Pending(Reads(p).tip, job[p].req))
  BY <1>2, IdlesInv DEF Finish, Goes
<1> QED BY <1>1, <1>2

LEMMA WriteInv ==
  ASSUME JournalInv, NEW p \in Process, Write(p) PROVE JournalInv'
<1> USE DEF JournalInv
<1>0. /\ pc[p] = "appending" /\ pc'[p] = "written"
      /\ \A q \in Process : q # p => pc'[q] = pc[q]
      /\ pc' = [pc EXCEPT ![p] = "written"]
      /\ UNCHANGED <<torn, durable, lock, anchor, applied, readTo, floor, job, executed,
                     rolledBack>>
  BY DEF Write, Goes, TypeOK, memory
<1>00. \A q \in Process : q # p => pc[q] \notin Writing
  BY <1>0, OneWriter DEF Writing
<1>a. PICK l \in Nat : l = Len(file) BY LenProperties DEF FileInv
<1>b. /\ job[p] \in Lines /\ Follows(Entries(file, l), job[p]) /\ readTo[p] = l
  BY <1>0, <1>a DEF MoreTypes, WriterInv, Writing
<1>c. /\ file' \in Seq(Lines) /\ Chained(file)' /\ Len(file') = l + 1 /\ file'[l + 1] = job[p]
      /\ \A i \in 1..l : file'[i] = file[i]
      /\ \A k \in 0..l : Entries(file', k) = Entries(file, k)
  <2>1. file' = Append(file, job[p]) BY DEF Write
  <2>2. PICK g : g = file' OBVIOUS
  <2>20. file \in Seq(Lines) /\ Chained(file) BY DEF FileInv
  <2>21. PICK line \in Lines : line = job[p] BY <1>b
  <2>22. Follows(Entries(file, Len(file)), line) /\ g = Append(file, line)
    BY <1>a, <1>b, <2>1, <2>2, <2>21
  <2>3. /\ g \in Seq(Lines) /\ Chained(g) /\ Len(g) = Len(file) + 1 /\ g[Len(g)] = job[p]
        /\ \A i \in 1..Len(file) : g[i] = file[i]
        /\ \A k \in 0..Len(file) : Entries(g, k) = Entries(file, k)
    <3>1. /\ g \in Seq(Lines) /\ Len(g) = Len(file) + 1 /\ g[Len(file) + 1] = line
          /\ \A i \in 1..Len(file) : g[i] = file[i]
      BY <2>20, <2>22, AppendProperties
    <3>2. Chained(g) /\ \A k \in 0..Len(file) : Entries(g, k) = Entries(file, k)
      BY <2>20, <2>22, <3>1, ChainGrows
    <3> QED BY <2>21, <3>1, <3>2
  <2>4. Chained(file') BY <2>2, <2>3
  <2> QED BY <1>a, <2>2, <2>3, <2>4 DEF Chained
<1>d. ~Dead /\ Len(anchor) <= durable /\ durable \in 0..l /\ Len(anchor) \in Nat
  BY <1>0, <1>a, LenProperties DEF AnchorInv, FileInv
<1>e. ~Dead' BY <1>0, <1>a, <1>c, <1>d DEF Dead
<1>f. Reach' = Reach /\ Reach \in 0..l BY <1>0, <1>a, <1>d DEF Reach
<1>g. \A r : InReach(r) => InReach(r)'
  <2> SUFFICES ASSUME NEW r, InReach(r) PROVE InReach(r)' OBVIOUS
  <2>1. PICK i \in 1..Reach : file[i].req = r /\ file[i].event = "reserve" BY DEF InReach
  <2>2. i \in 1..Reach' /\ file'[i] = file[i] BY <1>a, <1>c, <1>f, <2>1
  <2> QED BY <2>1, <2>2 DEF InReach
<1>1. TypeOK'
  <2>1. \A q \in Process : lock' = q <=> pc'[q] \in {"appending", "written", "synced"}
    BY <1>0 DEF TypeOK
  <2>2. durable' \in 0..Len(file') BY <1>0, <1>a, <1>c, <1>d
  <2>3. pc' \in [Process -> {"down", "idle", "appending", "written", "synced", "permitted",
                             "called"}]
    BY <1>0 DEF TypeOK
  <2> QED BY <1>0, <2>1, <2>2, <2>3 DEF TypeOK
<1>2. FileInv' BY <1>0, <1>a, <1>c, <1>d DEF FileInv
<1>3. MoreTypes' BY <1>0, <1>b DEF MoreTypes, Writing
<1>4. MemoryInv'
  <2> SUFFICES ASSUME NEW q \in Process PROVE MemoryInv!(q)' BY DEF MemoryInv
  <2>1. torn \/ (readTo[q] \in 0..l /\ applied[q] = Entries(file, readTo[q]))
    BY <1>a DEF MemoryInv
  <2> QED BY <1>0, <1>a, <1>c, <2>1 DEF MemoryInv
<1>5. WriterInv'
  <2>1. /\ pc'[p] = "written" => Len(file') > 0 /\ file'[Len(file')] = job'[p]
        /\ pc'[p] = "written" => readTo'[p] = Len(file') - 1
    BY <1>0, <1>a, <1>b, <1>c
  <2> QED BY <1>0, <1>00, <2>1 DEF WriterInv, Writing
<1>6. AnchorInv'
  <2>1. anchor = Entries(file, Len(anchor)) BY <1>d DEF AnchorInv
  <2> QED BY <1>0, <1>a, <1>c, <1>d, <1>e, <2>1 DEF AnchorInv
<1>7. UsesInv' BY <1>0, <1>d, <1>g DEF UsesInv
<1>8. PermitInv' BY <1>0, <1>g DEF PermitInv
<1>9. FreshInv' BY <1>0 DEF FreshInv, Unused, Writing
<1> QED BY <1>0, <1>1, <1>2, <1>3, <1>4, <1>5, <1>6, <1>7, <1>8, <1>9, PerformedStays

\* The last line of the file makes the tip of all of it.
LEMMA LastTip ==
  ASSUME JournalInv, NEW p \in Process, pc[p] \in {"written", "synced"}
  PROVE  /\ Len(file) \in Nat \ {0} /\ job[p] \in Lines
         /\ file[Len(file)] = job[p]
         /\ Tip(job[p]) = Entries(file, Len(file))
         /\ Len(Tip(job[p])) = Len(file)
<1> USE DEF JournalInv
<1>1. PICK l \in Nat : l = Len(file) BY LenProperties DEF FileInv
<1>2. l > 0 /\ file[l] = job[p] /\ job[p] \in Lines
  BY <1>1 DEF WriterInv, MoreTypes, Writing
<1>3. l \in 1..Len(file) /\ l \in 0..Len(file) BY <1>1, <1>2
<1>4. file[l].prev = Entries(file, l - 1) BY <1>3 DEF FileInv, Chained, Follows
<1>5. Tip(file[l]) = Entries(file, l) BY <1>3, <1>4, NextEntry DEF FileInv
<1>6. Len(Entries(file, l)) = l BY <1>3, EntriesAre DEF FileInv
<1> QED BY <1>1, <1>2, <1>5, <1>6

LEMMA SyncInv ==
  ASSUME JournalInv, NEW p \in Process, Sync(p) PROVE JournalInv'
<1> USE DEF JournalInv
<1>0. /\ pc[p] = "written" /\ pc'[p] = "synced"
      /\ \A q \in Process : q # p =>
           pc'[q] = pc[q] /\ readTo'[q] = readTo[q] /\ applied'[q] = applied[q]
      /\ pc' = [pc EXCEPT ![p] = "synced"]
      /\ readTo'[p] = readTo[p] + 1 /\ applied'[p] = Tip(job[p])
      /\ DOMAIN readTo' = Process /\ DOMAIN applied' = Process
      /\ durable' = Len(file)
      /\ UNCHANGED <<file, torn, lock, anchor, floor, job, executed, rolledBack>>
  BY DEF Sync, Goes, TypeOK, MoreTypes
<1>00. /\ \A q \in Process : q # p => pc[q] \notin Writing
       /\ ~torn
  BY <1>0, OneWriter DEF Writing
<1>a. PICK l \in Nat : l = Len(file) BY LenProperties DEF FileInv
<1>b. /\ l > 0 /\ file[l] = job[p] /\ Tip(job[p]) = Entries(file, l) /\ readTo[p] = l - 1
  BY <1>0, <1>a, LastTip DEF WriterInv
<1>d. ~Dead /\ Len(anchor) <= durable /\ durable \in 0..l /\ Len(anchor) \in Nat
  BY <1>0, <1>a, LenProperties DEF AnchorInv, FileInv
<1>e. ~Dead' BY <1>0, <1>d DEF Dead
<1>f. Reach' >= Reach /\ Reach' \in 0..l /\ Reach \in 0..l
  BY <1>0, <1>a, <1>d DEF Reach
<1>g. \A r : InReach(r) => InReach(r)'
  <2> SUFFICES ASSUME NEW r, InReach(r) PROVE InReach(r)' OBVIOUS
  <2>1. PICK i \in 1..Reach : file[i].req = r /\ file[i].event = "reserve" BY DEF InReach
  <2>2. i \in 1..Reach' /\ file'[i] = file[i] BY <1>0, <1>f, <2>1
  <2> QED BY <2>1, <2>2 DEF InReach
<1>1. TypeOK'
  <2>1. \A q \in Process : lock' = q <=> pc'[q] \in {"appending", "written", "synced"}
    BY <1>0 DEF TypeOK
  <2>2. durable' \in 0..Len(file') BY <1>0, <1>a
  <2>3. pc' \in [Process -> {"down", "idle", "appending", "written", "synced", "permitted",
                             "called"}]
    BY <1>0 DEF TypeOK
  <2> QED BY <1>0, <2>1, <2>2, <2>3 DEF TypeOK
<1>2. FileInv'
  <2>1. durable' \in 0..Len(file') /\ Chained(file)' BY <1>0, <1>a DEF FileInv, Chained
  <2> QED BY <1>0, <2>1 DEF FileInv
<1>3. MoreTypes' BY <1>0 DEF MoreTypes, Writing
<1>4. MemoryInv'
  <2>1. readTo'[p] = l /\ applied'[p] = Entries(file', l) /\ l \in 0..Len(file')
    BY <1>0, <1>a, <1>b
  <2> QED BY <1>0, <2>1 DEF MemoryInv
<1>5. WriterInv'
  <2>1. /\ Len(file') > 0 /\ file'[Len(file')] = job'[p]
        /\ readTo'[p] = Len(file') /\ durable' = Len(file')
    BY <1>0, <1>a, <1>b
  <2> QED BY <1>0, <1>00, <2>1 DEF WriterInv, Writing
<1>6. AnchorInv'
  <2>1. anchor = Entries(file, Len(anchor)) BY <1>d DEF AnchorInv
  <2> QED BY <1>0, <1>a, <1>d, <1>e, <2>1 DEF AnchorInv
<1>7. UsesInv' BY <1>0, <1>d, <1>g DEF UsesInv
<1>8. PermitInv' BY <1>0, <1>g DEF PermitInv
<1>9. FreshInv' BY <1>0 DEF FreshInv, Unused, Writing
<1> QED BY <1>0, <1>1, <1>2, <1>3, <1>4, <1>5, <1>6, <1>7, <1>8, <1>9, PerformedStays

\* A writer that gives up, with the line half written, written or on disk.
LEMMA GivesUpInv ==
  ASSUME JournalInv, NEW p \in Process, pc[p] \in Writing, torn' \in {torn, TRUE},
         lock' = Nobody, pc' = [pc EXCEPT ![p] = "idle"], job' = [job EXCEPT ![p] = NoJob],
         UNCHANGED <<file, durable, anchor, memory, executed, rolledBack>>
  PROVE  JournalInv'
<1> USE DEF JournalInv
<1>0. /\ \A q \in Process : q # p => pc'[q] = pc[q] /\ job'[q] = job[q]
      /\ pc'[p] = "idle" /\ DOMAIN job' = Process
      /\ UNCHANGED <<applied, readTo, floor>>
  BY DEF TypeOK, MoreTypes, memory
<1>00. \A q \in Process : pc'[q] \notin Writing BY <1>0, OneWriter DEF Writing
<1>1. TypeOK'
  <2>1. \A q \in Process : lock' = q <=> pc'[q] \in {"appending", "written", "synced"}
    BY <1>00, JournalAssumption DEF Writing
  <2>2. pc' \in [Process -> {"down", "idle", "appending", "written", "synced", "permitted",
                             "called"}]
    BY DEF TypeOK
  <2> QED BY <2>1, <2>2 DEF TypeOK
<1>2. FileInv'
  <2>1. torn' = torn \/ torn' = TRUE OBVIOUS
  <2>2. torn' \in BOOLEAN BY <2>1 DEF FileInv
  <2> QED BY <2>2 DEF FileInv, Chained
<1>3. MoreTypes' BY <1>0 DEF MoreTypes, Writing
<1>4. MemoryInv'
  <2>1. torn => torn' OBVIOUS
  <2> QED BY <1>0, <2>1 DEF MemoryInv
<1>5. WriterInv' BY <1>00 DEF WriterInv, Writing
<1>6. AnchorInv' BY <1>0, StoresStay DEF AnchorInv
<1>7. UsesInv' BY StoresStay DEF UsesInv
<1>8. PermitInv' BY <1>0, StoresStay DEF PermitInv
<1>9. FreshInv' BY <1>0 DEF FreshInv, Unused, Writing
<1> QED BY <1>1, <1>2, <1>3, <1>4, <1>5, <1>6, <1>7, <1>8, <1>9, PerformedStays

\* The anchor moves to the end of the file, with a permit to show for it or not.
LEMMA AdvancesInv ==
  ASSUME JournalInv, NEW p \in Process, pc[p] = "synced",
         NEW to \in {"permitted", "idle"},
         to = "permitted" => job[p].event = "reserve" /\ job' = job,
         to = "idle" => job' = [job EXCEPT ![p] = NoJob],
         anchor' = Tip(job[p]), lock' = Nobody, pc' = [pc EXCEPT ![p] = to],
         DOMAIN floor' = Process,
         UNCHANGED <<fileVars, applied, readTo, executed, rolledBack>>
  PROVE  JournalInv'
<1> USE DEF JournalInv, fileVars
<1>0. /\ \A q \in Process : q # p => pc'[q] = pc[q] /\ job'[q] = job[q]
      /\ pc'[p] = to /\ DOMAIN job' = Process
  BY DEF TypeOK, MoreTypes
<1>00. /\ \A q \in Process : q # p => pc[q] \notin Writing
       /\ \A q \in Process : pc'[q] \notin Writing
  BY <1>0, OneWriter DEF Writing
<1>a. PICK l \in Nat \ {0} : l = Len(file) BY LastTip
<1>b. /\ file[l] = job[p] /\ anchor' = Entries(file, l) /\ Len(anchor') = l
      /\ durable = l /\ job[p] \in Lines
  BY <1>a, LastTip DEF WriterInv
<1>d. ~Dead /\ Len(anchor) \in 0..l
  BY <1>a, <1>b, LenProperties DEF AnchorInv
<1>e. ~Dead' BY <1>a, <1>b DEF Dead
<1>f. Reach' = l /\ Reach \in 0..l BY <1>b, <1>d DEF Reach
<1>g. \A r : InReach(r) => InReach(r)'
  <2> SUFFICES ASSUME NEW r, InReach(r) PROVE InReach(r)' OBVIOUS
  <2>1. PICK i \in 1..Reach : file[i].req = r /\ file[i].event = "reserve" BY DEF InReach
  <2>2. i \in 1..Reach' /\ file'[i] = file[i] BY <1>f, <2>1
  <2> QED BY <2>1, <2>2 DEF InReach
<1>1. TypeOK'
  <2>1. \A q \in Process : lock' = q <=> pc'[q] \in {"appending", "written", "synced"}
    BY <1>00, JournalAssumption DEF Writing
  <2>2. pc' \in [Process -> {"down", "idle", "appending", "written", "synced", "permitted",
                             "called"}]
    BY DEF TypeOK
  <2> QED BY <2>1, <2>2 DEF TypeOK
<1>2. FileInv' BY DEF FileInv, Chained
<1>3. MoreTypes' BY <1>0, <1>b DEF MoreTypes, Writing
<1>4. MemoryInv' BY <1>0 DEF MemoryInv
<1>5. WriterInv' BY <1>00 DEF WriterInv, Writing
<1>6. AnchorInv' BY <1>a, <1>b, <1>e DEF AnchorInv
<1>7. UsesInv' BY <1>d, <1>g DEF UsesInv
<1>8. PermitInv'
  <2> SUFFICES ASSUME NEW q \in Process, pc'[q] \in {"permitted", "called"}
               PROVE  job'[q].event = "reserve" /\ InReach(job[q].req)'
    BY DEF PermitInv
  <2>1. CASE q # p BY <1>0, <1>g, <2>1 DEF PermitInv
  <2>2. CASE q = p
    <3>1. to = "permitted" /\ job' = job /\ job[p].event = "reserve" BY <1>0, <2>2
    <3>2. l \in 1..Reach' /\ file'[l].req = job[p].req /\ file'[l].event = "reserve"
      BY <1>b, <1>f, <3>1
    <3> QED BY <2>2, <3>1, <3>2 DEF InReach
  <2> QED BY <2>1, <2>2
<1>9. FreshInv'
  <2>1. \A q \in Process : Unused(q)' => Unused(q) /\ job'[q] = job[q]
    BY <1>0 DEF Unused, Writing
  <2> QED BY <2>1 DEF FreshInv
<1> QED BY <1>1, <1>2, <1>3, <1>4, <1>5, <1>6, <1>7, <1>8, <1>9, PerformedStays

LEMMA AdvanceAnchorInv ==
  ASSUME JournalInv, NEW p \in Process, AdvanceAnchor(p) PROVE JournalInv'
<1>1. DOMAIN floor' = Process BY DEF AdvanceAnchor, JournalInv, MoreTypes
<1>2. /\ pc[p] = "synced" /\ anchor' = Tip(job[p]) /\ lock' = Nobody
      /\ UNCHANGED <<fileVars, applied, readTo, executed, rolledBack>>
  BY DEF AdvanceAnchor
<1>3. CASE job[p].event = "reserve"
  <2>1. pc' = [pc EXCEPT ![p] = "permitted"] /\ job' = job
    BY <1>3 DEF AdvanceAnchor, Goes
  <2> QED BY <1>1, <1>2, <1>3, <2>1, AdvancesInv
<1>4. CASE job[p].event # "reserve"
  <2>1. pc' = [pc EXCEPT ![p] = "idle"] /\ job' = [job EXCEPT ![p] = NoJob]
    BY <1>4 DEF AdvanceAnchor, Goes
  <2> QED BY <1>1, <1>2, <2>1, AdvancesInv
<1> QED BY <1>3, <1>4

LEMMA AppendFailsInv ==
  ASSUME JournalInv, NEW p \in Process, AppendFails(p) PROVE JournalInv'
<1>1. torn' \in {torn, TRUE} /\ pc[p] \in Writing BY DEF AppendFails, Writing
<1> QED BY <1>1, GivesUpInv DEF AppendFails, Goes

LEMMA AdvanceFailsInv ==
  ASSUME JournalInv, NEW p \in Process, AdvanceFails(p) PROVE JournalInv'
<1>1. /\ pc[p] = "synced" /\ lock' = Nobody /\ pc' = [pc EXCEPT ![p] = "idle"]
      /\ job' = [job EXCEPT ![p] = NoJob]
      /\ UNCHANGED <<fileVars, memory, executed, rolledBack>>
  BY DEF AdvanceFails, Goes
<1>2. CASE anchor' = anchor
  <2>1. pc[p] \in Writing /\ torn' = torn BY <1>1 DEF Writing, fileVars
  <2> QED BY <1>1, <1>2, <2>1, GivesUpInv DEF fileVars
<1>3. CASE anchor' = Tip(job[p])
  <2>1. DOMAIN floor' = Process BY <1>1 DEF memory, JournalInv, MoreTypes
  <2> QED BY <1>1, <1>3, <2>1, AdvancesInv DEF memory
<1> QED BY <1>2, <1>3 DEF AdvanceFails

LEMMA CallUpstreamInv ==
  ASSUME JournalInv, NEW p \in Process, CallUpstream(p) PROVE JournalInv'
<1> USE DEF JournalInv
<1>0. /\ pc[p] = "permitted" /\ pc'[p] = "called"
      /\ \A q \in Process : q # p => pc'[q] = pc[q]
      /\ pc' = [pc EXCEPT ![p] = "called"]
      /\ UNCHANGED <<file, torn, durable, lock, anchor, applied, readTo, floor, job,
                     rolledBack>>
  BY DEF CallUpstream, Goes, TypeOK, fileVars, memory
<1>a. /\ job[p] \in Lines /\ job[p].req \in Request /\ job[p].event = "reserve"
      /\ job[p] # NoJob
  <2>1. job[p] \in Lines /\ job[p].event = "reserve"
    BY <1>0 DEF MoreTypes, PermitInv, Writing
  <2> QED BY <2>1 DEF Lines, NoJob
<1>b. /\ Unused(p) /\ executed[job[p].req] = 0
  BY <1>0, <1>a DEF FreshInv, Unused
<1>c. /\ executed'[job[p].req] = 1
      /\ \A r \in Request : r # job[p].req => executed'[r] = executed[r]
      /\ executed' \in [Request -> Nat]
  <2>1. executed' = [executed EXCEPT ![job[p].req] = @ + 1] BY DEF CallUpstream
  <2> QED BY <1>a, <1>b, <2>1 DEF TypeOK
<1>d. ~Dead /\ ~Dead'
  <2>1. ~Dead BY <1>0 DEF AnchorInv
  <2> QED BY <1>0, <2>1, StoresStay
<1>e. \A r : InReach(r)' <=> InReach(r) BY <1>0, StoresStay
<1>1. TypeOK'
  <2>1. \A q \in Process : lock' = q <=> pc'[q] \in {"appending", "written", "synced"}
    BY <1>0 DEF TypeOK
  <2>2. pc' \in [Process -> {"down", "idle", "appending", "written", "synced", "permitted",
                             "called"}]
    BY <1>0 DEF TypeOK
  <2> QED BY <1>0, <1>c, <2>1, <2>2 DEF TypeOK
<1>2. FileInv' BY <1>0 DEF FileInv, Chained
<1>3. MoreTypes' BY <1>0 DEF MoreTypes, Writing
<1>4. MemoryInv' BY <1>0 DEF MemoryInv
<1>5. WriterInv' BY <1>0 DEF WriterInv
<1>6. AnchorInv' BY <1>0, <1>d DEF AnchorInv
<1>7. UsesInv'
  <2>1. InReach(job[p].req) BY <1>0 DEF PermitInv
  <2> QED BY <1>c, <1>d, <1>e, <2>1 DEF UsesInv
<1>8. PermitInv' BY <1>0, <1>e DEF PermitInv
<1>9. FreshInv'
  <2> SUFFICES ASSUME NEW q \in Process, Unused(q)'
               PROVE  /\ executed'[job[q].req] = 0
                      /\ \A x \in Process \ {q} : Unused(x)' => job[x].req # job[q].req
    BY <1>0 DEF FreshInv
  <2>1. q # p /\ \A x \in Process : Unused(x)' => Unused(x)
    BY <1>0 DEF Unused, Writing
  <2>2. executed[job[q].req] = 0 /\ job[q].req # job[p].req
    BY <1>b, <2>1 DEF FreshInv
  <2>3. job[q].req \in Request
    BY <2>1 DEF MoreTypes, Unused, Lines, Writing
  <2> QED BY <1>c, <2>1, <2>2, <2>3 DEF FreshInv
<1>10. CountInv' BY <1>c DEF CountInv
<1>11. SpentInv' BY <1>d DEF SpentInv
<1> QED BY <1>1, <1>2, <1>3, <1>4, <1>5, <1>6, <1>7, <1>8, <1>9, <1>10, <1>11

LEMMA CrashInv ==
  ASSUME JournalInv, NEW p \in Process, Crash(p) PROVE JournalInv'
<1> USE DEF JournalInv
<1>0. /\ \A q \in Process : q # p =>
           /\ pc'[q] = pc[q] /\ job'[q] = job[q]
           /\ readTo'[q] = readTo[q] /\ applied'[q] = applied[q]
      /\ pc'[p] = "down" /\ job'[p] = NoJob /\ readTo'[p] = 0 /\ applied'[p] = <<>>
      /\ DOMAIN pc' = Process /\ DOMAIN job' = Process /\ DOMAIN readTo' = Process
      /\ DOMAIN applied' = Process /\ DOMAIN floor' = Process
      /\ lock' = IF lock = p THEN Nobody ELSE lock
      /\ UNCHANGED <<file, durable, anchor, executed, rolledBack>>
  BY DEF Crash, Forget
<1>00. torn' \in BOOLEAN /\ (torn => torn') /\ (torn' => lock' = Nobody)
  <2>1. CASE pc[p] = "appending"
    <3>1. lock' = Nobody BY <1>0, <2>1, OneWriter DEF Writing
    <3>2. torn' = torn \/ torn' = TRUE BY <2>1 DEF Crash
    <3> QED BY <3>1, <3>2 DEF FileInv
  <2>2. CASE pc[p] # "appending"
    <3>1. torn' = torn BY <2>2 DEF Crash
    <3> QED BY <1>0, <3>1 DEF FileInv
  <2> QED BY <2>1, <2>2
<1>1. TypeOK'
  <2>1. \A q \in Process : lock' = q <=> pc'[q] \in {"appending", "written", "synced"}
    BY <1>0, JournalAssumption DEF TypeOK
  <2>2. pc' \in [Process -> {"down", "idle", "appending", "written", "synced", "permitted",
                             "called"}]
    BY DEF TypeOK, Crash, Forget
  <2>3. lock' \in Process \cup {Nobody} BY <1>0 DEF TypeOK
  <2> QED BY <1>0, <2>1, <2>2, <2>3 DEF TypeOK
<1>2. FileInv' BY <1>0, <1>00 DEF FileInv, Chained
<1>3. MoreTypes' BY <1>0 DEF MoreTypes, Writing
<1>4. MemoryInv'
  <2> SUFFICES ASSUME NEW q \in Process PROVE MemoryInv!(q)' BY DEF MemoryInv
  <2>1. CASE q = p
    <3>1. Len(file) \in Nat BY LenProperties DEF FileInv
    <3> QED BY <1>0, <2>1, <3>1, NoEntries
  <2>2. CASE q # p BY <1>0, <1>00, <2>2 DEF MemoryInv
  <2> QED BY <2>1, <2>2
<1>5. WriterInv'
  <2> SUFFICES ASSUME NEW q \in Process PROVE WriterInv!(q)' BY DEF WriterInv
  <2>1. CASE q = p BY <1>0, <2>1
  <2>2. CASE q # p BY <1>0, <2>2 DEF WriterInv
  <2> QED BY <2>1, <2>2
<1>6. AnchorInv' BY <1>0, StoresStay DEF AnchorInv
<1>7. UsesInv' BY <1>0, StoresStay DEF UsesInv
<1>8. PermitInv' BY <1>0, StoresStay DEF PermitInv
<1>9. FreshInv'
  <2>1. \A q \in Process : Unused(q)' => Unused(q) /\ job'[q] = job[q]
    BY <1>0 DEF Unused, Writing
  <2> QED BY <1>0, <2>1 DEF FreshInv
<1> QED BY <1>0, <1>1, <1>2, <1>3, <1>4, <1>5, <1>6, <1>7, <1>8, <1>9, PerformedStays

\* A file that loses its end while nobody has it open: no further than to what is on
\* disk, or else the anchor is the witness.
LEMMA ShrinksInv ==
  ASSUME JournalInv, NEW n \in 0..Len(file), file' = SubSeq(file, 1, n), durable' = n,
         UNCHANGED <<anchor, executed>>, torn' \in BOOLEAN, lock' = Nobody,
         DOMAIN applied' = Process, DOMAIN readTo' = Process, DOMAIN floor' = Process,
         DOMAIN job' = Process, pc' = [p \in Process |-> "down"],
         \A p \in Process : readTo'[p] = 0 /\ applied'[p] = <<>>,
         \/ rolledBack' = rolledBack /\ durable <= n
         \/ rolledBack' = {"file"} /\ "anchor" \notin rolledBack
  PROVE  JournalInv'
<1> USE DEF JournalInv
<1>0. \A p \in Process : pc'[p] = "down" OBVIOUS
<1>a. PICK l \in Nat : l = Len(file) BY LenProperties DEF FileInv
<1>b. /\ file' \in Seq(Lines) /\ Chained(file)' /\ Len(file') = n
      /\ \A i \in 1..n : file'[i] = file[i]
      /\ \A k \in 0..n : Entries(file', k) = Entries(file, k)
  <2>1. PICK g : g = file' OBVIOUS
  <2>2. /\ g \in Seq(Lines) /\ Len(g) = n /\ Chained(g)
        /\ \A i \in 1..n : g[i] = file[i]
        /\ \A k \in 0..n : Entries(g, k) = Entries(file, k)
    BY <2>1, ChainShrinks DEF FileInv
  <2>3. Chained(file') BY <2>1, <2>2
  <2> QED BY <2>1, <2>2, <2>3 DEF Chained
<1>d. Len(anchor) \in Nat /\ durable \in 0..l BY <1>a DEF AnchorInv, FileInv
<1>e. ASSUME ~Dead'
      PROVE  /\ ~Dead /\ Len(anchor) <= n /\ anchor = Entries(file, Len(anchor))
             /\ Reach' \in 0..n /\ Reach \in 0..Reach'
  <2>1. ~Dead
    <3>1. CASE rolledBack' = rolledBack BY <1>a, <1>b, <1>d, <1>e, <3>1 DEF Dead
    <3>2. CASE rolledBack' = {"file"} BY <1>a, <1>b, <1>d, <1>e, <3>2 DEF Dead
    <3> QED BY <3>1, <3>2
  <2>2. Len(anchor) <= durable /\ anchor = Entries(file, Len(anchor))
    BY <2>1 DEF AnchorInv
  <2>3. CASE rolledBack' = rolledBack /\ durable <= n
    <3>1. Len(anchor) <= n BY <1>d, <2>2, <2>3
    <3> QED BY <1>d, <2>1, <2>2, <2>3, <3>1 DEF Reach
  <2>4. CASE rolledBack' = {"file"} /\ "anchor" \notin rolledBack
    <3>1. Len(anchor) <= n BY <1>b, <1>d, <1>e, <2>4 DEF Dead
    <3> QED BY <1>d, <2>1, <2>2, <2>4, <3>1 DEF Reach
  <2> QED BY <2>3, <2>4
<1>1. TypeOK'
  <2>1. rolledBack' \subseteq {"file", "anchor"} BY DEF TypeOK
  <2>2. n \in 0..n BY <1>a
  <2> QED BY <1>0, <1>b, <2>1, <2>2, JournalAssumption DEF TypeOK
<1>2. FileInv'
  <2>1. n \in 0..n BY <1>a
  <2> QED BY <1>b, <2>1 DEF FileInv
<1>3. MoreTypes' BY <1>0 DEF MoreTypes, Writing
<1>4. MemoryInv' BY <1>a, <1>b, NoEntries DEF MemoryInv
<1>5. WriterInv' BY <1>0 DEF WriterInv
<1>6. AnchorInv'
  <2>1. CASE Dead' BY <1>0, <2>1 DEF AnchorInv
  <2>2. CASE ~Dead' BY <1>a, <1>b, <1>d, <1>e, <2>2 DEF AnchorInv
  <2> QED BY <2>1, <2>2
<1>7. UsesInv'
  <2> SUFFICES ASSUME ~Dead', NEW r \in Request, executed[r] > 0 PROVE InReach(r)'
    BY DEF UsesInv
  <2>1. PICK i \in 1..Reach : file[i].req = r /\ file[i].event = "reserve"
    BY <1>e DEF UsesInv, InReach
  <2>2. i \in 1..Reach' /\ file'[i] = file[i] BY <1>b, <1>e, <2>1
  <2> QED BY <2>1, <2>2 DEF InReach
<1>8. PermitInv' BY <1>0 DEF PermitInv
<1>9. FreshInv' BY <1>0 DEF FreshInv, Unused, Writing
<1> QED BY <1>1, <1>2, <1>3, <1>4, <1>5, <1>6, <1>7, <1>8, <1>9, PerformedStays

LEMMA PowerLossInv ==
  ASSUME JournalInv, PowerLoss PROVE JournalInv'
<1>1. PICK n \in durable..Len(file) :
        /\ file' = SubSeq(file, 1, n)
        /\ torn' \in IF n < Len(file) THEN BOOLEAN ELSE {torn}
        /\ durable' = n
  BY DEF PowerLoss
<1>2. n \in 0..Len(file) /\ durable <= n
  BY LenProperties DEF JournalInv, FileInv
<1>3. torn' \in BOOLEAN
  <2>1. CASE n < Len(file) BY <1>1, <2>1
  <2>2. CASE ~(n < Len(file))
    <3>1. torn' = torn BY <1>1, <2>2
    <3> QED BY <3>1 DEF JournalInv, FileInv
  <2> QED BY <2>1, <2>2
<1>4. /\ UNCHANGED <<anchor, executed>> /\ rolledBack' = rolledBack
      /\ DOMAIN applied' = Process /\ DOMAIN readTo' = Process /\ DOMAIN floor' = Process
      /\ DOMAIN job' = Process
      /\ \A p \in Process : readTo'[p] = 0 /\ applied'[p] = <<>>
  BY DEF PowerLoss, Forget
<1>5. pc' = [p \in Process |-> "down"] BY DEF PowerLoss, Forget
<1>6. lock' = Nobody BY DEF PowerLoss, Forget, JournalInv, TypeOK
<1> QED BY <1>1, <1>2, <1>3, <1>4, <1>5, <1>6, ShrinksInv

LEMMA OldCopyInv ==
  ASSUME JournalInv, "open" \notin Store, OldCopy PROVE JournalInv'
<1>1. PICK n \in 0..Len(file) : file' = SubSeq(file, 1, n) /\ durable' = n
  BY DEF OldCopy
<1>2. \A p \in Process : pc[p] = "down" BY DEF OldCopy
<1>3. lock' = Nobody BY <1>2, OneWriter DEF OldCopy, Writing, JournalInv, TypeOK
<1>4. pc' = [p \in Process |-> "down"] BY <1>2 DEF OldCopy, JournalInv, TypeOK
<1>5. /\ UNCHANGED <<anchor, executed>> /\ torn' \in BOOLEAN
      /\ rolledBack' = {"file"} /\ "anchor" \notin rolledBack
  BY DEF OldCopy
<1>6. /\ DOMAIN applied' = Process /\ DOMAIN readTo' = Process /\ DOMAIN floor' = Process
      /\ DOMAIN job' = Process
      /\ \A p \in Process : readTo'[p] = 0 /\ applied'[p] = <<>>
  BY <1>2 DEF OldCopy, memory, JournalInv, MoreTypes, MemoryInv
<1> QED BY <1>1, <1>3, <1>4, <1>5, <1>6, ShrinksInv

LEMMA AnchorForgetsInv ==
  ASSUME JournalInv, AnchorForgets PROVE JournalInv'
<1> USE DEF JournalInv
<1>0. /\ anchor' = <<>> /\ rolledBack' = {"anchor"} /\ "file" \notin rolledBack
      /\ UNCHANGED <<file, torn, durable, lock, pc, applied, readTo, floor, job, executed>>
  BY DEF AnchorForgets, Genesis, fileVars, memory
<1>d. ~Dead /\ ~Dead' BY <1>0 DEF Dead
<1>e. Reach' \in Nat /\ Reach \in 0..Reach'
  BY <1>0, <1>d, LenProperties DEF Reach, AnchorInv, FileInv
<1>g. \A r : InReach(r) => InReach(r)'
  <2> SUFFICES ASSUME NEW r, InReach(r) PROVE InReach(r)' OBVIOUS
  <2>1. PICK i \in 1..Reach : file[i].req = r /\ file[i].event = "reserve" BY DEF InReach
  <2>2. i \in 1..Reach' /\ file'[i] = file[i] BY <1>0, <1>e, <2>1
  <2> QED BY <2>1, <2>2 DEF InReach
<1>1. TypeOK' BY <1>0 DEF TypeOK
<1>2. FileInv' BY <1>0 DEF FileInv, Chained
<1>3. MoreTypes' BY <1>0 DEF MoreTypes
<1>4. MemoryInv' BY <1>0 DEF MemoryInv
<1>5. WriterInv' BY <1>0 DEF WriterInv
<1>6. AnchorInv'
  <2>1. Len(anchor') = 0 BY <1>0
  <2>2. durable \in Nat BY LenProperties DEF FileInv
  <2> QED BY <1>0, <1>d, <2>1, <2>2, NoEntries DEF AnchorInv
<1>7. UsesInv' BY <1>0, <1>d, <1>g DEF UsesInv
<1>8. PermitInv' BY <1>0, <1>g DEF PermitInv
<1>9. FreshInv' BY <1>0 DEF FreshInv, Unused
<1> QED BY <1>0, <1>1, <1>2, <1>3, <1>4, <1>5, <1>6, <1>7, <1>8, <1>9, PerformedStays

LEMMA InvNext ==
  ASSUME JournalInv, "open" \notin Store, [Next]_vars
  PROVE  JournalInv'
<1>1. ASSUME NEW p \in Process, Work(p) PROVE JournalInv'
  <2>1. ASSUME NEW up \in BOOLEAN, Open(p, up) PROVE JournalInv' BY <2>1, OpenInv
  <2>2. ASSUME NEW up \in BOOLEAN, NEW r \in Request, Authorize(p, r, up) PROVE JournalInv'
    BY <2>2, AuthorizeInv
  <2>3. ASSUME NEW up \in BOOLEAN, NEW outcome \in {"succeeded", "unknown"},
               Finish(p, outcome, up)
        PROVE  JournalInv'
    BY <2>3, FinishInv
  <2>4. CASE Write(p) BY <2>4, WriteInv
  <2>5. CASE Sync(p) BY <2>5, SyncInv
  <2>6. CASE AppendFails(p) BY <2>6, AppendFailsInv
  <2>7. CASE AdvanceAnchor(p) BY <2>7, AdvanceAnchorInv
  <2>8. CASE AdvanceFails(p) BY <2>8, AdvanceFailsInv
  <2>9. CASE CallUpstream(p) BY <2>9, CallUpstreamInv
  <2> QED BY <1>1, <2>1, <2>2, <2>3, <2>4, <2>5, <2>6, <2>7, <2>8, <2>9, Zenon DEF Work
<1>2. ASSUME NEW p \in Process, Crash(p) PROVE JournalInv' BY <1>2, CrashInv
<1>3. CASE PowerLoss BY <1>3, PowerLossInv
<1>4. CASE OldCopy BY <1>4, OldCopyInv
<1>5. CASE AnchorForgets BY <1>5, AnchorForgetsInv
<1>6. CASE UNCHANGED vars
  <2> USE <1>6 DEF JournalInv, vars, fileVars, memory
  <2>1. Dead' <=> Dead BY StoresStay
  <2>2. \A r : InReach(r)' <=> InReach(r) BY StoresStay
  <2>3. TypeOK' /\ FileInv' BY DEF TypeOK, FileInv, Chained
  <2>4. MoreTypes' /\ MemoryInv' BY DEF MoreTypes, MemoryInv
  <2>5. WriterInv' /\ AnchorInv' BY <2>1 DEF WriterInv, AnchorInv
  <2>6. UsesInv' /\ PermitInv' BY <2>1, <2>2 DEF UsesInv, PermitInv
  <2>7. FreshInv' BY DEF FreshInv, Unused
  <2> QED BY <2>3, <2>4, <2>5, <2>6, <2>7, PerformedStays
<1> QED BY <1>1, <1>2, <1>3, <1>4, <1>5, <1>6, Zenon DEF Next

-------------------------------------------------------------------------------
(* The theorems.  An old copy put back under a process that has the file   *)
(* open is excluded: there the code performs an operation twice.           *)

THEOREM JournalInvariant ==
  ASSUME "open" \notin Store
  PROVE  Spec => []JournalInv
<1>1. Init => JournalInv BY InvInit
<1>2. JournalInv /\ [Next]_vars => JournalInv' BY InvNext
<1> QED BY <1>1, <1>2, PTL DEF Spec

\* No operation reaches upstream twice: authorize appends, syncs and anchors a use
\* before Bridge.call performs it, and refuses one it finds in the file.
THEOREM SpendsOnce ==
  ASSUME "open" \notin Store
  PROVE  Spec => []ExecutedOnce
<1>1. JournalInv => ExecutedOnce BY SpentOnce
<1> QED BY <1>1, JournalInvariant, PTL

\* What is performed under a grant id is performed under one set of terms and within
\* its budget: Journal.reserve counts the uses on a chain that nobody can shorten.
THEOREM SpendsWithinBudget ==
  ASSUME "open" \notin Store
  PROVE  Spec => []WithinBudget
<1>1. JournalInv => WithinBudget BY SpentOnce
<1> QED BY <1>1, JournalInvariant, PTL

\* Until the file is replaced, the anchor says of it only what is on disk, and a use
\* that was performed is on disk.
THEOREM AnchorIsBehind ==
  ASSUME "open" \notin Store
  PROVE  Spec => [](AnchorBehindDisk /\ ExecutedIsSpent)
<1>1. JournalInv => AnchorBehindDisk /\ ExecutedIsSpent
  <2> SUFFICES ASSUME JournalInv, "file" \notin rolledBack
               PROVE  /\ anchor # Genesis =>
                           Len(anchor) <= durable /\ anchor = Tip(file[Len(anchor)])
                      /\ \A r \in Request : executed[r] > 0 =>
                           \E i \in 1..durable : file[i].req = r /\ file[i].event = "reserve"
    BY DEF AnchorBehindDisk, ExecutedIsSpent
  <2> USE DEF JournalInv
  <2>1. ~Dead BY DEF Dead
  <2>2. file \in Seq(Lines) /\ durable \in 0..Len(file) /\ Chained(file) BY DEF FileInv
  <2>3. Len(anchor) <= durable BY <2>1 DEF AnchorInv
  <2>4. anchor = Entries(file, Len(anchor)) BY <2>1 DEF AnchorInv
  <2>5. Len(file) \in Nat BY <2>2, LenProperties
  <2>6. Len(anchor) \in 0..durable BY <2>2, <2>3, <2>5
  <2>7. ASSUME anchor # Genesis PROVE anchor = Tip(file[Len(anchor)])
    <3>1. PICK k : k = Len(anchor) OBVIOUS
    <3>2. anchor = Entries(file, k) BY <2>4, <3>1
    <3>3. k # 0 BY <2>7, <3>2, NoEntries DEF Genesis
    <3>4. k \in 1..Len(file) BY <2>2, <2>5, <2>6, <3>1, <3>3
    <3>5. file[k].prev = Entries(file, k - 1) BY <2>2, <3>4 DEF Chained, Follows
    <3>6. Tip(file[k]) = Entries(file, k) BY <2>2, <3>4, <3>5, NextEntry
    <3> QED BY <3>1, <3>2, <3>6
  <2>8. Reach \in 0..durable BY <2>2, <2>5, <2>6 DEF Reach
  <2>9. \A r \in Request : executed[r] > 0 =>
          \E i \in 1..durable : file[i].req = r /\ file[i].event = "reserve"
    BY <2>1, <2>2, <2>5, <2>8 DEF UsesInv, InReach
  <2> QED BY <2>3, <2>7, <2>9
<1> QED BY <1>1, JournalInvariant, PTL

\* Every process can verify the whole file, whoever wrote it.
THEOREM FileIsVerified ==
  ASSUME "open" \notin Store
  PROVE  Spec => []FileVerifies
<1>1. JournalInv => FileVerifies
  <2> SUFFICES ASSUME JournalInv PROVE Verified(<<>>, file).ok BY DEF FileVerifies
  <2>1. PICK f : f = file OBVIOUS
  <2>2. f \in Seq(Lines) /\ Chained(f) BY <2>1 DEF JournalInv, FileInv
  <2>3. Len(f) \in Nat BY <2>2, LenProperties
  <2>4. \A n \in 0..Len(f) : Verified(Entries(f, n), SubSeq(f, n + 1, Len(f)))
          = [tip |-> Entries(f, Len(f)), ok |-> TRUE]
    BY <2>2, ReadsAll
  <2>5. 0 \in 0..Len(f) /\ 0 + 1 = 1 BY <2>3
  <2>6. SubSeq(f, 1, Len(f)) = f BY <2>2, SubSeqFull
  <2>7. Verified(Entries(f, 0), SubSeq(f, 1, Len(f)))
          = [tip |-> Entries(f, Len(f)), ok |-> TRUE]
    BY <2>4, <2>5
  <2>8. Entries(f, 0) = <<>> BY NoEntries
  <2>9. Verified(<<>>, f) = [tip |-> Entries(f, Len(f)), ok |-> TRUE]
    BY <2>6, <2>7, <2>8
  <2> QED BY <2>1, <2>9
<1> QED BY <1>1, JournalInvariant, PTL
===============================================================================
