--------------------------- MODULE FencedInputProofs ---------------------------
(***************************************************************************)
(* The service's two promises.  Ordered follows from where the input being *)
(* written stands relative to everything received (CountersAhead,          *)
(* JobAhead); NothingAfterFailure from which inputs are complete           *)
(* (CompleteSoFar).                                                        *)
(***************************************************************************)
EXTENDS FencedInput, TLAPS

\* The type invariant in two halves, one for each prover.
Flags == held \in BOOLEAN /\ stopped \in BOOLEAN
Counts ==
  /\ lease \in Nat
  /\ next \in Nat \ {0}
  /\ job \in Job \cup {NoJob}
  /\ tty \in Seq(Part)

\* The types of the service's state, for every Parts: NoJob is the only value of
\* job that is not an input.
THEOREM FencedTyping ==
  ASSUME Parts \in Nat \ {0}, NoJob \notin Job
  PROVE  FencedSpec => []FencedTypeOK
<1>1. FencedInit => FencedTypeOK
  <2>1. FencedInit => Flags BY Zenon DEF FencedInit, Flags
  <2>2. FencedInit => Counts BY DEF FencedInit, Counts
  <2> QED BY <2>1, <2>2, Zenon DEF Flags, Counts, FencedTypeOK
<1>2. FencedTypeOK /\ [FencedNext]_fencedVars => FencedTypeOK'
  <2> SUFFICES ASSUME Flags, Counts, [FencedNext]_fencedVars PROVE Flags' /\ Counts'
    BY Zenon DEF Flags, Counts, FencedTypeOK
  <2>1. CASE NewLease
    <3>1. Flags' BY <2>1, Zenon DEF NewLease, Flags
    <3>2. Counts' BY <2>1 DEF NewLease, Counts
    <3> QED BY <3>1, <3>2
  <2>2. CASE EndLease
    <3>1. Flags' BY <2>2, Zenon DEF EndLease, Flags
    <3>2. Counts' BY <2>2 DEF EndLease, Counts
    <3> QED BY <3>1, <3>2
  <2>3. CASE Put
    <3>0. Flags' BY <2>3, Zenon DEF Put, Flags
    <3>1. job \in Job /\ job.sent + 1 \in 1..Parts BY <2>3 DEF Put, Counts, Job
    <3>2. [gen |-> job.gen, seq |-> job.seq, data |-> job.data,
           part |-> job.sent + 1] \in Part
      BY <3>1 DEF Job, Part
    <3>3. tty' \in Seq(Part) BY <2>3, <3>2 DEF Put, Counts
    <3>4. job' \in Job BY <2>3, <3>1 DEF Put, Job
    <3> QED BY <2>3, <3>0, <3>3, <3>4 DEF Put, Counts
  <2>4. CASE Finish
    <3>1. Flags' BY <2>4, Zenon DEF Finish, Flags
    <3>2. Counts' BY <2>4 DEF Finish, Counts
    <3> QED BY <3>1, <3>2
  <2>5. CASE Fail
    <3>1. Flags' BY <2>5, Zenon DEF Fail, Flags
    <3>2. Counts' BY <2>5 DEF Fail, Counts
    <3> QED BY <3>1, <3>2
  <2>6. ASSUME NEW d \in Data, Begin(d) PROVE Flags' /\ Counts'
    <3>1. Flags' BY <2>6, Zenon DEF Begin, Flags
    <3>2. Counts' BY <2>6 DEF Begin, Counts, Job
    <3> QED BY <3>1, <3>2
  <2>7. CASE UNCHANGED fencedVars BY <2>7, Zenon DEF fencedVars, Flags, Counts
  <2> QED BY <2>1, <2>2, <2>3, <2>4, <2>5, <2>6, <2>7 DEF FencedNext
<1> QED BY <1>1, <1>2, PTL DEF FencedSpec

-------------------------------------------------------------------------------
\* The next part the input in hand will put.
NextPart == [gen |-> job.gen, seq |-> job.seq, data |-> job.data, part |-> job.sent + 1]

\* The lease counters are ahead of everything received and of the input in hand.
CountersAhead ==
  /\ \A i \in DOMAIN tty :
       /\ tty[i].gen <= lease
       /\ tty[i].gen = lease => tty[i].seq < next
  /\ job # NoJob =>
       /\ job.gen <= lease
       /\ job.gen = lease => next = job.seq + 1

\* The input in hand is ahead of everything received.
JobAhead ==
  job # NoJob => \A i \in DOMAIN tty : Before(tty[i], NextPart)

OrderInv == CountersAhead /\ JobAhead /\ Ordered

\* A part put at the end is tty[Len(tty) + 1]; the earlier ones stay.
LEMMA Appended ==
  ASSUME Parts \in Nat \ {0}, Counts, Put
  PROVE  /\ job \in Job
         /\ NextPart \in Part
         /\ DOMAIN tty' = 1..(Len(tty) + 1)
         /\ DOMAIN tty = 1..Len(tty)
         /\ Len(tty) \in Nat
         /\ tty'[Len(tty) + 1] = NextPart
         /\ \A i \in DOMAIN tty : tty'[i] = tty[i] /\ tty[i] \in Part
<1>1. job \in Job /\ job.sent + 1 \in 1..Parts BY DEF Put, Counts, Job
<1>2. NextPart \in Part BY <1>1 DEF Job, Part, NextPart
<1>3. tty' = Append(tty, NextPart) BY DEF Put, NextPart
<1>4. tty \in Seq(Part) BY DEF Counts
<1> QED BY <1>1, <1>2, <1>3, <1>4

LEMMA OrderInductive ==
  ASSUME Parts \in Nat \ {0}, NoJob \notin Job
  PROVE  FencedSpec => []OrderInv
<1>1. FencedInit => OrderInv
  BY DEF FencedInit, OrderInv, CountersAhead, JobAhead, Ordered
<1>2. FencedTypeOK /\ OrderInv /\ [FencedNext]_fencedVars => OrderInv'
  <2> SUFFICES ASSUME Counts, OrderInv, [FencedNext]_fencedVars PROVE OrderInv'
    BY Zenon DEF FencedTypeOK, Counts
  <2> USE DEF OrderInv
  <2>0. DOMAIN tty = 1..Len(tty) /\ \A i \in DOMAIN tty : tty[i] \in Part
    BY DEF Counts
  <2>1. CASE NewLease
    <3>1. CountersAhead' BY <2>0, <2>1 DEF NewLease, CountersAhead, Counts, Part, Job
    <3>2. JobAhead' /\ Ordered' BY <2>1 DEF NewLease, JobAhead, Ordered, NextPart
    <3> QED BY <3>1, <3>2
  <2>2. CASE EndLease
    BY <2>2, Zenon DEF EndLease, CountersAhead, JobAhead, Ordered, NextPart
  <2>3. CASE Put
    <3> USE Appended, <2>3
    <3>1. /\ lease' = lease /\ next' = next /\ job' # NoJob
          /\ job'.gen = job.gen /\ job'.seq = job.seq /\ job'.sent = job.sent + 1
          /\ NextPart'.gen = job.gen /\ NextPart'.seq = job.seq
          /\ NextPart'.part = job.sent + 2
      BY DEF Put, Job, NextPart
    <3>2. CountersAhead'
      <4>1. job.gen <= lease /\ (job.gen = lease => next = job.seq + 1)
        BY DEF CountersAhead, Put
      <4>2. \A i \in DOMAIN tty : tty[i].gen <= lease /\ (tty[i].gen = lease => tty[i].seq < next)
        BY DEF CountersAhead
      <4>3. NextPart.gen <= lease /\ (NextPart.gen = lease => NextPart.seq < next)
        BY <4>1 DEF NextPart, Job, Counts
      <4>4. \A i \in DOMAIN tty' :
              tty'[i].gen <= lease /\ (tty'[i].gen = lease => tty'[i].seq < next)
        BY <4>2, <4>3
      <4> QED BY <3>1, <4>1, <4>4 DEF CountersAhead
    <3>3. \A i \in DOMAIN tty : Before(tty[i], NextPart)
      BY DEF JobAhead, Put
    <3>4. JobAhead'
      BY <3>1, <3>3 DEF JobAhead, Before, NextPart, Part, Job
    <3>5. Ordered'
      BY <3>3 DEF Ordered
    <3> QED BY <3>2, <3>4, <3>5
  <2>4. CASE Finish
    BY <2>4 DEF Finish, CountersAhead, JobAhead, Ordered
  <2>5. CASE Fail
    BY <2>5 DEF Fail, CountersAhead, JobAhead, Ordered
  <2>6. ASSUME NEW d \in Data, Begin(d) PROVE OrderInv'
    <3>1. CountersAhead' BY <2>0, <2>6 DEF Begin, CountersAhead, Counts, Part
    <3>2. JobAhead'
      BY <2>0, <2>6 DEF Begin, CountersAhead, JobAhead, Before, NextPart, Counts, Part
    <3>3. Ordered' BY <2>6 DEF Begin, Ordered
    <3> QED BY <3>1, <3>2, <3>3
  <2>7. CASE UNCHANGED fencedVars
    BY <2>7, Zenon DEF fencedVars, CountersAhead, JobAhead, Ordered, NextPart
  <2> QED BY <2>1, <2>2, <2>3, <2>4, <2>5, <2>6, <2>7 DEF FencedNext
<1> QED BY <1>1, <1>2, FencedTyping, PTL DEF FencedSpec

\* Ordered is an invariant of the service: inputs reach the terminal by lease and
\* number, none twice and none inside another.
THEOREM FencedOrder ==
  ASSUME Parts \in Nat \ {0}, NoJob \notin Job
  PROVE  FencedSpec => []Ordered
<1>1. OrderInv => Ordered BY DEF OrderInv
<1> QED BY <1>1, OrderInductive, PTL

-------------------------------------------------------------------------------
\* Inputs 1..k of lease g have been received whole.
CompleteTo(g, k) == \A s \in 1..k : \E d \in Data : Whole(g, s, d)

\* Part n of the input in hand has been received.
Received(n) == \E i \in DOMAIN tty :
  tty[i] = [gen |-> job.gen, seq |-> job.seq, data |-> job.data, part |-> n]

\* What precedes any received part, what precedes the input in hand, and, while
\* the lease may go on, everything it has numbered so far, is complete.
PrecedingComplete == \A i \in DOMAIN tty : CompleteTo(tty[i].gen, tty[i].seq - 1)
JobComplete ==
  job # NoJob =>
    /\ CompleteTo(job.gen, job.seq - 1)
    /\ \A n \in 1..job.sent : Received(n)
LeaseComplete ==
  ~stopped /\ ~(job # NoJob /\ job.gen = lease) => CompleteTo(lease, next - 1)

CompleteSoFar == PrecedingComplete /\ JobComplete /\ LeaseComplete

\* Nothing received is lost, so what was complete stays complete.
LEMMA CompleteStays ==
  ASSUME Parts \in Nat \ {0}, Counts, Put,
         NEW g, NEW k, CompleteTo(g, k)
  PROVE  CompleteTo(g, k)'
<1>1. \A i \in DOMAIN tty : i \in DOMAIN tty' /\ tty'[i] = tty[i]
  BY Appended
<1>2. ASSUME NEW s, NEW d, Whole(g, s, d) PROVE Whole(g, s, d)'
  BY <1>1, <1>2 DEF Whole
<1> QED BY <1>2 DEF CompleteTo

LEMMA CompleteInductive ==
  ASSUME Parts \in Nat \ {0}, NoJob \notin Job
  PROVE  FencedSpec => []CompleteSoFar
<1>1. FencedInit => CompleteSoFar
  BY DEF FencedInit, CompleteSoFar, PrecedingComplete, JobComplete, LeaseComplete, CompleteTo
<1>2. FencedTypeOK /\ OrderInv /\ CompleteSoFar /\ [FencedNext]_fencedVars => CompleteSoFar'
  <2> SUFFICES ASSUME Counts, OrderInv, CompleteSoFar, [FencedNext]_fencedVars
               PROVE  CompleteSoFar'
    BY Zenon DEF FencedTypeOK, Counts
  <2> USE DEF CompleteSoFar
  <2>1. CASE NewLease
    <3>1. PrecedingComplete' /\ JobComplete'
      BY <2>1 DEF NewLease, PrecedingComplete, JobComplete, CompleteTo, Whole, Received
    <3>2. LeaseComplete'
      BY <2>1 DEF NewLease, LeaseComplete, CompleteTo
    <3> QED BY <3>1, <3>2
  <2>2. CASE EndLease
    <3>1. PrecedingComplete' /\ JobComplete'
      BY <2>2 DEF EndLease, PrecedingComplete, JobComplete, CompleteTo, Whole, Received
    <3>2. LeaseComplete'
      BY <2>2 DEF EndLease, LeaseComplete, CompleteTo, Whole
    <3> QED BY <3>1, <3>2
  <2>3. CASE Put
    <3> USE Appended, <2>3
    <3>1. /\ job # NoJob /\ job' # NoJob /\ lease' = lease /\ next' = next
          /\ stopped' = stopped
          /\ job'.gen = job.gen /\ job'.seq = job.seq /\ job'.data = job.data
          /\ job'.sent = job.sent + 1
      BY DEF Put, Job
    <3>2. CompleteTo(job.gen, job.seq - 1)' 
      BY <3>1, CompleteStays DEF JobComplete
    <3>3. PrecedingComplete'
      <4>1. ASSUME NEW i \in DOMAIN tty PROVE CompleteTo(tty[i].gen, tty[i].seq - 1)'
        BY CompleteStays DEF PrecedingComplete
      <4>2. ASSUME NEW i \in DOMAIN tty' PROVE CompleteTo(tty[i].gen, tty[i].seq - 1)'
        <5>1. CASE i \in DOMAIN tty BY <4>1, <5>1
        <5>2. CASE i = Len(tty) + 1
          <6>1. tty'[i].gen = job.gen /\ tty'[i].seq = job.seq
            BY <5>2 DEF NextPart
          <6> QED BY <3>1, <3>2, <6>1
        <5> QED BY <5>1, <5>2
      <4> QED BY <4>2 DEF PrecedingComplete
    <3>4. JobComplete'
      <4>1. ASSUME NEW n \in 1..job.sent PROVE Received(n)'
        <5>1. PICK i \in DOMAIN tty :
                tty[i] = [gen |-> job.gen, seq |-> job.seq, data |-> job.data, part |-> n]
          BY <3>1 DEF JobComplete, Received
        <5>2. i \in DOMAIN tty' /\ tty'[i] = tty[i] OBVIOUS
        <5> QED BY <3>1, <5>1, <5>2 DEF Received
      <4>2. ASSUME NEW n, n = job.sent + 1 PROVE Received(n)'
        BY <3>1, <4>2 DEF Received, NextPart
      <4>3. \A n \in 1..job'.sent : Received(n)'
        <5> SUFFICES ASSUME NEW n \in 1..job'.sent PROVE Received(n)' OBVIOUS
        <5>1. n \in 1..job.sent \/ n = job.sent + 1 BY <3>1 DEF Job
        <5> QED BY <4>1, <4>2, <5>1
      <4> QED BY <3>1, <3>2, <4>3 DEF JobComplete
    <3>5. LeaseComplete'
      BY <3>1, CompleteStays DEF LeaseComplete
    <3> QED BY <3>3, <3>4, <3>5
  <2>4. CASE Finish
    <3>1. PrecedingComplete' /\ JobComplete'
      BY <2>4 DEF Finish, PrecedingComplete, JobComplete, CompleteTo, Whole
    <3>2. job \in Job /\ Whole(job.gen, job.seq, job.data)
      BY <2>4 DEF Finish, JobComplete, Whole, Received, Counts
    <3>3. CompleteTo(job.gen, job.seq)
      BY <2>4, <3>2 DEF Finish, JobComplete, CompleteTo, Job
    <3>4. CASE job.gen = lease
      <4>1. next - 1 = job.seq BY <2>4, <3>2, <3>4 DEF Finish, OrderInv, CountersAhead, Job
      <4> QED BY <2>4, <3>1, <3>3, <3>4, <4>1 DEF Finish, LeaseComplete, CompleteTo, Whole
    <3>5. CASE job.gen # lease
      BY <2>4, <3>1, <3>5 DEF Finish, LeaseComplete, CompleteTo, Whole
    <3> QED BY <3>4, <3>5
  <2>5. CASE Fail
    <3>1. PrecedingComplete' /\ JobComplete'
      BY <2>5 DEF Fail, PrecedingComplete, JobComplete, CompleteTo, Whole
    <3>2. LeaseComplete'
      BY <2>5, Zenon DEF Fail, LeaseComplete, CompleteTo, Whole
    <3> QED BY <3>1, <3>2
  <2>6. ASSUME NEW d \in Data, Begin(d) PROVE CompleteSoFar'
    <3>1. PrecedingComplete'
      BY <2>6 DEF Begin, PrecedingComplete, CompleteTo, Whole
    <3>2. CompleteTo(lease, next - 1)
      BY <2>6, Zenon DEF Begin, LeaseComplete
    <3>3. JobComplete'
      BY <2>6, <3>2 DEF Begin, JobComplete, CompleteTo, Whole, Counts
    <3>4. LeaseComplete'
      BY <2>6 DEF Begin, LeaseComplete, Job, Counts
    <3> QED BY <3>1, <3>3, <3>4
  <2>7. CASE UNCHANGED fencedVars
    <3>1. PrecedingComplete' /\ JobComplete'
      BY <2>7 DEF fencedVars, PrecedingComplete, JobComplete, CompleteTo, Whole, Received
    <3>2. LeaseComplete'
      BY <2>7 DEF fencedVars, LeaseComplete, CompleteTo, Whole
    <3> QED BY <3>1, <3>2
  <2> QED BY <2>1, <2>2, <2>3, <2>4, <2>5, <2>6, <2>7 DEF FencedNext
<1> QED BY <1>1, <1>2, FencedTyping, OrderInductive, PTL DEF FencedSpec

\* An input reaches the terminal only after every earlier one of its lease has
\* reached it whole: a failed input is the last of its lease.
THEOREM FencedStopsAtFailure ==
  ASSUME Parts \in Nat \ {0}, NoJob \notin Job
  PROVE  FencedSpec => []NothingAfterFailure
<1>1. CompleteSoFar => NothingAfterFailure
  BY DEF CompleteSoFar, PrecedingComplete, CompleteTo, NothingAfterFailure
<1> QED BY <1>1, CompleteInductive, PTL
===============================================================================
