------------------------------ MODULE FencedInput ------------------------------
(***************************************************************************)
(* What the keeper promises about input, without the threads, locks and    *)
(* tables that make it so.  Leases follow one another.  The holder of the  *)
(* current lease starts its inputs one at a time; the terminal receives an *)
(* input in parts (one write call may move only some of the bytes); an     *)
(* input that fails part-way ends the lease's input.  A lease may be taken *)
(* over while an input of the old one is still being written.              *)
(***************************************************************************)
EXTENDS Naturals, Sequences

CONSTANTS
  Data,    \* what an input can carry
  Parts,   \* the number of parts an input is written in
  NoJob    \* nothing is being written

VARIABLES
  lease,   \* the current lease
  held,    \* somebody holds it
  next,    \* the number its next input will have
  stopped, \* one of its inputs failed
  job,     \* the input being written
  tty      \* the parts the terminal has received

fencedVars == <<lease, held, next, stopped, job, tty>>

Part == [gen : Nat, seq : Nat, data : Data, part : 1..Parts]
Job == [gen : Nat, seq : Nat, data : Data, sent : 0..Parts]

FencedInit ==
  /\ lease = 0
  /\ held = FALSE
  /\ next = 1
  /\ stopped = FALSE
  /\ job = NoJob
  /\ tty = <<>>

NewLease ==
  /\ lease' = lease + 1
  /\ held' = TRUE
  /\ next' = 1
  /\ stopped' = FALSE
  /\ UNCHANGED <<job, tty>>

EndLease ==
  /\ held
  /\ held' = FALSE
  /\ UNCHANGED <<lease, next, stopped, job, tty>>

Begin(d) ==
  /\ job = NoJob
  /\ held
  /\ ~stopped
  /\ job' = [gen |-> lease, seq |-> next, data |-> d, sent |-> 0]
  /\ next' = next + 1
  /\ UNCHANGED <<lease, held, stopped, tty>>

Put ==
  /\ job # NoJob
  /\ job.sent < Parts
  /\ tty' = Append(tty, [gen |-> job.gen, seq |-> job.seq,
                         data |-> job.data, part |-> job.sent + 1])
  /\ job' = [job EXCEPT !.sent = @ + 1]
  /\ UNCHANGED <<lease, held, next, stopped>>

Finish ==
  /\ job # NoJob
  /\ job.sent = Parts
  /\ job' = NoJob
  /\ UNCHANGED <<lease, held, next, stopped, tty>>

Fail ==
  /\ job # NoJob
  /\ job' = NoJob
  /\ stopped' = (stopped \/ job.gen = lease)
  /\ UNCHANGED <<lease, held, next, tty>>

FencedNext ==
  \/ NewLease \/ EndLease \/ Put \/ Finish \/ Fail
  \/ \E d \in Data : Begin(d)

FencedSpec == FencedInit /\ [][FencedNext]_fencedVars

-------------------------------------------------------------------------------
Before(p, q) ==
  \/ p.gen < q.gen
  \/ p.gen = q.gen /\ p.seq < q.seq
  \/ p.gen = q.gen /\ p.seq = q.seq /\ p.part < q.part

\* All the parts of input s of lease g, carrying d, are in the terminal.
Whole(g, s, d) ==
  \A n \in 1..Parts : \E i \in DOMAIN tty :
    tty[i] = [gen |-> g, seq |-> s, data |-> d, part |-> n]

FencedTypeOK ==
  /\ lease \in Nat
  /\ held \in BOOLEAN
  /\ next \in Nat \ {0}
  /\ stopped \in BOOLEAN
  /\ job \in Job \cup {NoJob}
  /\ tty \in Seq(Part)

\* The terminal receives inputs in the order of leases, and of numbers within a
\* lease; none twice, none in the middle of another, and nothing of a lease once
\* a later one has been heard: session/src/main.rs input() keeps its writer lock
\* from prepare to written.
Ordered ==
  \A i, j \in DOMAIN tty : i < j => Before(tty[i], tty[j])

\* An input reaches the terminal only after all earlier ones of its lease have
\* reached it whole: a failed write is never written past (core/src/lib.rs,
\* prepare refuses while uncertain).
NothingAfterFailure ==
  \A i \in DOMAIN tty : \A s \in 1..(tty[i].seq - 1) :
    \E d \in Data : Whole(tty[i].gen, s, d)
===============================================================================
