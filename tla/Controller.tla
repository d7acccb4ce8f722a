------------------------------ MODULE Controller ------------------------------
(***************************************************************************)
(* The controller lease of one session: core/src/lib.rs, struct Controller *)
(* and its methods.  A lease is identified by a generation that only       *)
(* grows; it numbers its inputs 1, 2, 3, ...; a window of the inputs it    *)
(* wrote lets a retry be recognised; an input whose outcome is not known   *)
(* stops the lease; a one-use ticket hands the lease over.                 *)
(*                                                                         *)
(* Each action is one method called with the controls mutex held, so it is *)
(* atomic.  An early return that changes nothing is no action: the value   *)
(* the caller then sees is PrepareVerdict or the falsity of the guard.     *)
(***************************************************************************)
EXTENDS Naturals, FiniteSets, FiniteSetsExt

CONSTANTS
  Data,           \* what an input can carry
  Weight,         \* its length in bytes, a function on Data
  MaxGeneration,  \* u64::MAX for the generation counter
  MaxSequence,    \* u64::MAX for the sequence counter
  DedupWindow,    \* DEDUP_WINDOW, how many inputs a retry can still match
  DedupBytes,     \* DEDUP_BYTES, how many of their bytes are kept
  Ticket,         \* the random tickets a holder can draw
  NoTicket        \* no offer is open

ASSUME ControllerAssumption ==
  /\ Weight \in [Data -> Nat]
  /\ MaxGeneration \in Nat
  /\ MaxSequence \in Nat
  /\ DedupWindow \in Nat \ {0}
  /\ DedupBytes \in Nat
  /\ NoTicket \notin Ticket

VARIABLES
  generation,     \* the last lease granted
  active,         \* it is still held
  lastSequence,   \* the last input it started to write
  recent,         \* the inputs of this lease a retry is matched against
  uncertain,      \* the outcome of the last one is not known
  handoff,        \* the open ticket
  overdue         \* its deadline has passed

leaseVars == <<generation, active, lastSequence, recent, uncertain>>
controllerVars == <<leaseVars, handoff, overdue>>

Generation == 0..MaxGeneration
Sequence == 0..MaxSequence
Entry == [seq : Sequence, data : Data]

ControllerInit ==
  /\ generation = 0
  /\ active = FALSE
  /\ lastSequence = 0
  /\ recent = {}
  /\ uncertain = FALSE
  /\ handoff = NoTicket
  /\ overdue = FALSE

-------------------------------------------------------------------------------
\* A request under generation g is honoured only while that lease is held.
Check(g) == active /\ g = generation

\* What acquire leaves behind once it has decided to grant.
Grant ==
  /\ generation < MaxGeneration
  /\ generation' = generation + 1
  /\ active' = TRUE
  /\ lastSequence' = 0
  /\ recent' = {}
  /\ uncertain' = FALSE
  /\ handoff' = NoTicket
  /\ overdue' = FALSE

Acquire(takeover) ==
  /\ active => takeover
  /\ Grant

\* A mutant of Release: the open ticket survives.
ReleaseKeepsTicket(g) ==
  /\ Check(g)
  /\ active' = FALSE
  /\ UNCHANGED <<generation, lastSequence, recent, uncertain, handoff, overdue>>

Release(g) ==
  /\ Check(g)
  /\ active' = FALSE
  /\ handoff' = NoTicket
  /\ overdue' = FALSE
  /\ UNCHANGED <<generation, lastSequence, recent, uncertain>>

\* A new ticket replaces the one that was open and has its own 120 seconds.
OfferHandoff(g, t) ==
  /\ Check(g)
  /\ handoff' = t
  /\ overdue' = FALSE
  /\ UNCHANGED leaseVars

CancelHandoff(g) ==
  /\ Check(g)
  /\ handoff' = NoTicket
  /\ overdue' = FALSE
  /\ UNCHANGED leaseVars

AcceptHandoff(t) ==
  /\ handoff # NoTicket
  /\ ~overdue
  /\ t = handoff
  /\ Grant

\* Presenting any ticket after the deadline closes the offer and grants nothing.
AcceptExpired ==
  /\ handoff # NoTicket
  /\ overdue
  /\ handoff' = NoTicket
  /\ overdue' = FALSE
  /\ UNCHANGED leaseVars

\* The clock passes the deadline of the open offer.
DeadlinePasses ==
  /\ handoff # NoTicket
  /\ ~overdue
  /\ overdue' = TRUE
  /\ UNCHANGED <<leaseVars, handoff>>

-------------------------------------------------------------------------------
Bytes(entries) == MapThenSumSet(LAMBDA e : Weight[e.data], entries)

\* The eviction loop drops the oldest inputs until both limits hold: what stays
\* is every input that, with the newer ones, fits.
Evict(entries) ==
  { e \in entries :
      LET kept == { f \in entries : f.seq >= e.seq }
      IN  Cardinality(kept) <= DedupWindow /\ Bytes(kept) <= DedupBytes }

\* A mutant of Recognises: the bytes of a retry are not compared.
RecognisesNumber(g, s, d) ==
  /\ Check(g)
  /\ ~uncertain
  /\ s # 0 /\ s <= lastSequence
  /\ \E e \in recent : e.seq = s

\* prepare tells a retry of an input it wrote ...
Recognises(g, s, d) ==
  /\ Check(g)
  /\ ~uncertain
  /\ s # 0 /\ s <= lastSequence
  /\ [seq |-> s, data |-> d] \in recent

\* A mutant of Accepts: the generation is not checked.
AcceptsAnyLease(g, s) ==
  /\ ~uncertain
  /\ s = lastSequence + 1
  /\ lastSequence < MaxSequence

\* ... from the next input of the lease; everything else is an error.
Accepts(g, s) ==
  /\ Check(g)
  /\ ~uncertain
  /\ s = lastSequence + 1
  /\ lastSequence < MaxSequence

\* Only an accepted input changes the lease.  Its outcome is in doubt from here.
Prepare(g, s, d) ==
  /\ Accepts(g, s)
  /\ lastSequence' = s
  /\ recent' = Evict(recent \cup {[seq |-> s, data |-> d]})
  /\ uncertain' = TRUE
  /\ UNCHANGED <<generation, active, handoff, overdue>>

\* The write ended well.  The method is not told which lease it was for.
Written ==
  /\ uncertain' = FALSE
  /\ UNCHANGED <<generation, active, lastSequence, recent, handoff, overdue>>
===============================================================================
