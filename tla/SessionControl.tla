---------------------------- MODULE SessionControl ----------------------------
(***************************************************************************)
(* The control side of a session keeper: session/src/main.rs, dispatch and *)
(* input.  One thread serves each connection.  Every control operation     *)
(* runs whole under the controls mutex, so it is one action.  An input     *)
(* does not: it takes the writer mutex, then the controls mutex to decide, *)
(* writes to the PTY with no controls mutex held, takes it again to record *)
(* the outcome, and only then drops the writer mutex.                      *)
(*                                                                         *)
(* Requests are any a client could send: a retry whose acknowledgement was *)
(* lost, an input of an old lease that arrives late, numbers out of order. *)
(***************************************************************************)
EXTENDS Controller, Sequences

CONSTANTS
  Thread,  \* connections being served
  View,    \* the names views give themselves in acquire_as
  NoView,  \* a holder that did not say who it is
  Parts,   \* how many writes a PTY needs for one input
  Nobody,  \* the writer mutex is free
  NoJob    \* for the service below: nothing is being written

ASSUME SessionControlAssumption ==
  /\ Parts \in Nat \ {0}
  /\ Nobody \notin Thread
  /\ NoView \notin View
  /\ NoJob \notin [gen : Nat, seq : Nat, data : Data, sent : Nat]

VARIABLES
  pc,         \* where each input thread stands
  req,        \* the input it serves, or served last
  sent,       \* the parts of it that are written
  reply,      \* what it answered last
  writer,     \* the thread that holds the writer mutex
  pty,        \* the parts the PTY received, in order
  exited,     \* the child is gone
  presHeld,   \* Presence.held
  presName,   \* Presence.controller
  presInput,  \* Presence.last_input_ms is known
  lessee,     \* history: who was granted the current lease
  offeredBy   \* history: the lease under which each ticket was drawn

threadVars == <<pc, req, sent, reply, writer, pty>>
presenceVars == <<presHeld, presName, presInput, lessee>>
vars == <<controllerVars, threadVars, exited, presenceVars, offeredBy>>

Request == [gen : Generation, seq : Sequence, data : Data]
Part == [gen : Generation, seq : Sequence, data : Data, part : 1..Parts]
Reply == {"none", "written", "duplicate", "refused", "blocked", "unknown"}

Init ==
  /\ ControllerInit
  /\ pc = [t \in Thread |-> "idle"]
  /\ req \in [Thread -> { r \in Request : r.gen = 0 /\ r.seq = 0 }]
  /\ sent = [t \in Thread |-> 0]
  /\ reply = [t \in Thread |-> "none"]
  /\ writer = Nobody
  /\ pty = <<>>
  /\ exited = FALSE
  /\ presHeld = FALSE
  /\ presName = NoView
  /\ presInput = FALSE
  /\ lessee = NoView
  /\ offeredBy = [t \in Ticket |-> 0]

-------------------------------------------------------------------------------
(* Control operations: the catch-all arm of dispatch.                      *)

\* Acquire (v = NoView) and AcquireAs: a grant is announced to presence.
TakeControl(v, takeover) ==
  /\ Acquire(takeover)
  /\ presHeld' = TRUE
  /\ presName' = v
  /\ presInput' = TRUE
  /\ lessee' = v
  /\ UNCHANGED <<threadVars, exited, offeredBy>>

ReleaseControl(g) ==
  /\ Release(g)
  /\ presHeld' = FALSE
  /\ presName' = NoView
  /\ presInput' = FALSE
  /\ UNCHANGED <<lessee, threadVars, exited, offeredBy>>

\* A ticket is drawn at random; one drawn before is never drawn again.
DrawTicket(g, t) ==
  /\ offeredBy[t] = 0
  /\ OfferHandoff(g, t)
  /\ offeredBy' = [offeredBy EXCEPT ![t] = g]
  /\ UNCHANGED <<threadVars, exited, presenceVars>>

WithdrawTicket(g) ==
  /\ CancelHandoff(g)
  /\ UNCHANGED <<threadVars, exited, presenceVars, offeredBy>>

\* The lease goes to whoever shows the ticket; presence is not told.
RedeemTicket(t) ==
  /\ AcceptHandoff(t)
  /\ lessee' = NoView
  /\ UNCHANGED <<presHeld, presName, presInput, threadVars, exited, offeredBy>>

RedeemTooLate ==
  /\ AcceptExpired
  /\ UNCHANGED <<threadVars, exited, presenceVars, offeredBy>>

OfferDeadline ==
  /\ DeadlinePasses
  /\ UNCHANGED <<threadVars, exited, presenceVars, offeredBy>>

-------------------------------------------------------------------------------
(* An input, thread t.                                                     *)

Arrive(t, r) ==
  /\ pc[t] = "idle"
  /\ ~exited
  /\ pc' = [pc EXCEPT ![t] = "waiting"]
  /\ req' = [req EXCEPT ![t] = r]
  /\ reply' = [reply EXCEPT ![t] = "none"]
  /\ sent' = [sent EXCEPT ![t] = 0]
  /\ UNCHANGED <<controllerVars, writer, pty, exited, presenceVars, offeredBy>>

\* One round of the try_lock loop ends it: the mutex is free ...
TakeWriter(t) ==
  /\ pc[t] = "waiting"
  /\ writer = Nobody
  /\ writer' = t
  /\ pc' = [pc EXCEPT ![t] = "deciding"]
  /\ UNCHANGED <<controllerVars, req, sent, reply, pty, exited, presenceVars, offeredBy>>

\* A mutant of GiveUp: the wait has no deadline.
WaitOn(t) ==
  /\ pc[t] = "waiting"
  /\ writer # Nobody
  /\ UNCHANGED vars

\* ... or it is held and the second is over.
GiveUp(t) ==
  /\ pc[t] = "waiting"
  /\ writer # Nobody
  /\ pc' = [pc EXCEPT ![t] = "idle"]
  /\ reply' = [reply EXCEPT ![t] = "blocked"]
  /\ UNCHANGED <<controllerVars, req, sent, writer, pty, exited, presenceVars, offeredBy>>

\* The thread answers and drops the writer mutex it holds.
Answer(t, what) ==
  /\ pc' = [pc EXCEPT ![t] = "idle"]
  /\ reply' = [reply EXCEPT ![t] = what]
  /\ writer' = Nobody

\* A mutant of StartWrite: the writer mutex is dropped before the write.
StartWriteUnlocked(t) ==
  /\ pc[t] = "deciding"
  /\ Prepare(req[t].gen, req[t].seq, req[t].data)
  /\ pc' = [pc EXCEPT ![t] = "writing"]
  /\ writer' = Nobody
  /\ UNCHANGED <<req, sent, reply, pty, exited, presenceVars, offeredBy>>

StartWrite(t) ==
  /\ pc[t] = "deciding"
  /\ Prepare(req[t].gen, req[t].seq, req[t].data)
  /\ pc' = [pc EXCEPT ![t] = "writing"]
  /\ UNCHANGED <<req, sent, reply, writer, pty, exited, presenceVars, offeredBy>>

AnswerRetry(t) ==
  /\ pc[t] = "deciding"
  /\ Recognises(req[t].gen, req[t].seq, req[t].data)
  /\ Answer(t, "duplicate")
  /\ UNCHANGED <<controllerVars, req, sent, pty, exited, presenceVars, offeredBy>>

Refuse(t) ==
  /\ pc[t] = "deciding"
  /\ ~Accepts(req[t].gen, req[t].seq)
  /\ ~Recognises(req[t].gen, req[t].seq, req[t].data)
  /\ Answer(t, "refused")
  /\ UNCHANGED <<controllerVars, req, sent, pty, exited, presenceVars, offeredBy>>

WritePart(t) ==
  /\ pc[t] = "writing"
  /\ sent[t] < Parts
  /\ pty' = Append(pty, [gen |-> req[t].gen, seq |-> req[t].seq,
                         data |-> req[t].data, part |-> sent[t] + 1])
  /\ sent' = [sent EXCEPT ![t] = @ + 1]
  /\ UNCHANGED <<controllerVars, pc, req, reply, writer, exited, presenceVars, offeredBy>>

\* A mutant of WriteFails: the doubt is lifted whatever the write returned.
WriteFailsSettled(t) ==
  /\ pc[t] = "writing"
  /\ Written
  /\ Answer(t, "unknown")
  /\ UNCHANGED <<req, sent, pty, exited, presenceVars, offeredBy>>

\* write_all or flush returns an error, whatever has been written by then.
WriteFails(t) ==
  /\ pc[t] = "writing"
  /\ Answer(t, "unknown")
  /\ UNCHANGED <<controllerVars, req, sent, pty, exited, presenceVars, offeredBy>>

RecordWritten(t) ==
  /\ pc[t] = "writing"
  /\ sent[t] = Parts
  /\ Written
  /\ pc' = [pc EXCEPT ![t] = "recorded"]
  /\ UNCHANGED <<req, sent, reply, writer, pty, exited, presenceVars, offeredBy>>

Acknowledge(t) ==
  /\ pc[t] = "recorded"
  /\ presInput' = TRUE
  /\ Answer(t, "written")
  /\ UNCHANGED <<controllerVars, req, sent, pty, exited, presHeld, presName, lessee, offeredBy>>

ChildExits ==
  /\ ~exited
  /\ exited' = TRUE
  /\ UNCHANGED <<controllerVars, threadVars, presenceVars, offeredBy>>

Control ==
  \/ \E v \in View \cup {NoView}, takeover \in BOOLEAN : TakeControl(v, takeover)
  \/ \E g \in Generation : ReleaseControl(g) \/ WithdrawTicket(g)
  \/ \E g \in Generation, t \in Ticket : DrawTicket(g, t)
  \/ \E t \in Ticket : RedeemTicket(t)
  \/ RedeemTooLate \/ OfferDeadline

\* A step of the thread itself, as opposed to the PTY's or the client's.
Serve(t) ==
  \/ TakeWriter(t) \/ GiveUp(t)
  \/ StartWrite(t) \/ AnswerRetry(t) \/ Refuse(t)
  \/ RecordWritten(t) \/ Acknowledge(t)

Next ==
  \/ Control \/ ChildExits
  \/ \E t \in Thread :
       \/ Serve(t) \/ WritePart(t) \/ WriteFails(t)
       \/ \E r \in Request : Arrive(t, r)

Spec == Init /\ [][Next]_vars

\* The keeper's threads run; nothing is assumed of the child that reads the PTY.
ServeFair == \A t \in Thread : WF_vars(Serve(t))
FairSpec == Spec /\ ServeFair

\* The child reads its input, or is gone and the write fails: assumed of nobody,
\* but the premise of EveryInputAnswered.
PtyFair == \A t \in Thread : WF_vars(WritePart(t) \/ WriteFails(t))

-------------------------------------------------------------------------------
TypeOK ==
  /\ generation \in Generation
  /\ active \in BOOLEAN
  /\ lastSequence \in Sequence
  /\ recent \subseteq Entry
  /\ uncertain \in BOOLEAN
  /\ handoff \in Ticket \cup {NoTicket}
  /\ overdue \in BOOLEAN
  /\ pc \in [Thread -> {"idle", "waiting", "deciding", "writing", "recorded"}]
  /\ req \in [Thread -> Request]
  /\ sent \in [Thread -> 0..Parts]
  /\ reply \in [Thread -> Reply]
  /\ writer \in Thread \cup {Nobody}
  /\ pty \in Seq(Part)
  /\ exited \in BOOLEAN
  /\ presHeld \in BOOLEAN
  /\ presName \in View \cup {NoView}
  /\ presInput \in BOOLEAN
  /\ lessee \in View \cup {NoView}
  /\ offeredBy \in [Ticket -> Generation]

\* The input being written, as the service sees it.
Writing(t) == pc[t] = "writing"
CurrentJob ==
  IF writer \in Thread /\ Writing(writer)
    THEN [gen |-> req[writer].gen, seq |-> req[writer].seq,
          data |-> req[writer].data, sent |-> sent[writer]]
    ELSE NoJob
Failed == uncertain /\ ~(writer \in Thread /\ Writing(writer))

Service == INSTANCE FencedInput WITH
  lease <- generation, held <- active, next <- lastSequence + 1,
  stopped <- Failed, job <- CurrentJob, tty <- pty

\* Threads, mutexes and the retry window amount to the fenced input service: an
\* input starts only under the lease that is current at that moment, and one
\* input is written at a time.
ImplementsService == Service!FencedSpec

\* The bytes reach the PTY in lease and sequence order, no input twice and none
\* inside another (input() holds the writer mutex from prepare to written).
InputsInOrder == Service!Ordered

\* After a write that failed, nothing more of that lease is written.
NothingAfterFailure == Service!NothingAfterFailure

\* "written" and "duplicate" are said only of inputs the PTY has received whole
\* and with the very bytes the request carried.
AckedIsWritten ==
  \A t \in Thread : reply[t] \in {"written", "duplicate"} =>
    Service!Whole(req[t].gen, req[t].seq, req[t].data)

\* An open ticket was drawn under the lease in force, so a takeover, a release
\* or a redemption voids it and no ticket moves the lease twice.
TicketOfHolder ==
  handoff # NoTicket => active /\ offeredBy[handoff] = generation

\* An input leaves the queue for the writer mutex even if the child never reads:
\* it is answered "blocked" after a second.
NotStuckBehindWriter ==
  \A t \in Thread : pc[t] = "waiting" ~> pc[t] # "waiting"

\* Every input is answered if the PTY takes bytes or fails.
EveryInputAnswered ==
  PtyFair => \A t \in Thread : pc[t] # "idle" ~> pc[t] = "idle"

\* A program that does not read its input holds nobody up for ever but its writer.
InputsAnswered == NotStuckBehindWriter /\ EveryInputAnswered

-------------------------------------------------------------------------------
\* core/src/lib.rs:274 and docs/CONTINUITY.md:358: presence shows which device
\* has control.
PresenceNamesHolder == presHeld => presName = lessee

\* docs/protocol.md:23: while an input write is blocked, control mutations
\* return busy.
BusyWhileWriting ==
  [][(\E t \in Thread : pc[t] = "writing") => UNCHANGED <<generation, active, handoff>>]_vars

\* docs/protocol.md:24: a failed write leaves the outcome uncertain until an
\* explicit takeover, that is until a held lease is taken.
DoubtUntilTakeover ==
  [][Failed /\ ~uncertain' => active]_vars
===============================================================================
