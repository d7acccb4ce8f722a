------------------------- MODULE SessionControlProofs -------------------------
(***************************************************************************)
(* The keeper's control side implements FencedInput for any number of      *)
(* connections, payloads, generations and tickets.  The argument is that   *)
(* the writer mutex outlives the write: LockInv says who holds it,         *)
(* WriteInv what the lease looks like while an input is being written.     *)
(***************************************************************************)
EXTENDS SessionControl, TLAPS

\* The type invariant in two halves, one for each prover.
Flags ==
  /\ active \in BOOLEAN /\ uncertain \in BOOLEAN /\ overdue \in BOOLEAN
  /\ exited \in BOOLEAN /\ presHeld \in BOOLEAN /\ presInput \in BOOLEAN
LeaseTypes ==
  /\ generation \in Generation
  /\ lastSequence \in Sequence
  /\ recent \subseteq Entry
  /\ handoff \in Ticket \cup {NoTicket}
  /\ presName \in View \cup {NoView}
  /\ lessee \in View \cup {NoView}
  /\ offeredBy \in [Ticket -> Generation]
ThreadTypes ==
  /\ pc \in [Thread -> {"idle", "waiting", "deciding", "writing", "recorded"}]
  /\ req \in [Thread -> Request]
  /\ sent \in [Thread -> 0..Parts]
  /\ reply \in [Thread -> Reply]
  /\ writer \in Thread \cup {Nobody}
  /\ pty \in Seq(Part)

LEMMA TypeHalves == TypeOK <=> Flags /\ LeaseTypes /\ ThreadTypes
BY Zenon DEF TypeOK, Flags, LeaseTypes, ThreadTypes

\* The eviction loop only drops entries.
LEMMA EvictDrops == ASSUME NEW entries PROVE Evict(entries) \subseteq entries
BY DEF Evict

LEMMA GrantTypes ==
  ASSUME Flags, LeaseTypes, Grant
  PROVE  /\ generation' \in Generation /\ lastSequence' \in Sequence
         /\ recent' \subseteq Entry /\ handoff' \in Ticket \cup {NoTicket}
         /\ active' \in BOOLEAN /\ uncertain' \in BOOLEAN /\ overdue' \in BOOLEAN
<1>1. generation' \in Generation /\ lastSequence' \in Sequence
  BY ControllerAssumption DEF Grant, LeaseTypes, Generation, Sequence
<1>2. recent' \subseteq Entry /\ handoff' \in Ticket \cup {NoTicket}
  BY DEF Grant
<1>3. active' \in BOOLEAN /\ uncertain' \in BOOLEAN /\ overdue' \in BOOLEAN
  BY Zenon DEF Grant
<1> QED BY <1>1, <1>2, <1>3

\* The types of the keeper's state: what every other invariant is stated over.
THEOREM Typing == Spec => []TypeOK
<1>1. Init => TypeOK
  <2> SUFFICES ASSUME Init PROVE Flags /\ LeaseTypes /\ ThreadTypes
    BY TypeHalves
  <2>1. Flags BY Zenon DEF Init, ControllerInit, Flags
  <2>2. LeaseTypes
    BY ControllerAssumption DEF Init, ControllerInit, LeaseTypes, Generation, Sequence
  <2>3. ThreadTypes
    BY SessionControlAssumption DEF Init, ThreadTypes, Reply
  <2> QED BY <2>1, <2>2, <2>3
<1>2. TypeOK /\ [Next]_vars => TypeOK'
  <2> SUFFICES ASSUME Flags, LeaseTypes, ThreadTypes, [Next]_vars
               PROVE  Flags' /\ LeaseTypes' /\ ThreadTypes'
    BY Zenon DEF TypeOK, Flags, LeaseTypes, ThreadTypes
  <2>1. ASSUME NEW v \in View \cup {NoView}, NEW takeover \in BOOLEAN, TakeControl(v, takeover)
        PROVE  Flags' /\ LeaseTypes' /\ ThreadTypes'
    <3>1. Grant BY <2>1 DEF TakeControl, Acquire
    <3>2. Flags' BY <2>1, <3>1, GrantTypes, Zenon DEF TakeControl, Flags
    <3>3. LeaseTypes' BY <2>1, <3>1, GrantTypes DEF TakeControl, LeaseTypes
    <3>4. ThreadTypes' BY <2>1 DEF TakeControl, threadVars, ThreadTypes
    <3> QED BY <3>2, <3>3, <3>4
  <2>2. ASSUME NEW g \in Generation, ReleaseControl(g)
        PROVE  Flags' /\ LeaseTypes' /\ ThreadTypes'
    <3>1. Flags' BY <2>2, Zenon DEF ReleaseControl, Release, Flags
    <3>2. LeaseTypes' BY <2>2 DEF ReleaseControl, Release, LeaseTypes
    <3>3. ThreadTypes' BY <2>2 DEF ReleaseControl, threadVars, ThreadTypes
    <3> QED BY <3>1, <3>2, <3>3
  <2>3. ASSUME NEW g \in Generation, WithdrawTicket(g)
        PROVE  Flags' /\ LeaseTypes' /\ ThreadTypes'
    <3>1. Flags' BY <2>3, Zenon DEF WithdrawTicket, CancelHandoff, leaseVars, presenceVars, Flags
    <3>2. LeaseTypes' BY <2>3 DEF WithdrawTicket, CancelHandoff, leaseVars, presenceVars, LeaseTypes
    <3>3. ThreadTypes' BY <2>3 DEF WithdrawTicket, threadVars, ThreadTypes
    <3> QED BY <3>1, <3>2, <3>3
  <2>4. ASSUME NEW g \in Generation, NEW t \in Ticket, DrawTicket(g, t)
        PROVE  Flags' /\ LeaseTypes' /\ ThreadTypes'
    <3>1. Flags' BY <2>4, Zenon DEF DrawTicket, OfferHandoff, leaseVars, presenceVars, Flags
    <3>2. LeaseTypes' BY <2>4 DEF DrawTicket, OfferHandoff, leaseVars, presenceVars, LeaseTypes
    <3>3. ThreadTypes' BY <2>4 DEF DrawTicket, threadVars, ThreadTypes
    <3> QED BY <3>1, <3>2, <3>3
  <2>5. ASSUME NEW t \in Ticket, RedeemTicket(t)
        PROVE  Flags' /\ LeaseTypes' /\ ThreadTypes'
    <3>1. Grant BY <2>5 DEF RedeemTicket, AcceptHandoff
    <3>2. Flags' BY <2>5, <3>1, GrantTypes, Zenon DEF RedeemTicket, Flags
    <3>3. LeaseTypes' BY <2>5, <3>1, GrantTypes DEF RedeemTicket, LeaseTypes
    <3>4. ThreadTypes' BY <2>5 DEF RedeemTicket, threadVars, ThreadTypes
    <3> QED BY <3>2, <3>3, <3>4
  <2>6. CASE RedeemTooLate \/ OfferDeadline
    <3>1. Flags' BY <2>6, Zenon DEF RedeemTooLate, OfferDeadline, AcceptExpired, DeadlinePasses,
                                    leaseVars, presenceVars, Flags
    <3>2. LeaseTypes' BY <2>6 DEF RedeemTooLate, OfferDeadline, AcceptExpired, DeadlinePasses,
                                  leaseVars, presenceVars, LeaseTypes
    <3>3. ThreadTypes' BY <2>6 DEF RedeemTooLate, OfferDeadline, threadVars, ThreadTypes
    <3> QED BY <3>1, <3>2, <3>3
  <2>7. CASE ChildExits
    <3>1. Flags' BY <2>7, Zenon DEF ChildExits, controllerVars, leaseVars, presenceVars, Flags
    <3>2. LeaseTypes' BY <2>7 DEF ChildExits, controllerVars, leaseVars, presenceVars, LeaseTypes
    <3>3. ThreadTypes' BY <2>7 DEF ChildExits, threadVars, ThreadTypes
    <3> QED BY <3>1, <3>2, <3>3
  <2>8. ASSUME NEW t \in Thread,
               \/ TakeWriter(t) \/ GiveUp(t) \/ AnswerRetry(t) \/ Refuse(t)
               \/ WritePart(t) \/ WriteFails(t) \/ (\E r \in Request : Arrive(t, r))
        PROVE  Flags' /\ LeaseTypes' /\ ThreadTypes'
    <3> USE DEF TakeWriter, GiveUp, AnswerRetry, Refuse, WritePart, WriteFails, Arrive, Answer
    <3>1. UNCHANGED <<controllerVars, exited, presenceVars, offeredBy>>
      BY <2>8, Zenon
    <3>2. Flags' BY <3>1, Zenon DEF controllerVars, leaseVars, presenceVars, Flags
    <3>3. LeaseTypes' BY <3>1 DEF controllerVars, leaseVars, presenceVars, LeaseTypes
    <3>4. CASE WritePart(t)
      <4>1. sent[t] + 1 \in 1..Parts
        BY <3>4, SessionControlAssumption DEF ThreadTypes
      <4>2. [gen |-> req[t].gen, seq |-> req[t].seq, data |-> req[t].data,
             part |-> sent[t] + 1] \in Part
        BY <4>1 DEF ThreadTypes, Request, Part
      <4>3. pty' \in Seq(Part) BY <3>4, <4>2 DEF ThreadTypes
      <4> QED BY <3>4, <4>1, <4>3, <3>2, <3>3 DEF ThreadTypes
    <3>5. CASE TakeWriter(t) \/ GiveUp(t) \/ AnswerRetry(t) \/ Refuse(t) \/ WriteFails(t)
      BY <3>5, <3>2, <3>3 DEF ThreadTypes, Reply
    <3>6. ASSUME NEW r \in Request, Arrive(t, r) PROVE ThreadTypes'
      BY <3>6, SessionControlAssumption DEF ThreadTypes, Reply
    <3> QED BY <2>8, <3>2, <3>3, <3>4, <3>5, <3>6
  <2>9. ASSUME NEW t \in Thread, StartWrite(t)
        PROVE  Flags' /\ LeaseTypes' /\ ThreadTypes'
    <3>1. Flags'
      BY <2>9, Zenon DEF StartWrite, Prepare, presenceVars, Flags
    <3>2. req[t] \in Request BY DEF ThreadTypes
    <3>3. [seq |-> req[t].seq, data |-> req[t].data] \in Entry
      BY <3>2 DEF Request, Entry
    <3>4. recent' \subseteq Entry
      BY <2>9, <3>3, EvictDrops DEF StartWrite, Prepare, LeaseTypes
    <3>5. LeaseTypes'
      BY <2>9, <3>2, <3>4 DEF StartWrite, Prepare, presenceVars, LeaseTypes, Request
    <3>6. ThreadTypes' BY <2>9 DEF StartWrite, ThreadTypes
    <3> QED BY <3>1, <3>5, <3>6
  <2>10. ASSUME NEW t \in Thread, RecordWritten(t)
         PROVE  Flags' /\ LeaseTypes' /\ ThreadTypes'
    <3>1. Flags' BY <2>10, Zenon DEF RecordWritten, Written, presenceVars, Flags
    <3>2. LeaseTypes' BY <2>10 DEF RecordWritten, Written, presenceVars, LeaseTypes
    <3>3. ThreadTypes' BY <2>10 DEF RecordWritten, ThreadTypes
    <3> QED BY <3>1, <3>2, <3>3
  <2>11. ASSUME NEW t \in Thread, Acknowledge(t)
         PROVE  Flags' /\ LeaseTypes' /\ ThreadTypes'
    <3>1. Flags' BY <2>11, Zenon DEF Acknowledge, controllerVars, leaseVars, Flags
    <3>2. LeaseTypes' BY <2>11 DEF Acknowledge, controllerVars, leaseVars, LeaseTypes
    <3>3. ThreadTypes' BY <2>11 DEF Acknowledge, Answer, ThreadTypes, Reply
    <3> QED BY <3>1, <3>2, <3>3
  <2>12. CASE UNCHANGED vars
    BY <2>12, Zenon DEF vars, controllerVars, leaseVars, threadVars, presenceVars,
                        Flags, LeaseTypes, ThreadTypes
  <2> QED BY <2>1, <2>2, <2>3, <2>4, <2>5, <2>6, <2>7, <2>8, <2>9, <2>10, <2>11, <2>12
          DEF Next, Control, Serve
<1> QED BY <1>1, <1>2, PTL DEF Spec

-------------------------------------------------------------------------------
\* The writer mutex is held from the decision to the answer.
LockInv ==
  \A t \in Thread : pc[t] \in {"deciding", "writing", "recorded"} <=> writer = t

\* Nothing of an input is written before it is decided upon.
FreshInv ==
  \A t \in Thread : pc[t] \in {"waiting", "deciding"} => sent[t] = 0

\* While an input is being written the lease is either still its own, with this
\* input as the last one and in doubt, or a later one that has not written yet.
WriteInv ==
  \A t \in Thread : pc[t] = "writing" =>
    /\ req[t].gen <= generation
    /\ uncertain <=> req[t].gen = generation
    /\ req[t].gen = generation => req[t].seq = lastSequence

KeeperInv == LockInv /\ FreshInv /\ WriteInv

\* A control operation moves no thread.
LEMMA ControlKeepsThreads ==
  ASSUME LeaseTypes, ThreadTypes, Control
  PROVE  /\ UNCHANGED threadVars
         /\ \/ Grant
            \/ UNCHANGED <<generation, lastSequence, recent, uncertain>>
<1>1. ASSUME NEW v \in View \cup {NoView}, NEW takeover \in BOOLEAN, TakeControl(v, takeover)
      PROVE  UNCHANGED threadVars /\ Grant
  BY <1>1, Zenon DEF TakeControl, Acquire
<1>2. ASSUME NEW g \in Generation, ReleaseControl(g) \/ WithdrawTicket(g)
      PROVE  UNCHANGED threadVars /\ UNCHANGED <<generation, lastSequence, recent, uncertain>>
  BY <1>2, Zenon DEF ReleaseControl, WithdrawTicket, Release, CancelHandoff, leaseVars
<1>3. ASSUME NEW g \in Generation, NEW t \in Ticket, DrawTicket(g, t)
      PROVE  UNCHANGED threadVars /\ UNCHANGED <<generation, lastSequence, recent, uncertain>>
  BY <1>3, Zenon DEF DrawTicket, OfferHandoff, leaseVars
<1>4. ASSUME NEW t \in Ticket, RedeemTicket(t)
      PROVE  UNCHANGED threadVars /\ Grant
  BY <1>4, Zenon DEF RedeemTicket, AcceptHandoff
<1>5. ASSUME RedeemTooLate \/ OfferDeadline
      PROVE  UNCHANGED threadVars /\ UNCHANGED <<generation, lastSequence, recent, uncertain>>
  BY <1>5, Zenon DEF RedeemTooLate, OfferDeadline, AcceptExpired, DeadlinePasses, leaseVars
<1> QED BY <1>1, <1>2, <1>3, <1>4, <1>5 DEF Control

LEMMA KeeperInductive == Spec => []KeeperInv
<1>1. Init => KeeperInv
  BY SessionControlAssumption DEF Init, KeeperInv, LockInv, FreshInv, WriteInv
<1>2. TypeOK /\ KeeperInv /\ [Next]_vars => KeeperInv'
  <2> SUFFICES ASSUME LeaseTypes, ThreadTypes, KeeperInv, [Next]_vars PROVE KeeperInv'
    BY Zenon DEF TypeOK, LeaseTypes, ThreadTypes
  <2> USE DEF KeeperInv
  <2>1. CASE Control
    <3>1. UNCHANGED threadVars BY <2>1, ControlKeepsThreads
    <3>2. LockInv' /\ FreshInv' BY <3>1 DEF threadVars, LockInv, FreshInv
    <3>3. WriteInv'
      <4> SUFFICES ASSUME NEW t \in Thread, pc[t] = "writing"
                   PROVE  /\ req[t].gen <= generation'
                          /\ uncertain' <=> req[t].gen = generation'
                          /\ req[t].gen = generation' => req[t].seq = lastSequence'
        BY <3>1 DEF threadVars, WriteInv
      <4>1. /\ req[t].gen <= generation
            /\ uncertain <=> req[t].gen = generation
            /\ req[t].gen = generation => req[t].seq = lastSequence
        BY DEF WriteInv
      <4>2. req[t].gen \in Nat /\ generation \in Nat
        BY ControllerAssumption DEF ThreadTypes, LeaseTypes, Request, Generation
      <4>3. CASE Grant BY <4>1, <4>2, <4>3 DEF Grant
      <4>4. CASE UNCHANGED <<generation, lastSequence, recent, uncertain>>
        BY <4>1, <4>4
      <4> QED BY <2>1, <4>3, <4>4, ControlKeepsThreads
    <3> QED BY <3>2, <3>3
  <2>2. CASE ChildExits
    BY <2>2 DEF ChildExits, controllerVars, leaseVars, threadVars, LockInv, FreshInv, WriteInv
  <2>3. ASSUME NEW t \in Thread, NEW r \in Request, Arrive(t, r) PROVE KeeperInv'
    BY <2>3 DEF Arrive, controllerVars, leaseVars, ThreadTypes, LockInv, FreshInv, WriteInv
  <2>4. ASSUME NEW t \in Thread, TakeWriter(t) PROVE KeeperInv'
    BY <2>4, SessionControlAssumption
       DEF TakeWriter, controllerVars, leaseVars, ThreadTypes, LockInv, FreshInv, WriteInv
  <2>5. ASSUME NEW t \in Thread, GiveUp(t) PROVE KeeperInv'
    BY <2>5 DEF GiveUp, controllerVars, leaseVars, ThreadTypes, LockInv, FreshInv, WriteInv
  <2>6. ASSUME NEW t \in Thread,
               AnswerRetry(t) \/ Refuse(t) \/ WriteFails(t) \/ Acknowledge(t)
        PROVE  KeeperInv'
    BY <2>6, SessionControlAssumption
       DEF AnswerRetry, Refuse, WriteFails, Acknowledge, Answer,
           controllerVars, leaseVars, ThreadTypes, LockInv, FreshInv, WriteInv
  <2>7. ASSUME NEW t \in Thread, StartWrite(t) PROVE KeeperInv'
    BY <2>7, ControllerAssumption
       DEF StartWrite, Prepare, Accepts, Check, LeaseTypes, Generation,
           ThreadTypes, LockInv, FreshInv, WriteInv
  <2>8. ASSUME NEW t \in Thread, WritePart(t) PROVE KeeperInv'
    BY <2>8 DEF WritePart, controllerVars, leaseVars, ThreadTypes, LockInv, FreshInv, WriteInv
  <2>9. ASSUME NEW t \in Thread, RecordWritten(t) PROVE KeeperInv'
    BY <2>9 DEF RecordWritten, Written, ThreadTypes, LockInv, FreshInv, WriteInv
  <2>10. CASE UNCHANGED vars
    BY <2>10 DEF vars, controllerVars, leaseVars, threadVars, LockInv, FreshInv, WriteInv
  <2> QED BY <2>1, <2>2, <2>3, <2>4, <2>5, <2>6, <2>7, <2>8, <2>9, <2>10 DEF Next, Serve
<1> QED BY <1>1, <1>2, Typing, PTL DEF Spec

-------------------------------------------------------------------------------
\* What the service's job is, from where the threads stand.
LEMMA JobOfWriter ==
  ASSUME KeeperInv, NEW t \in Thread, pc[t] = "writing"
  PROVE  /\ CurrentJob = [gen |-> req[t].gen, seq |-> req[t].seq,
                           data |-> req[t].data, sent |-> sent[t]]
         /\ ~Failed
BY DEF KeeperInv, LockInv, CurrentJob, Failed, Writing

LEMMA NoJobOtherwise ==
  ASSUME KeeperInv, \A t \in Thread : pc[t] # "writing"
  PROVE  CurrentJob = NoJob /\ (Failed <=> uncertain)
BY DEF CurrentJob, Failed, Writing

\* At most one thread is past its decision.
LEMMA OneWriter ==
  ASSUME KeeperInv, NEW t \in Thread, NEW u \in Thread,
         pc[t] \in {"deciding", "writing", "recorded"}, pc[u] = "writing"
  PROVE  t = u
BY DEF KeeperInv, LockInv

\* An input being written is not the value that stands for none.
LEMMA JobIsNoJob ==
  ASSUME NEW r \in Request, NEW n \in Nat
  PROVE  [gen |-> r.gen, seq |-> r.seq, data |-> r.data, sent |-> n] # NoJob
BY SessionControlAssumption, ControllerAssumption DEF Request, Generation, Sequence

LEMMA InitImplements == Init => Service!FencedInit
BY SessionControlAssumption
   DEF Init, ControllerInit, Service!FencedInit, CurrentJob, Failed

\* A grant begins a lease; every other control operation leaves the input
\* service alone or ends its lease.
LEMMA ControlImplements ==
  ASSUME LeaseTypes, ThreadTypes, KeeperInv, Control
  PROVE  [Service!FencedNext]_Service!fencedVars
<1> USE DEF Service!fencedVars
<1>1. UNCHANGED threadVars BY ControlKeepsThreads
<1>2. UNCHANGED <<CurrentJob, pty>>
  BY <1>1 DEF threadVars, CurrentJob, Writing
<1>3. ASSUME Grant PROVE Service!NewLease
  BY <1>1, <1>2, <1>3 DEF Grant, Service!NewLease, Failed, threadVars
<1>4. ASSUME NEW v \in View \cup {NoView}, NEW takeover \in BOOLEAN, TakeControl(v, takeover)
      PROVE  Service!NewLease
  BY <1>3, <1>4 DEF TakeControl, Acquire
<1>5. ASSUME NEW t \in Ticket, RedeemTicket(t) PROVE Service!NewLease
  BY <1>3, <1>5 DEF RedeemTicket, AcceptHandoff
<1>6. ASSUME NEW g \in Generation, ReleaseControl(g) PROVE Service!EndLease
  BY <1>1, <1>2, <1>6
     DEF ReleaseControl, Release, Check, Service!EndLease, Failed, threadVars, Writing
<1>7. ASSUME UNCHANGED leaseVars PROVE UNCHANGED Service!fencedVars
  BY <1>1, <1>2, <1>7 DEF leaseVars, Failed, threadVars, Writing
<1>8. ASSUME NEW g \in Generation, WithdrawTicket(g) PROVE UNCHANGED leaseVars
  BY <1>8 DEF WithdrawTicket, CancelHandoff
<1>9. ASSUME NEW g \in Generation, NEW t \in Ticket, DrawTicket(g, t)
      PROVE  UNCHANGED leaseVars
  BY <1>9 DEF DrawTicket, OfferHandoff
<1>10. ASSUME RedeemTooLate \/ OfferDeadline PROVE UNCHANGED leaseVars
  BY <1>10 DEF RedeemTooLate, OfferDeadline, AcceptExpired, DeadlinePasses
<1> QED BY <1>4, <1>5, <1>6, <1>7, <1>8, <1>9, <1>10 DEF Control, Service!FencedNext

\* The steps of an input other than its start, its parts and its outcome are
\* not seen by the service.
Unseen(t) ==
  \/ pc[t] # "writing" /\ pc'[t] # "writing"
  \/ pc[t] = "writing" /\ pc'[t] = "writing" /\ req'[t] = req[t] /\ sent'[t] = sent[t]

LEMMA SilentStep ==
  ASSUME KeeperInv, KeeperInv', UNCHANGED leaseVars, UNCHANGED pty,
         \A t \in Thread : Unseen(t)
  PROVE  UNCHANGED Service!fencedVars
<1>1. CASE \E t \in Thread : pc[t] = "writing"
  <2>1. PICK t \in Thread : pc[t] = "writing" BY <1>1
  <2>2. writer = t /\ writer' = t BY <2>1 DEF KeeperInv, LockInv, Unseen
  <2>3. CurrentJob' = CurrentJob /\ Failed' = Failed
    BY <2>1, <2>2 DEF CurrentJob, Failed, Writing, leaseVars, Unseen
  <2> QED BY <2>3 DEF leaseVars, Service!fencedVars
<1>2. CASE \A t \in Thread : pc[t] # "writing"
  BY <1>2 DEF Unseen, CurrentJob, Failed, Writing, leaseVars, Service!fencedVars
<1> QED BY <1>1, <1>2

LEMMA StepImplements ==
  ASSUME LeaseTypes, ThreadTypes, KeeperInv, KeeperInv', [Next]_vars
  PROVE  [Service!FencedNext]_Service!fencedVars
<1>1. CASE Control BY <1>1, ControlImplements
<1>2. CASE ChildExits \/ UNCHANGED vars
  <2>1. UNCHANGED leaseVars /\ UNCHANGED pty
    BY <1>2 DEF ChildExits, vars, controllerVars, leaseVars, threadVars
  <2>2. \A t \in Thread : Unseen(t)
    BY <1>2 DEF ChildExits, vars, threadVars, Unseen
  <2>3. UNCHANGED Service!fencedVars BY <2>1, <2>2, SilentStep
  <2> QED BY <2>3
<1>3. ASSUME NEW t \in Thread,
             TakeWriter(t) \/ GiveUp(t) \/ AnswerRetry(t) \/ Refuse(t) \/ Acknowledge(t)
                \/ \E r \in Request : Arrive(t, r)
      PROVE  UNCHANGED Service!fencedVars
  <2> USE DEF TakeWriter, GiveUp, AnswerRetry, Refuse, Acknowledge, Arrive, Answer
  <2>1. UNCHANGED leaseVars /\ UNCHANGED pty
    BY <1>3 DEF controllerVars, leaseVars
  <2>2. pc[t] # "writing" /\ pc'[t] # "writing"
    BY <1>3 DEF ThreadTypes
  <2>3. \A u \in Thread \ {t} : pc'[u] = pc[u] /\ req'[u] = req[u] /\ sent'[u] = sent[u]
    BY <1>3 DEF ThreadTypes
  <2>4. \A u \in Thread : Unseen(u) BY <2>2, <2>3 DEF Unseen
  <2> QED BY <2>1, <2>4, SilentStep
<1>4. ASSUME NEW t \in Thread, StartWrite(t) PROVE Service!Begin(req[t].data)
  <2>1. \A u \in Thread : pc[u] # "writing" BY <1>4, OneWriter DEF StartWrite
  <2>2. CurrentJob = NoJob /\ ~Failed /\ active
    BY <1>4, <2>1, NoJobOtherwise DEF StartWrite, Prepare, Accepts, Check
  <2>3. pc'[t] = "writing" /\ sent'[t] = 0 /\ req'[t] = req[t]
    BY <1>4 DEF StartWrite, ThreadTypes, KeeperInv, FreshInv
  <2>4. writer' = t BY <2>3 DEF KeeperInv, LockInv
  <2>5. /\ CurrentJob' = [gen |-> generation, seq |-> lastSequence + 1,
                          data |-> req[t].data, sent |-> 0]
        /\ ~Failed'
    BY <1>4, <2>3, <2>4 DEF StartWrite, Prepare, Accepts, Check, CurrentJob, Failed, Writing
  <2>6. lastSequence' = lastSequence + 1 /\ UNCHANGED <<generation, active, pty>>
    BY <1>4 DEF StartWrite, Prepare, Accepts
  <2>7. Failed' = Failed BY <2>2, <2>5 DEF Failed
  <2> QED BY <2>2, <2>5, <2>6, <2>7 DEF Service!Begin
<1>5. ASSUME NEW t \in Thread, WritePart(t) PROVE Service!Put
  <2>1. pc[t] = "writing" /\ pc'[t] = "writing" BY <1>5 DEF WritePart
  <2>2. writer = t /\ writer' = t BY <2>1 DEF KeeperInv, LockInv
  <2>3. /\ CurrentJob = [gen |-> req[t].gen, seq |-> req[t].seq,
                          data |-> req[t].data, sent |-> sent[t]]
        /\ CurrentJob' = [gen |-> req[t].gen, seq |-> req[t].seq,
                          data |-> req[t].data, sent |-> sent[t] + 1]
        /\ Failed' = Failed
    BY <1>5, <2>1, <2>2 DEF WritePart, CurrentJob, Failed, Writing, ThreadTypes
  <2>4. CurrentJob # NoJob
    BY <2>3, JobIsNoJob DEF ThreadTypes
  <2>5. CurrentJob' = [CurrentJob EXCEPT !.sent = @ + 1] BY <2>3
  <2>6. UNCHANGED <<generation, active, lastSequence>> 
    BY <1>5 DEF WritePart, controllerVars, leaseVars
  <2> QED BY <1>5, <2>3, <2>4, <2>5, <2>6 DEF WritePart, Service!Put
<1>6. ASSUME NEW t \in Thread, WriteFails(t) PROVE Service!Fail
  <2>1. pc[t] = "writing" BY <1>6 DEF WriteFails
  <2>2. writer = t /\ writer' = Nobody BY <1>6, <2>1 DEF KeeperInv, LockInv, WriteFails, Answer
  <2>3. /\ CurrentJob = [gen |-> req[t].gen, seq |-> req[t].seq,
                          data |-> req[t].data, sent |-> sent[t]]
        /\ ~Failed
    BY <2>1, JobOfWriter
  <2>4. UNCHANGED <<generation, active, lastSequence, uncertain, pty>>
    BY <1>6 DEF WriteFails, controllerVars, leaseVars
  <2>5. CurrentJob' = NoJob /\ (Failed' <=> uncertain)
    BY <2>2, <2>4, SessionControlAssumption DEF CurrentJob, Failed
  <2>6. CurrentJob # NoJob
    BY <2>3, JobIsNoJob DEF ThreadTypes
  <2>7. uncertain <=> CurrentJob.gen = generation
    BY <2>1, <2>3 DEF KeeperInv, WriteInv
  <2> QED BY <2>3, <2>4, <2>5, <2>6, <2>7 DEF Service!Fail
<1>7. ASSUME NEW t \in Thread, RecordWritten(t) PROVE Service!Finish
  <2>1. pc[t] = "writing" /\ pc'[t] = "recorded" /\ sent[t] = Parts
    BY <1>7 DEF RecordWritten, ThreadTypes
  <2>2. writer = t /\ writer' = t BY <2>1 DEF KeeperInv, LockInv
  <2>3. /\ CurrentJob = [gen |-> req[t].gen, seq |-> req[t].seq,
                          data |-> req[t].data, sent |-> sent[t]]
        /\ ~Failed
    BY <2>1, JobOfWriter
  <2>4. CurrentJob' = NoJob /\ ~Failed' 
    BY <1>7, <2>1, <2>2 DEF RecordWritten, Written, CurrentJob, Failed, Writing
  <2>5. CurrentJob # NoJob
    BY <2>3, JobIsNoJob DEF ThreadTypes
  <2>6. UNCHANGED <<generation, active, lastSequence, pty>>
    BY <1>7 DEF RecordWritten, Written
  <2>7. Failed' = Failed BY <2>3, <2>4 DEF Failed
  <2> QED BY <2>1, <2>3, <2>4, <2>5, <2>6, <2>7 DEF Service!Finish
<1> QED
  <2>1. \A t \in Thread : req[t].data \in Data BY DEF ThreadTypes, Request
  <2> QED BY <1>1, <1>2, <1>3, <1>4, <1>5, <1>6, <1>7, <2>1 DEF Next, Serve, Service!FencedNext

\* Every behaviour of the keeper is, through the mapping of SessionControl, a
\* behaviour of the fenced input service.
THEOREM Implementation == Spec => ImplementsService
<1>1. TypeOK => LeaseTypes /\ ThreadTypes BY Zenon DEF TypeOK, LeaseTypes, ThreadTypes
<1>2. TypeOK /\ KeeperInv /\ KeeperInv' /\ [Next]_vars
        => [Service!FencedNext]_Service!fencedVars
  BY <1>1, StepImplements
<1> QED
  BY <1>2, InitImplements, Typing, KeeperInductive, PTL
     DEF Spec, ImplementsService, Service!FencedSpec

-------------------------------------------------------------------------------
ServiceTheorems == INSTANCE FencedInputProofs WITH
  lease <- generation, held <- active, next <- lastSequence + 1,
  stopped <- Failed, job <- CurrentJob, tty <- pty

LEMMA ServiceConstants == Parts \in Nat \ {0} /\ NoJob \notin ServiceTheorems!Job
BY SessionControlAssumption DEF ServiceTheorems!Job

\* The service named in SessionControl and the one proved about are the same.
LEMMA SameService == Service!FencedSpec => ServiceTheorems!FencedSpec
<1>1. Service!FencedInit => ServiceTheorems!FencedInit
  BY DEF Service!FencedInit, ServiceTheorems!FencedInit
<1>2. [Service!FencedNext]_Service!fencedVars
        => [ServiceTheorems!FencedNext]_ServiceTheorems!fencedVars
  BY Zenon DEF Service!FencedNext, Service!NewLease, Service!EndLease, Service!Begin, Service!Put,
         Service!Finish, Service!Fail, Service!fencedVars,
         ServiceTheorems!FencedNext, ServiceTheorems!NewLease, ServiceTheorems!EndLease, ServiceTheorems!Begin,
         ServiceTheorems!Put, ServiceTheorems!Finish, ServiceTheorems!Fail, ServiceTheorems!fencedVars
<1> QED BY <1>1, <1>2, PTL DEF Service!FencedSpec, ServiceTheorems!FencedSpec

\* The PTY receives inputs in lease and sequence order, none twice and none
\* inside another, whatever the connections do.
THEOREM InOrder == Spec => []InputsInOrder
<1>1. ServiceTheorems!FencedSpec => []ServiceTheorems!Ordered
  BY ServiceConstants, ServiceTheorems!FencedOrder
<1>2. ServiceTheorems!Ordered => InputsInOrder
  BY DEF ServiceTheorems!Ordered, ServiceTheorems!Before, InputsInOrder,
         Service!Ordered, Service!Before
<1> QED BY <1>1, <1>2, SameService, Implementation, PTL DEF ImplementsService

\* No byte of a lease follows a write of that lease that failed.
THEOREM StopsAtFailure == Spec => []NothingAfterFailure
<1>1. ServiceTheorems!FencedSpec => []ServiceTheorems!NothingAfterFailure
  BY ServiceConstants, ServiceTheorems!FencedStopsAtFailure
<1>2. ServiceTheorems!NothingAfterFailure => NothingAfterFailure
  BY DEF ServiceTheorems!NothingAfterFailure, ServiceTheorems!Whole, NothingAfterFailure,
         Service!NothingAfterFailure, Service!Whole
<1> QED BY <1>1, <1>2, SameService, Implementation, PTL DEF ImplementsService

-------------------------------------------------------------------------------
\* A ticket is only ever open under the lease that drew it, so it moves that
\* lease or none.
THEOREM TicketFenced == Spec => []TicketOfHolder
<1>1. Init => TicketOfHolder BY DEF Init, ControllerInit, TicketOfHolder
<1>2. TypeOK /\ TicketOfHolder /\ [Next]_vars => TicketOfHolder'
  <2> SUFFICES ASSUME LeaseTypes, TicketOfHolder, [Next]_vars PROVE TicketOfHolder'
    BY Zenon DEF TypeOK, LeaseTypes
  <2> USE DEF TicketOfHolder
  <2>1. ASSUME NEW v \in View \cup {NoView}, NEW takeover \in BOOLEAN, TakeControl(v, takeover)
        PROVE  TicketOfHolder'
    BY <2>1 DEF TakeControl, Acquire, Grant
  <2>2. ASSUME NEW g \in Generation, ReleaseControl(g) \/ WithdrawTicket(g)
        PROVE  TicketOfHolder'
    BY <2>2 DEF ReleaseControl, WithdrawTicket, Release, CancelHandoff
  <2>3. ASSUME NEW g \in Generation, NEW t \in Ticket, DrawTicket(g, t)
        PROVE  TicketOfHolder'
    BY <2>3 DEF DrawTicket, OfferHandoff, Check, leaseVars, LeaseTypes
  <2>4. ASSUME NEW t \in Ticket, RedeemTicket(t) PROVE TicketOfHolder'
    BY <2>4 DEF RedeemTicket, AcceptHandoff, Grant
  <2>5. CASE RedeemTooLate \/ OfferDeadline
    BY <2>5 DEF RedeemTooLate, OfferDeadline, AcceptExpired, DeadlinePasses, leaseVars
  <2>6. CASE UNCHANGED <<generation, active, handoff, offeredBy>>
    BY <2>6
  <2>7. ASSUME NEW t \in Thread,
               Serve(t) \/ WritePart(t) \/ WriteFails(t) \/ \E r \in Request : Arrive(t, r)
        PROVE  UNCHANGED <<generation, active, handoff, offeredBy>>
    BY <2>7 DEF Serve, TakeWriter, GiveUp, StartWrite, AnswerRetry, Refuse, RecordWritten,
                Acknowledge, WritePart, WriteFails, Arrive, Prepare, Written,
                controllerVars, leaseVars
  <2>8. CASE ChildExits \/ UNCHANGED vars
    BY <2>6, <2>8 DEF ChildExits, vars, controllerVars, leaseVars
  <2> QED BY <2>1, <2>2, <2>3, <2>4, <2>5, <2>6, <2>7, <2>8 DEF Next, Control
<1> QED BY <1>1, <1>2, Typing, PTL DEF Spec

-------------------------------------------------------------------------------
\* What the retry window knows: an entry has been received whole unless it is
\* the last one and its outcome is in doubt.
WindowInv ==
  \A e \in recent :
    /\ e.seq <= lastSequence
    /\ Service!Whole(generation, e.seq, e.data) \/ (uncertain /\ e.seq = lastSequence)

\* What a writing thread knows of the input it serves.
PartInv ==
  \A t \in Thread : pc[t] = "writing" =>
    /\ \A n \in 1..sent[t] : \E i \in DOMAIN pty :
         pty[i] = [gen |-> req[t].gen, seq |-> req[t].seq, data |-> req[t].data, part |-> n]
    /\ req[t].gen = generation =>
         \A e \in recent : e.seq = lastSequence => e.data = req[t].data

\* An answer that promises delivery, given or about to be.
PromiseInv ==
  \A t \in Thread :
    pc[t] = "recorded" \/ reply[t] \in {"written", "duplicate"}
      => Service!Whole(req[t].gen, req[t].seq, req[t].data)

AckInv == WindowInv /\ PartInv /\ PromiseInv

LEMMA WholeStays ==
  ASSUME ThreadTypes, NEW t \in Thread, WritePart(t), NEW g, NEW s, NEW d, Service!Whole(g, s, d)
  PROVE  Service!Whole(g, s, d)'
<1>1. \A i \in DOMAIN pty : i \in DOMAIN pty' /\ pty'[i] = pty[i]
  BY DEF WritePart, ThreadTypes
<1> QED BY <1>1 DEF Service!Whole

\* "written" and "duplicate" are only said of inputs the PTY received whole.
THEOREM Acknowledged == Spec => []AckedIsWritten
<1>1. Init => AckInv
  BY DEF Init, ControllerInit, AckInv, WindowInv, PartInv, PromiseInv
<1>2. TypeOK /\ KeeperInv /\ AckInv /\ [Next]_vars => AckInv'
  <2> SUFFICES ASSUME LeaseTypes, ThreadTypes, KeeperInv, AckInv, [Next]_vars PROVE AckInv'
    BY Zenon DEF TypeOK, LeaseTypes, ThreadTypes
  <2> USE DEF AckInv
  <2>1. CASE Control
    <3>1. UNCHANGED threadVars BY <2>1, ControlKeepsThreads
    <3>2. PromiseInv' BY <3>1 DEF PromiseInv, threadVars, Service!Whole
    <3>3. CASE Grant
      <4>1. recent' = {} BY <3>3 DEF Grant
      <4> QED BY <3>1, <3>2, <4>1 DEF WindowInv, PartInv, threadVars
    <3>4. CASE UNCHANGED <<generation, lastSequence, recent, uncertain>>
      <4>1. WindowInv' BY <3>1, <3>4 DEF WindowInv, threadVars, Service!Whole
      <4>2. PartInv' BY <3>1, <3>4 DEF PartInv, threadVars
      <4> QED BY <3>2, <4>1, <4>2
    <3> QED BY <2>1, <3>3, <3>4, ControlKeepsThreads
  <2>2. CASE ChildExits \/ UNCHANGED vars
    BY <2>2 DEF ChildExits, vars, controllerVars, leaseVars, threadVars,
                WindowInv, PartInv, PromiseInv, Service!Whole
  <2>3. ASSUME NEW t \in Thread,
               \/ TakeWriter(t) \/ GiveUp(t) \/ Refuse(t) \/ WriteFails(t)
               \/ \E r \in Request : Arrive(t, r)
        PROVE  AckInv'
    <3> USE DEF TakeWriter, GiveUp, Refuse, WriteFails, Arrive, Answer, ThreadTypes
    <3>1. UNCHANGED <<generation, lastSequence, recent, uncertain, pty>>
      BY <2>3 DEF controllerVars, leaseVars
    <3>2. WindowInv' BY <3>1 DEF WindowInv, Service!Whole
    <3>3. \A u \in Thread : pc'[u] = "writing" =>
            pc[u] = "writing" /\ req'[u] = req[u] /\ sent'[u] = sent[u]
      BY <2>3
    <3>4. PartInv'
      <4> SUFFICES ASSUME NEW u \in Thread, pc'[u] = "writing" 
                   PROVE  /\ \A n \in 1..sent[u] : \E i \in DOMAIN pty :
                               pty[i] = [gen |-> req[u].gen, seq |-> req[u].seq,
                                         data |-> req[u].data, part |-> n]
                          /\ req[u].gen = generation =>
                               \A e \in recent : e.seq = lastSequence => e.data = req[u].data
        BY <3>1, <3>3 DEF PartInv
      <4> QED BY <3>3 DEF PartInv
    <3>5. \A u \in Thread : pc'[u] = "recorded" \/ reply'[u] \in {"written", "duplicate"} =>
            (pc[u] = "recorded" \/ reply[u] \in {"written", "duplicate"}) /\ req'[u] = req[u]
      BY <2>3
    <3>6. PromiseInv' BY <3>1, <3>5 DEF PromiseInv, Service!Whole
    <3> QED BY <3>2, <3>4, <3>6
  <2>4. ASSUME NEW t \in Thread, AnswerRetry(t) PROVE AckInv'
    <3> USE DEF AnswerRetry, Answer, ThreadTypes
    <3>1. UNCHANGED <<generation, lastSequence, recent, uncertain, pty, req>>
      BY <2>4 DEF controllerVars, leaseVars
    <3>2. Service!Whole(req[t].gen, req[t].seq, req[t].data)
      BY <2>4 DEF Recognises, Check, WindowInv
    <3>3. WindowInv' BY <3>1 DEF WindowInv, Service!Whole
    <3>4. PartInv' BY <2>4, <3>1 DEF PartInv
    <3>5. PromiseInv' BY <2>4, <3>1, <3>2 DEF PromiseInv, Service!Whole
    <3> QED BY <3>3, <3>4, <3>5
  <2>5. ASSUME NEW t \in Thread, Acknowledge(t) PROVE AckInv'
    <3> USE DEF Acknowledge, Answer, ThreadTypes
    <3>1. UNCHANGED <<generation, lastSequence, recent, uncertain, pty, req>>
      BY <2>5 DEF controllerVars, leaseVars
    <3>2. WindowInv' BY <3>1 DEF WindowInv, Service!Whole
    <3>3. PartInv' BY <2>5, <3>1 DEF PartInv
    <3>4. PromiseInv' BY <2>5, <3>1 DEF PromiseInv, Service!Whole
    <3> QED BY <3>2, <3>3, <3>4
  <2>6. ASSUME NEW t \in Thread, StartWrite(t) PROVE AckInv'
    <3> DEFINE new == [seq |-> req[t].seq, data |-> req[t].data]
    <3>1. /\ ~uncertain /\ req[t].gen = generation /\ req[t].seq = lastSequence + 1
          /\ lastSequence' = req[t].seq /\ generation' = generation
          /\ UNCHANGED <<pty, req, reply, sent>> /\ sent[t] = 0
      BY <2>6 DEF StartWrite, Prepare, Accepts, Check, KeeperInv, FreshInv
    <3>2. recent' \subseteq recent \cup {new} /\ uncertain'
      BY <2>6, EvictDrops DEF StartWrite, Prepare
    <3>3. \A e \in recent : e.seq <= lastSequence /\ e.seq \in Nat
                               /\ Service!Whole(generation, e.seq, e.data)
      BY <3>1, ControllerAssumption DEF WindowInv, LeaseTypes, Entry, Sequence
    <3>4. lastSequence \in Nat BY ControllerAssumption DEF LeaseTypes, Sequence
    <3>5. WindowInv' BY <3>1, <3>2, <3>3, <3>4 DEF WindowInv, Service!Whole
    <3>6. PartInv'
      <4>1. \A u \in Thread : pc'[u] = "writing" => u = t
        BY <2>6 DEF StartWrite, KeeperInv, LockInv, ThreadTypes
      <4>2. \A e \in recent' : e.seq = lastSequence' => e.data = req[t].data
        BY <3>1, <3>2, <3>3, <3>4
      <4> QED BY <3>1, <4>1, <4>2 DEF PartInv
    <3>7. PromiseInv' BY <2>6, <3>1 DEF StartWrite, PromiseInv, ThreadTypes, Service!Whole
    <3> QED BY <3>5, <3>6, <3>7
  <2>7. ASSUME NEW t \in Thread, WritePart(t) PROVE AckInv'
    <3>1. UNCHANGED <<generation, lastSequence, recent, uncertain, pc, req, reply>>
      BY <2>7 DEF WritePart, controllerVars, leaseVars
    <3>2. WindowInv'
      <4> SUFFICES ASSUME NEW e \in recent
                   PROVE  /\ e.seq <= lastSequence
                          /\ Service!Whole(generation, e.seq, e.data)' \/ (uncertain /\ e.seq = lastSequence)
        BY <3>1 DEF WindowInv, Service!Whole
      <4> QED BY <2>7, <3>1, WholeStays DEF WindowInv
    <3>3. PromiseInv' BY <2>7, <3>1, WholeStays DEF PromiseInv
    <3>4. PartInv'
      <4> DEFINE new == [gen |-> req[t].gen, seq |-> req[t].seq,
                         data |-> req[t].data, part |-> sent[t] + 1]
      <4>1. pty' = Append(pty, new) /\ sent'[t] = sent[t] + 1 /\ sent[t] \in Nat
        BY <2>7, SessionControlAssumption DEF WritePart, ThreadTypes
      <4>2. /\ \A i \in DOMAIN pty : i \in DOMAIN pty' /\ pty'[i] = pty[i]
            /\ Len(pty) + 1 \in DOMAIN pty' /\ pty'[Len(pty) + 1] = new
        <5> HIDE DEF new
        <5> QED BY <4>1 DEF ThreadTypes
      <4>3. \A u \in Thread : pc[u] = "writing" => u = t
        BY <2>7 DEF WritePart, KeeperInv, LockInv
      <4>4. ASSUME NEW n \in 1..sent'[t]
            PROVE  \E i \in DOMAIN pty' :
                     pty'[i] = [gen |-> req[t].gen, seq |-> req[t].seq,
                                data |-> req[t].data, part |-> n]
        <5>1. CASE n = sent[t] + 1 BY <4>2, <5>1
        <5>2. CASE n \in 1..sent[t]
          BY <2>7, <4>2, <5>2 DEF PartInv, WritePart
        <5> QED BY <4>1, <5>1, <5>2
      <4> QED BY <3>1, <4>3, <4>4 DEF PartInv
    <3> QED BY <3>2, <3>3, <3>4
  <2>8. ASSUME NEW t \in Thread, RecordWritten(t) PROVE AckInv'
    <3>1. /\ pc[t] = "writing" /\ sent[t] = Parts /\ ~uncertain'
          /\ UNCHANGED <<generation, lastSequence, recent, pty, req, reply>>
      BY <2>8 DEF RecordWritten, Written
    <3>2. Service!Whole(req[t].gen, req[t].seq, req[t].data)
      BY <3>1 DEF PartInv, Service!Whole
    <3>3. WindowInv'
      <4>1. CASE req[t].gen = generation
        BY <3>1, <3>2, <4>1 DEF WindowInv, PartInv, KeeperInv, WriteInv, Service!Whole
      <4>2. CASE req[t].gen # generation
        BY <3>1, <4>2 DEF WindowInv, KeeperInv, WriteInv, Service!Whole
      <4> QED BY <4>1, <4>2
    <3>4. PartInv'
      BY <2>8, <3>1 DEF RecordWritten, PartInv, ThreadTypes
    <3>5. PromiseInv'
      BY <2>8, <3>1, <3>2 DEF RecordWritten, PromiseInv, ThreadTypes, Service!Whole
    <3> QED BY <3>3, <3>4, <3>5
  <2> QED BY <2>1, <2>2, <2>3, <2>4, <2>5, <2>6, <2>7, <2>8 DEF Next, Serve
<1>3. AckInv => AckedIsWritten BY DEF AckInv, PromiseInv, AckedIsWritten
<1> QED BY <1>1, <1>2, <1>3, Typing, KeeperInductive, PTL DEF Spec
===============================================================================
