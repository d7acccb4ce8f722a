-------------------------------- MODULE Journal --------------------------------
(***************************************************************************)
(* The authority journal and the bridge that spends from it:               *)
(* authority/src/lib.rs (Journal, CommandAnchor) and node/src/bridge.rs.   *)
(* An append-only file of chained lines is shared by processes under a     *)
(* file lock; a tip anchor kept by another program says how far the file   *)
(* must reach.  A process reserves a use (a line on disk and an anchor     *)
(* moved), calls upstream, and records the outcome.                        *)
(*                                                                         *)
(* Faults: a process dies anywhere; the machine loses power, and with it   *)
(* what was not synced; a record is half written; the anchor does not      *)
(* answer, or moves and the answer is lost; an old copy of the file is put *)
(* back; the anchor is reset.  Records have one length, signatures hold,   *)
(* and hashes do not collide: a hash is all that was hashed into it, which *)
(* are the entries from the first line on, and their number is its seq.    *)
(***************************************************************************)
EXTENDS Naturals, Sequences, FiniteSets, FiniteSetsExt

CONSTANTS
  Process,      \* processes that open the journal
  Grant,        \* grant ids
  Terms,        \* the signed terms a grant id can come with
  MaxUses,      \* the budget in each
  Nonce,        \* request nonces
  Store,        \* what may be rolled back: the "file" while nobody has it open, also
                \* while somebody has it "open", the "anchor"
  Nobody        \* the file is not locked

ASSUME JournalAssumption ==
  /\ MaxUses \in [Terms -> Nat \ {0}]
  /\ Store \subseteq {"file", "open", "anchor"}
  /\ Nobody \notin Process

VARIABLES
  file,      \* the lines in the journal file
  torn,      \* a part of a record follows them
  durable,   \* how many of them have reached the disk
  lock,      \* the process that holds the file lock
  anchor,    \* the tip the anchor program keeps
  pc,        \* where each process stands
  applied,   \* Journal.tip, grants and ops: the entries it has verified
  readTo,    \* Journal.read_to
  floor,     \* CommandAnchor.last
  job,       \* the line it is about to append, or the operation it may perform
  executed,  \* history: calls made upstream for each request
  rolledBack \* history: the stores that were rolled back

fileVars == <<file, torn, durable>>
memory == <<applied, readTo, floor>>
vars == <<fileVars, lock, anchor, pc, memory, job, executed, rolledBack>>

Request == [grant : Grant, terms : Terms, nonce : Nonce]

\* What a line says, a line, and the tip it makes: the hash of its entry and of the
\* tip before it.
Event == {"reserve", "succeeded", "unknown"}
Entry == [req : Request, event : Event]
Line(tip, r, event) == [prev |-> tip, req |-> r, event |-> event]
EntryOf(line) == [req |-> line.req, event |-> line.event]
Tip(line) == Append(line.prev, EntryOf(line))
Genesis == <<>>
NoJob == [event |-> "none"]

Init ==
  /\ file = <<>> /\ torn = FALSE /\ durable = 0
  /\ lock = Nobody
  /\ anchor = Genesis
  /\ pc = [p \in Process |-> "down"]
  /\ applied = [p \in Process |-> <<>>]
  /\ readTo = [p \in Process |-> 0]
  /\ floor = [p \in Process |-> Genesis]
  /\ job = [p \in Process |-> NoJob]
  /\ executed = [r \in Request |-> 0]
  /\ rolledBack = {}

-------------------------------------------------------------------------------
(* What the lines say.                                                     *)

Reserved(s, g) == { i \in DOMAIN s : s[i].event = "reserve" /\ s[i].req.grant = g }
SameOp(r, q) == r.grant = q.grant /\ r.nonce = q.nonce
Known(s, r) == \E i \in DOMAIN s : SameOp(s[i].req, r)
Pending(s, r) ==
  /\ \E i \in DOMAIN s : s[i].event = "reserve" /\ s[i].req = r
  /\ \A i \in DOMAIN s : SameOp(s[i].req, r) => s[i].event = "reserve"

\* A mutant of Spendable: a grant id is not bound to its terms.
SpendableUnderAny(s, r) ==
  /\ Cardinality(Reserved(s, r.grant)) < MaxUses[r.terms]
  /\ ~Known(s, r)

\* reserve() refuses as spent what this is false of, and apply() as tampered.
Spendable(s, r) ==
  /\ \A i \in Reserved(s, r.grant) : s[i].req.terms = r.terms
  /\ Cardinality(Reserved(s, r.grant)) < MaxUses[r.terms]
  /\ ~Known(s, r)

Follows(s, line) ==
  /\ line.prev = s
  /\ IF line.event = "reserve" THEN Spendable(s, line.req) ELSE Pending(s, line.req)

\* Behind tip s and i lines more.
After(s, lines, i) == IF i = 0 THEN s ELSE Tip(lines[i])

\* The lines are verified and applied one by one, up to the first that is wrong.
Accepted(s, lines) ==
  Max({ n \in 0..Len(lines) : \A i \in 1..n : Follows(After(s, lines, i - 1), lines[i]) })
Verified(s, lines) ==
  [tip |-> After(s, lines, Accepted(s, lines)), ok |-> Accepted(s, lines) = Len(lines)]

Unread(p) == SubSeq(file, readTo[p] + 1, Len(file))

\* A tip below or beside another one.
Contradicts(tip, other) ==
  Len(tip) < Len(other) \/ (Len(tip) = Len(other) /\ tip # other)

\* A mutant of AnchorAgrees: the file need not reach the anchored tip.
AnchorRemembers(p, tip) ==
  anchor = Genesis \/ ~Contradicts(anchor, floor[p])

\* What the anchor answers when it is up: nothing at all, or a tip, which must
\* not contradict what it said before and which the file must reach.
AnchorAgrees(p, tip) ==
  anchor = Genesis \/ (~Contradicts(anchor, floor[p]) /\ ~Contradicts(tip, anchor))

\* catch_up, in process p with the file locked.  What it has read stays read
\* even when it then fails; a spend needs the anchor's answer.
Reads(p) == Verified(applied[p], Unread(p))
FileOK(p) == Len(file) >= readTo[p] /\ Reads(p).ok /\ ~torn
CaughtUp(p, spend, up) ==
  /\ FileOK(p)
  /\ IF up THEN AnchorAgrees(p, Reads(p).tip) ELSE ~spend

CatchUp(p, up) ==
  /\ applied' = [applied EXCEPT ![p] =
       IF Len(file) >= readTo[p] THEN Reads(p).tip ELSE @]
  /\ readTo' = [readTo EXCEPT ![p] = IF FileOK(p) THEN Len(file) ELSE @]
  /\ floor' = [floor EXCEPT ![p] =
       IF FileOK(p) /\ up /\ anchor # Genesis /\ ~Contradicts(anchor, @)
         THEN anchor ELSE @]

-------------------------------------------------------------------------------
(* A process.                                                              *)

Goes(p, at) == pc' = [pc EXCEPT ![p] = at]

Open(p, up) ==
  /\ pc[p] = "down"
  /\ lock = Nobody
  /\ CaughtUp(p, FALSE, up)
  /\ CatchUp(p, up)
  /\ Goes(p, "idle")
  /\ UNCHANGED <<fileVars, lock, anchor, job, executed, rolledBack>>

\* authorize, up to the line it will append; the request has been verified.
Authorize(p, r, up) ==
  /\ pc[p] = "idle"
  /\ lock = Nobody
  /\ CatchUp(p, up)
  /\ IF CaughtUp(p, TRUE, up) /\ Spendable(Reads(p).tip, r)
       THEN /\ lock' = p
            /\ job' = [job EXCEPT ![p] = Line(Reads(p).tip, r, "reserve")]
            /\ Goes(p, "appending")
       ELSE UNCHANGED <<lock, job, pc>>
  /\ UNCHANGED <<fileVars, anchor, executed, rolledBack>>

\* append: write ...
Write(p) ==
  /\ pc[p] = "appending"
  /\ file' = Append(file, job[p])
  /\ Goes(p, "written")
  /\ UNCHANGED <<torn, durable, lock, anchor, memory, job, executed, rolledBack>>

\* A mutant of Sync: no sync.
SyncNever(p) ==
  /\ pc[p] = "written"
  /\ applied' = [applied EXCEPT ![p] = Tip(job[p])]
  /\ readTo' = [readTo EXCEPT ![p] = @ + 1]
  /\ Goes(p, "synced")
  /\ UNCHANGED <<fileVars, lock, anchor, floor, job, executed, rolledBack>>

\* ... sync, apply ...
Sync(p) ==
  /\ pc[p] = "written"
  /\ durable' = Len(file)
  /\ applied' = [applied EXCEPT ![p] = Tip(job[p])]
  /\ readTo' = [readTo EXCEPT ![p] = @ + 1]
  /\ Goes(p, "synced")
  /\ UNCHANGED <<file, torn, lock, anchor, floor, job, executed, rolledBack>>

\* ... (either may fail, the write half-way; the file is unlocked all the same) ...
AppendFails(p) ==
  /\ pc[p] \in {"appending", "written"}
  /\ torn' \in IF pc[p] = "appending" THEN {torn, TRUE} ELSE {torn}
  /\ lock' = Nobody
  /\ job' = [job EXCEPT ![p] = NoJob]
  /\ Goes(p, "idle")
  /\ UNCHANGED <<file, durable, anchor, memory, executed, rolledBack>>

\* ... and move the anchor, which refuses to move back.  Only then is a
\* reservation a permit.
AdvanceAnchor(p) ==
  /\ pc[p] = "synced"
  /\ ~Contradicts(Tip(job[p]), floor[p])
  /\ ~Contradicts(Tip(job[p]), anchor)
  /\ anchor' = Tip(job[p])
  /\ floor' = [floor EXCEPT ![p] = Tip(job[p])]
  /\ lock' = Nobody
  /\ IF job[p].event = "reserve"
       THEN Goes(p, "permitted") /\ UNCHANGED job
       ELSE Goes(p, "idle") /\ job' = [job EXCEPT ![p] = NoJob]
  /\ UNCHANGED <<fileVars, applied, readTo, executed, rolledBack>>

\* The anchor refuses, does not answer, or moves without saying so.  There is no
\* permit; an outcome is recorded and the anchor left behind.
AdvanceFails(p) ==
  /\ pc[p] = "synced"
  /\ \/ UNCHANGED anchor
     \/ /\ ~Contradicts(Tip(job[p]), floor[p]) /\ ~Contradicts(Tip(job[p]), anchor)
        /\ anchor' = Tip(job[p])
  /\ lock' = Nobody
  /\ job' = [job EXCEPT ![p] = NoJob]
  /\ Goes(p, "idle")
  /\ UNCHANGED <<fileVars, memory, executed, rolledBack>>

\* Bridge.call: the operation itself, whatever comes of it.
CallUpstream(p) ==
  /\ pc[p] = "permitted"
  /\ executed' = [executed EXCEPT ![job[p].req] = @ + 1]
  /\ Goes(p, "called")
  /\ UNCHANGED <<fileVars, lock, anchor, memory, job, rolledBack>>

\* finish: an outcome that cannot be recorded leaves the use pending.
Finish(p, outcome, up) ==
  /\ pc[p] = "called"
  /\ lock = Nobody
  /\ CatchUp(p, up)
  /\ IF CaughtUp(p, FALSE, up) /\ Pending(Reads(p).tip, job[p].req)
       THEN /\ lock' = p
            /\ job' = [job EXCEPT ![p] = Line(Reads(p).tip, job[p].req, outcome)]
            /\ Goes(p, "appending")
       ELSE /\ job' = [job EXCEPT ![p] = NoJob]
            /\ Goes(p, "idle")
            /\ UNCHANGED lock
  /\ UNCHANGED <<fileVars, anchor, executed, rolledBack>>

-------------------------------------------------------------------------------
(* Faults.                                                                 *)

Forget(P) ==
  /\ pc' = [p \in Process |-> IF p \in P THEN "down" ELSE pc[p]]
  /\ applied' = [p \in Process |-> IF p \in P THEN <<>> ELSE applied[p]]
  /\ readTo' = [p \in Process |-> IF p \in P THEN 0 ELSE readTo[p]]
  /\ floor' = [p \in Process |-> IF p \in P THEN Genesis ELSE floor[p]]
  /\ job' = [p \in Process |-> IF p \in P THEN NoJob ELSE job[p]]
  /\ lock' = IF lock \in P THEN Nobody ELSE lock

Crash(p) ==
  /\ pc[p] # "down"
  /\ torn' \in IF pc[p] = "appending" THEN {torn, TRUE} ELSE {torn}
  /\ Forget({p})
  /\ UNCHANGED <<file, durable, anchor, executed, rolledBack>>

\* What was not synced is lost, or a part of it.
PowerLoss ==
  /\ \E n \in durable..Len(file) :
       /\ file' = SubSeq(file, 1, n)
       /\ torn' \in IF n < Len(file) THEN BOOLEAN ELSE {torn}
       /\ durable' = n
  /\ Forget(Process)
  /\ UNCHANGED <<anchor, executed, rolledBack>>

\* An old copy of the file is put back, as from a backup, or the anchor is reset.
\* Each store is the other's witness: not both, which nothing in the code could notice.
OldCopy ==
  /\ "anchor" \notin rolledBack
  /\ \/ "file" \in Store /\ \A p \in Process : pc[p] = "down"
     \/ "open" \in Store /\ lock = Nobody
  /\ \E n \in 0..Len(file) :
       /\ file' = SubSeq(file, 1, n)
       /\ durable' = n
  /\ torn' = FALSE
  /\ rolledBack' = {"file"}
  /\ UNCHANGED <<lock, anchor, pc, memory, job, executed>>

AnchorForgets ==
  /\ "anchor" \in Store /\ "file" \notin rolledBack
  /\ anchor # Genesis
  /\ anchor' = Genesis
  /\ rolledBack' = {"anchor"}
  /\ UNCHANGED <<fileVars, lock, pc, memory, job, executed>>

Work(p) ==
  \/ \E up \in BOOLEAN :
       \/ Open(p, up)
       \/ \E r \in Request : Authorize(p, r, up)
       \/ \E outcome \in {"succeeded", "unknown"} : Finish(p, outcome, up)
  \/ Write(p) \/ Sync(p) \/ AppendFails(p)
  \/ AdvanceAnchor(p) \/ AdvanceFails(p)
  \/ CallUpstream(p)

Next ==
  \/ \E p \in Process : Work(p) \/ Crash(p)
  \/ PowerLoss \/ OldCopy \/ AnchorForgets

Spec == Init /\ [][Next]_vars

-------------------------------------------------------------------------------
TypeOK ==
  /\ durable \in 0..Len(file)
  /\ lock \in Process \cup {Nobody}
  /\ pc \in [Process -> {"down", "idle", "appending", "written", "synced", "permitted",
                         "called"}]
  /\ executed \in [Request -> Nat]
  /\ rolledBack \subseteq {"file", "anchor"}
  /\ \A p \in Process : lock = p <=> pc[p] \in {"appending", "written", "synced"}

\* No operation reaches upstream twice, whoever asks, dies or is restarted, and
\* whether the file or the anchor is put back meanwhile.
ExecutedOnce ==
  \A r, q \in Request :
    SameOp(r, q) /\ executed[r] > 0 => executed[r] = 1 /\ (r # q => executed[q] = 0)

\* What is done under a grant id is done under one set of terms, and within its
\* budget.
WithinBudget ==
  \A r, q \in Request : r.grant = q.grant /\ executed[r] > 0 /\ executed[q] > 0 =>
    /\ r.terms = q.terms
    /\ Cardinality({ x \in Request : x.grant = r.grant /\ executed[x] > 0 })
         <= MaxUses[r.terms]

\* As long as nobody replaces the file, the anchor never points past what is on
\* disk: the line is durable before the anchor moves.
AnchorBehindDisk ==
  "file" \notin rolledBack /\ anchor # Genesis =>
    Len(anchor) <= durable /\ anchor = Tip(file[Len(anchor)])

\* ... and an operation that reached upstream is a use on disk for ever.
ExecutedIsSpent ==
  \A r \in Request : "file" \notin rolledBack /\ executed[r] > 0 =>
    \E i \in 1..durable : file[i].req = r /\ file[i].event = "reserve"

\* The file is a chain that every process can verify, however the processes took
\* turns.
FileVerifies == "file" \notin rolledBack => Verified(<<>>, file).ok

-------------------------------------------------------------------------------
\* authority/src/lib.rs:281: what this process already saw anchored is a floor; a
\* read below it is never adopted.
FloorHolds ==
  [][\A p \in Process : pc[p] = "idle" /\ pc'[p] = "appending" =>
       ~Contradicts(anchor, floor[p])]_vars
===============================================================================
