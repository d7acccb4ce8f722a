--------------------------- MODULE InputController ---------------------------
(***************************************************************************)
(* The one path from a view to a PTY: InputController in                   *)
(* packages/terminal/src/input-controller.js.  Text is queued as bytes, a  *)
(* single loop (drain) cuts the queue into requests and awaits one at a    *)
(* time, and an epoch tells the loop that the view moved on.               *)
(*                                                                         *)
(* JavaScript runs to the next await, so an action is everything between   *)
(* two awaits.  The caller's send, the request on the wire, is the         *)
(* environment: it may take the bytes or not, and answer or not, within    *)
(* the contract stated above the constructor.                              *)
(*                                                                         *)
(* What is typed is one stream of bytes, each named by its place in it,    *)
(* and Borders are the places between its characters.  The pieces of the   *)
(* queue follow one another, so the queue is where the first one begins    *)
(* and the set of the places where they end.                               *)
(***************************************************************************)
EXTENDS Naturals, FiniteSets, Sequences, FiniteSetsExt

CONSTANTS
  Borders,      \* where the characters end that will be typed, and 0
  ChunkBytes,   \* CHUNK_BYTES, the largest request
  MinChunk,     \* MIN_CHUNK_BYTES, the smallest budget of a request
  MaxQueued,    \* MAX_QUEUED_BYTES
  BusyRetries,  \* BUSY_RETRIES
  MaxResets     \* bound: resets, and changes of control

\* A character takes at most MinChunk bytes.
ASSUME InputControllerAssumption ==
  /\ Borders \subseteq Nat /\ 0 \in Borders
  /\ MinChunk \in Nat \ {0} /\ {ChunkBytes, MaxQueued, BusyRetries, MaxResets} \subseteq Nat
  /\ MinChunk <= ChunkBytes
  /\ \A b, c \in Borders : b < c => \E d \in Borders : b < d /\ d <= b + MinChunk

VARIABLES
  submitted,  \* how many bytes were submitted so far
  front,      \* where the first piece of this.queue begins
  queue,      \* this.queue: where its pieces end, the one being sent first
  queued,     \* this.queued
  running,    \* this.running
  epoch,      \* this.epoch
  condition,  \* this.condition
  refusal,    \* this.refusal
  chunk,      \* this.chunk
  sentBytes,  \* this.m.bytes
  discarded,  \* this.m.discardedBytes
  requests,   \* the loops that await an answer or sleep before a retry
  controls,   \* canSend(): the view holds input control
  resets,     \* how often the view moved on, or control changed
  arrived,    \* history: the batches the other side took, in order
  doubtful,   \* history: how many bytes had an unknown outcome or were refused
  behind,     \* history: bytes that waited behind a request that failed
  past        \* history: bytes a reset found waiting, not on the wire

inputState == <<submitted, front, queue, queued, running, epoch, condition, refusal, chunk,
          sentBytes, discarded, requests>>
history == <<arrived, doubtful, behind, past>>
inputVars == <<inputState, controls, resets, history>>

\* The bytes of a batch, by how many were typed up to them.
Bytes(b) == (b.from + 1)..b.to
Size(b) == b.to - b.from

Condition == {"idle", "sending", "queued", "uncertain"}
Refusal == {"none", "reset", "view-only", "too-large", "busy", "fenced", "unknown-outcome"}
Request == [from : Nat, to : Nat, epoch : Nat, attempt : Nat,
            state : {"out", "asleep"}, taken : BOOLEAN]

InputInit ==
  /\ submitted = 0 /\ front = 0 /\ queue = {} /\ queued = 0 /\ running = FALSE
  /\ epoch = 0 /\ condition = "idle" /\ refusal = "none" /\ chunk = ChunkBytes
  /\ sentBytes = 0 /\ discarded = 0 /\ requests = {}
  /\ controls \in BOOLEAN /\ resets = 0
  /\ arrived = <<>> /\ doubtful = 0 /\ behind = {} /\ past = {}

-------------------------------------------------------------------------------
(* Cutting the queue into requests.                                        *)

\* The end of the piece that begins at a place: at most that many bytes on, and back
\* to the border of a character unless that leaves nothing.
CutAt(at, end, most) ==
  LET whole == { b \in Borders : at < b /\ b <= at + most }
  IN  IF end <= at + most THEN end ELSE IF whole = {} THEN at + most ELSE Max(whole)

\* Where a piece is cut: from its beginning on, each cut leads to the next.
ChunkUtf8(from, end, most) ==
  LET between == (from + 1)..(end - 1)
      Closed(cuts) == \A at \in {from} \cup cuts : CutAt(at, end, most) \in cuts \cup {end}
  IN  { e \in between : \A cuts \in SUBSET between : Closed(cuts) => e \in cuts }

\* What piled up goes out together; a piece larger than a request is cut.
Gather(from, q, most) ==
  IF Min(q) <= from + most
    THEN { e \in q : ~\E later \in q : e < later /\ later <= from + most }
    ELSE q \cup ChunkUtf8(from, Min(q), most)

-------------------------------------------------------------------------------
(* The loop.                                                               *)

\* From the top of drain's while: the next request goes out, or the loop ends.
\* others are the requests of other loops, q is what waits and begins there, n its bytes,
\* most the budget of a request.
Turn(from, q, n, most, others) ==
  /\ front' = from /\ queued' = n /\ refusal' = "none"
  /\ IF q = {}
       THEN queue' = {} /\ requests' = others /\ running' = FALSE /\ condition' = "idle"
       ELSE LET to == Min(Gather(from, q, most))
            IN  /\ queue' = Gather(from, q, most) /\ running' = TRUE
                /\ condition' = (IF n > to - from THEN "queued" ELSE "sending")
                /\ requests' = others \union
                     {[from |-> from, to |-> to, epoch |-> epoch, attempt |-> 0,
                       state |-> "out", taken |-> FALSE]}

\* A mutant of Leave: the finally block does not look at the queue.
LeaveBlindly(r, most) ==
  /\ running' = FALSE
  /\ requests' = requests \ {r}
  /\ UNCHANGED <<front, queue, queued, condition, refusal>>

\* The loop of an earlier epoch returns; its finally block looks for keys typed
\* since, and they get a loop of this epoch.
Leave(r, most) ==
  IF queue = {}
  THEN /\ running' = FALSE
       /\ requests' = requests \ {r}
       /\ UNCHANGED <<front, queue, queued, condition, refusal>>
  ELSE Turn(front, queue, queued, most, requests \ {r})

\* A submission that is taken: the loop starts unless one runs already.
Submit(to) ==
  /\ controls
  /\ submitted < to /\ queued + (to - submitted) <= MaxQueued
  /\ LET from == IF queue = {} THEN submitted ELSE front
     IN  IF running
           THEN /\ front' = from /\ queue' = queue \cup {to}
                /\ queued' = queued + (to - submitted)
                /\ condition' = "queued" /\ refusal' = "none"
                /\ UNCHANGED <<running, requests>>
           ELSE Turn(from, queue \cup {to}, queued + (to - submitted), chunk, requests)
  /\ submitted' = to
  /\ UNCHANGED <<epoch, chunk, sentBytes, discarded, controls, resets, history>>

\* A submission that is refused whole, and why.
SubmitRefused(to) ==
  /\ submitted < to
  /\ \/ ~controls /\ refusal' = "view-only"
     \/ controls /\ queued + (to - submitted) > MaxQueued /\ refusal' = "too-large"
  /\ UNCHANGED <<submitted, front, queue, queued, running, epoch, condition, chunk, sentBytes,
                 discarded, requests, controls, resets, history>>

\* send resolves.  The round trip sizes the next request already.
Sent(r) ==
  /\ r \in requests /\ r.state = "out" /\ r.taken
  /\ sentBytes' = sentBytes + Size(r)
  /\ chunk' \in {chunk, Max({MinChunk, chunk \div 2}), Min({ChunkBytes, chunk * 2})}
  /\ IF r.epoch = epoch
     THEN Turn(Min(queue), queue \ {Min(queue)}, queued - Size(r), chunk', requests \ {r})
     ELSE Leave(r, chunk')
  /\ UNCHANGED <<submitted, epoch, discarded, controls, resets, history>>

\* What waited behind a request that failed is discarded and counted.
Stop(r, outcome) ==
  /\ doubtful' = doubtful + Size(r)
  /\ behind' = behind \union (Min(queue) + 1)..(front + queued)
  /\ discarded' = discarded + (queued - Size(r))
  /\ epoch' = epoch + 1
  /\ queue' = {} /\ queued' = 0 /\ UNCHANGED front
  /\ running' = FALSE /\ requests' = requests \ {r}
  /\ condition' = "uncertain" /\ refusal' = outcome

\* deliver gives up on r with an outcome that is not 'sent'.
Fails(r, outcome) ==
  /\ IF r.epoch = epoch
     THEN Stop(r, outcome)
     ELSE Leave(r, chunk) /\ UNCHANGED <<epoch, discarded, doubtful, behind>>
  /\ UNCHANGED <<submitted, chunk, sentBytes, controls, resets, arrived, past>>

\* A mutant of Busy: a busy answer to bytes the other side took is retried too.
RetryWhatever(r) ==
  /\ r \in requests /\ r.state = "out"
  /\ r.attempt < BusyRetries /\ r.epoch = epoch
  /\ requests' = (requests \ {r}) \union
       {[r EXCEPT !.state = "asleep", !.attempt = @ + 1, !.taken = FALSE]}
  /\ UNCHANGED <<submitted, front, queue, queued, running, epoch, condition, refusal, chunk,
                 sentBytes, discarded, controls, resets, history>>

\* send rejects with controller-busy, before the bytes were taken; the same
\* bytes are tried again after a pause.
Busy(r) ==
  /\ r \in requests /\ r.state = "out" /\ ~r.taken
  /\ r.attempt < BusyRetries /\ r.epoch = epoch
  /\ requests' = (requests \ {r}) \union {[r EXCEPT !.state = "asleep", !.attempt = @ + 1]}
  /\ UNCHANGED <<submitted, front, queue, queued, running, epoch, condition, refusal, chunk,
                 sentBytes, discarded, controls, resets, history>>

BusyTooLong(r) ==
  /\ r \in requests /\ r.state = "out" /\ ~r.taken
  /\ r.attempt >= BusyRetries \/ r.epoch # epoch
  /\ Fails(r, "busy")

Fenced(r) ==
  /\ r \in requests /\ r.state = "out" /\ ~r.taken
  /\ Fails(r, "fenced")

\* Any other rejection: the bytes may have been taken, or not.
Unknown(r) ==
  /\ r \in requests /\ r.state = "out"
  /\ Fails(r, "unknown-outcome")

\* The pause ends; the epoch is not looked at before the bytes go out again.
Wake(r) ==
  /\ r \in requests /\ r.state = "asleep"
  /\ requests' = (requests \ {r}) \union {[r EXCEPT !.state = "out"]}
  /\ UNCHANGED <<submitted, front, queue, queued, running, epoch, condition, refusal, chunk,
                 sentBytes, discarded, controls, resets, history>>

\* A mutant of Reset: the discarded bytes are not counted.
ResetQuietly ==
  /\ resets < MaxResets /\ resets' = resets + 1
  /\ epoch' = epoch + 1
  /\ queue' = {} /\ queued' = 0
  /\ condition' = "idle" /\ refusal' \in {"none", "reset"}
  /\ past' = past \union ((front + 1)..(front + queued)
                \ UNION { Bytes(r) : r \in { q \in requests : q.state = "out" } })
  /\ UNCHANGED <<submitted, front, running, chunk, sentBytes, discarded, requests, controls,
                 arrived, doubtful, behind>>

\* A view switch or a release: whatever waited belongs to the past.
Reset ==
  /\ resets < MaxResets /\ resets' = resets + 1
  /\ epoch' = epoch + 1
  /\ discarded' = discarded + queued
  /\ queue' = {} /\ queued' = 0
  /\ condition' = "idle" /\ refusal' \in {"none", "reset"}
  /\ past' = past \union ((front + 1)..(front + queued)
                \ UNION { Bytes(r) : r \in { q \in requests : q.state = "out" } })
  /\ UNCHANGED <<submitted, front, running, chunk, sentBytes, requests, controls, arrived,
                 doubtful, behind>>

-------------------------------------------------------------------------------
(* The environment.                                                        *)

\* The other side takes the bytes of a request on the wire.
Take(r) ==
  /\ r \in requests /\ r.state = "out" /\ ~r.taken
  /\ arrived' = Append(arrived, [from |-> r.from, to |-> r.to])
  /\ requests' = (requests \ {r}) \union {[r EXCEPT !.taken = TRUE]}
  /\ UNCHANGED <<submitted, front, queue, queued, running, epoch, condition, refusal, chunk,
                 sentBytes, discarded, controls, resets, doubtful, behind, past>>

\* Control is gained or lost.
ControlChanges ==
  /\ resets < MaxResets /\ resets' = resets + 1
  /\ controls' = ~controls
  /\ UNCHANGED <<inputState, history>>

Settle == \E r \in requests :
  Sent(r) \/ Busy(r) \/ BusyTooLong(r) \/ Fenced(r) \/ Unknown(r) \/ Wake(r)

InputNext ==
  \/ \E to \in Borders : Submit(to) \/ SubmitRefused(to)
  \/ Settle
  \/ \E r \in requests : Take(r)
  \/ Reset
  \/ ControlChanges

InputSpec == InputInit /\ [][InputNext]_inputVars

\* Every request settles: the transport has a timeout, a pause a timer.
InputFairSpec == InputSpec /\ WF_inputVars(Settle)

-------------------------------------------------------------------------------
(* Properties.                                                             *)

\* Every variable has its type; a loop runs exactly while it awaits something,
\* and at most one does, so that one request is in flight at a time.
InputTypeOK ==
  /\ submitted \in Borders /\ front \in Borders /\ queue \in SUBSET Borders
  /\ {queued, epoch, sentBytes, discarded, doubtful, resets} \subseteq Nat
  /\ {running, controls} \subseteq BOOLEAN
  /\ condition \in Condition /\ refusal \in Refusal
  /\ chunk \in MinChunk..ChunkBytes
  /\ requests \subseteq Request
  /\ Cardinality(requests) = (IF running THEN 1 ELSE 0)
  /\ arrived \in Seq([from : Nat, to : Nat]) /\ behind \subseteq Nat /\ past \subseteq Nat

\* Bytes arrive in the order they were typed and none arrives twice, whatever
\* failed, was retried or was left behind by a reset in between.
InTypedOrder ==
  \A i \in 1..(Len(arrived) - 1) : arrived[i].to <= arrived[i + 1].from

\* A request never begins or ends inside a character, whatever its budget shrank to, so
\* a lost or refused request cannot leave half a character in the PTY.
WholeCharacters == \A r \in requests : {r.from, r.to} \subseteq Borders

\* Nothing is dropped silently: bytes that were taken for sending are sent,
\* waiting, counted as discarded or of an outcome that was reported.  (A batch
\* that a reset counted may still succeed and be counted twice, never zero times.)
NothingDropped == submitted <= sentBytes + discarded + doubtful + queued

BytesArrived == UNION { Bytes(arrived[i]) : i \in DOMAIN arrived }

\* What waited behind a request that failed never arrives.
NothingBehindFailure == BytesArrived \intersect behind = {}

\* What is typed leaves the queue without another key being pressed.
KeysLeave == queue # {} ~> queue = {}

\* What a reset found waiting never arrives: "whatever was waiting belongs to
\* the past" (packages/terminal/src/input-controller.js:83).
ResetIsFinal == BytesArrived \intersect past = {}
===============================================================================
