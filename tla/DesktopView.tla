------------------------------ MODULE DesktopView ------------------------------
(***************************************************************************)
(* One desktop view of several sessions, and the keepers it talks to:      *)
(* apps/desktop/src/main.js (select, tapControl, control, release, poll,   *)
(* the wiring of InputController) and input-gate.js.                       *)
(*                                                                         *)
(* The view is single-threaded JavaScript, but every request is awaited:   *)
(* a selection, a tap, the Take control button, the input loop and the     *)
(* poll each stand at an await of their own, and what they read before it  *)
(* (active, serial, generation) may have changed when they go on.  Every   *)
(* request is its own connection, so requests overtake each other; one may *)
(* time out in the view and still be served later.                         *)
(*                                                                         *)
(* Keepers and the other view are reduced to what this view can observe of *)
(* them; SessionControl has them in detail.                                *)
(***************************************************************************)
EXTENDS Naturals, FiniteSets, SequencesExt

CONSTANTS
  Session,   \* the sessions
  Nowhere,   \* no session is shown
  Self,      \* this view
  Other,     \* the other view, with a well-behaved client
  Nobody,    \* no view
  MaxSerial, \* bound: selections
  MaxKeys,   \* bound: keys typed
  MaxTaps,   \* bound: taps on the terminal, and on the Take control and Watch buttons
  MaxLosses, \* bound: requests without an answer, and inputs a keeper refuses
  MaxMoves,  \* bound: leases the other view takes
  MaxGen     \* bound: leases of one session

ASSUME DesktopViewAssumption ==
  /\ Nowhere \notin Session
  /\ Cardinality({Self, Other, Nobody}) = 3
  /\ {MaxSerial, MaxKeys, MaxTaps, MaxLosses, MaxMoves, MaxGen} \subseteq Nat

VARIABLES
  keeper,     \* each session: the lease, its last input, its holder typed just now
  granted,    \* history: whom each lease of each session was granted to
  pty,        \* history: the keys each PTY received, from whom, under which lease
  resized,    \* history: the leases under which this view resized a session
  others,     \* the lease the other view believes to hold, or 0
  calls,      \* the requests of this view that are not settled
  serial,     \* serial, counts selections
  active,     \* active, the session shown
  generation, \* generation, the lease this view believes to hold
  sequence,   \* sequence, the number of its next input
  presence,   \* presence: what the last hello said of the holder
  forceNext,  \* forceNext
  ctl,        \* where the tap (acquiring) and the button's control() stand
  sel,        \* where the latest selection stands
  gate,       \* the keys waiting for control (pending)
  queue,      \* the keys in the InputController
  running,    \* its loop awaits a request
  inEpoch,    \* its epoch
  want,       \* history: the session each key was typed for
  mistaken,   \* history: it took a lease of one session for a lease of another
  budget      \* how much of each bound is used

leases == <<keeper, granted, pty, resized, others>>
shown == <<serial, active, presence, forceNext>>
input == <<queue, running, inEpoch>>
vars == <<leases, calls, shown, generation, sequence, ctl, sel, gate, input, want, mistaken, budget>>

Control == {"tap", "button"}
Op == {"hello", "acquire", "release", "input", "resize", "check"}
Reply == {"none", "ok", "refused", "fenced", "blocked", "error",
          "free", "mine", "quiet", "typing"}
NoControl == [stage |-> "none", epoch |-> 0, s |-> Nowhere, g |-> 0, key |-> FALSE]
NoGate == [stage |-> "none", epoch |-> 0, keys |-> <<>>]

\* A request before its operation's arguments are filled in.
Ask(by, op, s, e) ==
  [by |-> by, op |-> op, s |-> s, g |-> 0, n |-> 0, keys |-> <<>>, takeover |-> FALSE,
   epoch |-> e, reply |-> "none", lease |-> 0]

Init ==
  /\ keeper = [s \in Session |-> [gen |-> 0, held |-> FALSE, last |-> 0, busy |-> FALSE]]
  /\ granted = [s \in Session |-> [g \in 1..MaxGen |-> Nobody]]
  /\ pty = [s \in Session |-> <<>>] /\ resized = {}
  /\ others = [s \in Session |-> 0]
  /\ calls = {}
  /\ serial = 0 /\ active = Nowhere /\ generation = 0 /\ sequence = 1
  /\ presence = "none" /\ forceNext = FALSE
  /\ ctl = [c \in Control |-> NoControl]
  /\ sel = [item |-> Nowhere, stage |-> "idle"]
  /\ gate = NoGate
  /\ queue = <<>> /\ running = FALSE /\ inEpoch = 0
  /\ want = <<>> /\ mistaken = FALSE
  /\ budget = [taps |-> 0, losses |-> 0, moves |-> 0]

selecting == sel.stage # "idle"
acquiring == ctl["tap"].stage # "none"

-------------------------------------------------------------------------------
(* The keepers.                                                            *)

Holder(s) == IF keeper[s].held THEN granted[s][keeper[s].gen] ELSE Nobody
Honours(s, g) == keeper[s].held /\ keeper[s].gen = g

Grant(s, v) ==
  /\ keeper[s].gen < MaxGen
  /\ keeper' = [keeper EXCEPT ![s] = [gen |-> @.gen + 1, held |-> TRUE, last |-> 0, busy |-> TRUE]]
  /\ granted' = [granted EXCEPT ![s][keeper[s].gen + 1] = v]

Answered(c, reply, lease) ==
  calls' = (calls \ {c}) \union
    (IF c.by = "gone" THEN {} ELSE {[c EXCEPT !.reply = reply, !.lease = lease]})

ServeHello(c) ==
  /\ c.op = "hello"
  /\ Answered(c, IF Holder(c.s) = Nobody THEN "free" ELSE IF Holder(c.s) = Self THEN "mine"
                 ELSE IF keeper[c.s].busy THEN "typing" ELSE "quiet", 0)
  /\ UNCHANGED leases

ServeAcquire(c) ==
  /\ c.op = "acquire"
  /\ IF keeper[c.s].held /\ ~c.takeover
     THEN Answered(c, "refused", 0) /\ UNCHANGED leases
     ELSE /\ Grant(c.s, Self)
          /\ Answered(c, "ok", keeper[c.s].gen + 1)
          /\ UNCHANGED <<pty, resized, others>>

ServeRelease(c) ==
  /\ c.op = "release"
  /\ IF Honours(c.s, c.g)
     THEN Answered(c, "ok", 0) /\ keeper' = [keeper EXCEPT ![c.s].held = FALSE]
     ELSE Answered(c, "fenced", 0) /\ UNCHANGED keeper
  /\ UNCHANGED <<granted, pty, resized, others>>

ServeCheck(c) ==
  /\ c.op = "check"
  /\ Answered(c, IF Honours(c.s, c.g) THEN "ok" ELSE "fenced", 0)
  /\ UNCHANGED leases

ServeResize(c) ==
  /\ c.op = "resize"
  /\ IF Honours(c.s, c.g)
     THEN Answered(c, "ok", 0) /\ resized' = resized \union {<<c.s, c.g>>}
     ELSE Answered(c, "fenced", 0) /\ UNCHANGED resized
  /\ UNCHANGED <<keeper, granted, pty, others>>

Received(c) == [i \in DOMAIN c.keys |-> [by |-> Self, key |-> c.keys[i], gen |-> c.g]]

\* A mutant of ServeInput: neither lease nor number of an input are looked at.
ServeInputUnfenced(c) ==
  /\ c.op = "input"
  /\ pty' = [pty EXCEPT ![c.s] = @ \o Received(c)]
  /\ keeper' = [keeper EXCEPT ![c.s].busy = TRUE]
  /\ Answered(c, "ok", 0)
  /\ UNCHANGED <<granted, resized, others>>

\* The client never repeats a number with the same bytes, so what is not the next
\* number is an error.
ServeInput(c) ==
  /\ c.op = "input"
  /\ IF ~Honours(c.s, c.g)
     THEN Answered(c, "fenced", 0) /\ UNCHANGED <<keeper, pty>>
     ELSE IF c.n = keeper[c.s].last + 1
     THEN /\ pty' = [pty EXCEPT ![c.s] = @ \o Received(c)]
          /\ keeper' = [keeper EXCEPT ![c.s].last = c.n, ![c.s].busy = TRUE]
          /\ Answered(c, "ok", 0)
     ELSE Answered(c, "error", 0) /\ UNCHANGED <<keeper, pty>>
  /\ UNCHANGED <<granted, resized, others>>

KeeperServes(c) ==
  /\ c.reply = "none"
  /\ ServeHello(c) \/ ServeAcquire(c) \/ ServeRelease(c) \/ ServeCheck(c) \/ ServeResize(c)
       \/ ServeInput(c)
  /\ UNCHANGED <<shown, generation, sequence, ctl, sel, gate, input, want, mistaken, budget>>

\* An earlier input is still being written: the keeper says this one was not
\* accepted.
KeeperIsBlocked(c) ==
  /\ c.op = "input" /\ c.reply = "none" /\ c.by # "gone" /\ Honours(c.s, c.g)
  /\ budget.losses < MaxLosses /\ budget' = [budget EXCEPT !.losses = @ + 1]
  /\ Answered(c, "blocked", 0)
  /\ UNCHANGED <<leases, shown, generation, sequence, ctl, sel, gate, input, want, mistaken>>

\* The view gives up on a request.  It may be lost, served already, or served late,
\* if serving it changes anything.
TimesOut(c) ==
  /\ c.by # "gone" /\ budget.losses < MaxLosses
  /\ budget' = [budget EXCEPT !.losses = @ + 1]
  /\ \E late \in { {}, {[c EXCEPT !.by = "gone"]} } :
       /\ late = {} \/ (c.reply = "none" /\ c.op \notin {"hello", "check"})
       /\ calls' = (calls \ {c}) \union {[c EXCEPT !.reply = "error"]} \union late
  /\ UNCHANGED <<leases, shown, generation, sequence, ctl, sel, gate, input, want, mistaken>>

\* The other view: it takes a session, types once under the lease it was given, and
\* gives it back.
OtherTakes(s) ==
  /\ budget.moves < MaxMoves /\ budget' = [budget EXCEPT !.moves = @ + 1]
  /\ Holder(s) # Other /\ Grant(s, Other)
  /\ others' = [others EXCEPT ![s] = keeper[s].gen + 1]
  /\ UNCHANGED <<pty, resized>>

OtherTypes(s) ==
  /\ others[s] # 0 /\ Honours(s, others[s]) /\ keeper[s].last = 0
  /\ pty' = [pty EXCEPT ![s] = Append(@, [by |-> Other, key |-> 0, gen |-> others[s]])]
  /\ keeper' = [keeper EXCEPT ![s].last = 1, ![s].busy = TRUE]
  /\ UNCHANGED <<granted, resized, others, budget>>

OtherGivesBack(s) ==
  /\ others[s] # 0 /\ Honours(s, others[s])
  /\ keeper' = [keeper EXCEPT ![s].held = FALSE]
  /\ others' = [others EXCEPT ![s] = 0]
  /\ UNCHANGED <<granted, pty, resized, budget>>

OtherMoves(s) ==
  /\ OtherTakes(s) \/ OtherTypes(s) \/ OtherGivesBack(s)
  /\ UNCHANGED <<calls, shown, generation, sequence, ctl, sel, gate, input, want, mistaken>>

\* TYPING_GRACE_MS passes without an input; this view does not ask that of itself.
HolderGoesQuiet(s) ==
  /\ Holder(s) = Other /\ keeper[s].busy
  /\ keeper' = [keeper EXCEPT ![s].busy = FALSE]
  /\ UNCHANGED <<granted, pty, resized, others, calls, shown, generation, sequence, ctl,
                 sel, gate, input, want, mistaken, budget>>

-------------------------------------------------------------------------------
(* The input loop; see InputController for its detail.                     *)

\* The loop goes on with keys q, lease g and number n.  cs are the other calls.
SendOn(q, g, n, cs) ==
  /\ sequence' = n
  /\ IF q = <<>>
     THEN /\ queue' = q /\ running' = FALSE /\ calls' = cs /\ generation' = g
          /\ UNCHANGED inEpoch
     ELSE IF active = Nowhere \/ g = 0
     THEN /\ queue' = <<>> /\ running' = FALSE /\ calls' = cs /\ generation' = 0
          /\ inEpoch' = inEpoch + 1
     ELSE /\ queue' = q /\ running' = TRUE /\ generation' = g
          /\ calls' = cs \union {[Ask("input", "input", active, inEpoch)
                                    EXCEPT !.g = g, !.n = n, !.keys = q]}
          /\ UNCHANGED inEpoch

\* submit: refused without control, queued behind a request, or sent.
Submit(ks) ==
  IF active = Nowhere \/ generation = 0
  THEN UNCHANGED <<calls, generation, sequence, input>>
  ELSE IF running
  THEN /\ queue' = queue \o ks
       /\ UNCHANGED <<calls, generation, sequence, running, inEpoch>>
  ELSE SendOn(queue \o ks, generation, sequence, calls)

\* The answer to an input.  "blocked" is the message of an input that was not
\* accepted, which api() does not know as controller-busy.
InputReturns(c) ==
  /\ c.by = "input" /\ c.reply # "none"
  /\ LET current == c.epoch = inEpoch
         rest == IF current /\ c.reply = "ok"
                 THEN SubSeq(queue, Len(c.keys) + 1, Len(queue)) ELSE queue
         n == IF c.reply = "ok" /\ generation = c.g THEN c.n + 1 ELSE sequence
     IN IF current /\ c.reply # "ok"
        THEN /\ queue' = <<>> /\ running' = FALSE /\ inEpoch' = inEpoch + 1
             /\ generation' = 0 /\ calls' = calls \ {c}
             /\ UNCHANGED sequence
        ELSE SendOn(rest, generation, n, calls \ {c})
  /\ UNCHANGED <<leases, shown, ctl, sel, gate, want, mistaken, budget>>

\* input.reset: the queue belongs to the past.
ResetInput ==
  /\ queue' = <<>> /\ inEpoch' = inEpoch + 1
  /\ UNCHANGED running

-------------------------------------------------------------------------------
(* Selecting a session, and giving control back.                           *)

\* release(), up to its request; whoever awaited an earlier selection's request
\* has no further effect.
GiveUpControl(by) ==
  /\ generation' = 0
  /\ ResetInput
  /\ LET old == { IF c.by = "select" THEN [c EXCEPT !.by = "gone"] ELSE c : c \in
                    { d \in calls : ~(d.by = "select" /\ d.reply # "none") } }
         drop == IF by = "select" THEN old ELSE calls
     IN calls' = IF active # Nowhere /\ generation # 0
                 THEN drop \union {[Ask(by, "release", active, serial) EXCEPT !.g = generation]}
                 ELSE drop

\* From the end of release() to the next await.
Clear ==
  /\ active' = Nowhere /\ forceNext' = FALSE /\ generation' = 0 /\ sequence' = 1

Select(s) ==
  /\ serial < MaxSerial
  /\ serial' = serial + 1
  /\ GiveUpControl("select")
  /\ IF active # Nowhere /\ generation # 0
     THEN /\ sel' = [item |-> s, stage |-> "releasing"]
          /\ UNCHANGED <<active, forceNext, sequence>>
     ELSE /\ sel' = [item |-> s, stage |-> "clearing"]
          /\ active' = Nowhere /\ forceNext' = FALSE /\ sequence' = 1
  /\ UNCHANGED <<leases, presence, ctl, gate, want, mistaken, budget>>

SelectReleased(c) ==
  /\ c.by = "select" /\ c.reply # "none" /\ sel.stage = "releasing"
  /\ calls' = calls \ {c}
  /\ sel' = [sel EXCEPT !.stage = "clearing"]
  /\ Clear /\ ResetInput
  /\ UNCHANGED <<leases, serial, presence, ctl, gate, want, mistaken, budget>>

\* The screen is cleared; the session is shown, and asked for its status.
SelectShows ==
  /\ sel.stage = "clearing"
  /\ active' = sel.item /\ presence' = "none"
  /\ sel' = [sel EXCEPT !.stage = "asking"]
  /\ UNCHANGED <<leases, calls, serial, forceNext, generation, sequence, ctl, gate, input,
                 want, mistaken, budget>>

\* status and screen are answered, or fail.
SelectEnds ==
  /\ sel.stage = "asking"
  /\ sel' = [sel EXCEPT !.stage = "idle"]
  /\ UNCHANGED <<leases, calls, shown, generation, sequence, ctl, gate, input, want, mistaken, budget>>

\* The Watch button.
Detach ==
  /\ generation # 0
  /\ budget.taps < MaxTaps /\ budget' = [budget EXCEPT !.taps = @ + 1]
  /\ GiveUpControl("gone")
  /\ UNCHANGED <<leases, shown, sequence, ctl, sel, gate, want, mistaken>>

-------------------------------------------------------------------------------
(* Taking control: tapControl (the tap) and control (both).                *)

\* control(), up to its request, for a thread that has taken its calls cs so far.
\* The session is the one shown now.
TakeControl(c, key, force, cs) ==
  IF active = Nowhere \/ generation # 0
  THEN /\ ctl' = [ctl EXCEPT ![c] = NoControl] /\ calls' = cs
  ELSE /\ ctl' = [ctl EXCEPT ![c] = [stage |-> "acquire", epoch |-> serial, s |-> active,
                                     g |-> 0, key |-> key]]
       /\ calls' = cs \union {[Ask(c, "acquire", active, serial) EXCEPT !.takeover = force]}

\* tapControl, up to hello's request.
StartTap(key) ==
  /\ active # Nowhere /\ generation = 0 /\ ~acquiring
  /\ ctl' = [ctl EXCEPT !["tap"] = [NoControl EXCEPT !.stage = "hello", !.epoch = serial,
                                                       !.s = active, !.key = key]]
  /\ calls' = calls \union {Ask("tap", "hello", active, serial)}

\* A tap on the terminal, whether or not a selection is going on.
Tap ==
  /\ budget.taps < MaxTaps /\ budget' = [budget EXCEPT !.taps = @ + 1]
  /\ StartTap(FALSE)
  /\ UNCHANGED <<leases, shown, generation, sequence, sel, gate, input, want, mistaken>>

Push ==
  /\ ctl["button"].stage = "none" /\ active # Nowhere /\ generation = 0
  /\ budget.taps < MaxTaps /\ budget' = [budget EXCEPT !.taps = @ + 1]
  /\ TakeControl("button", FALSE, forceNext, calls)
  /\ UNCHANGED <<leases, shown, generation, sequence, sel, gate, input, want, mistaken>>

\* hello is answered: controlIntent decides what the tap does.  A second tap
\* within the window confirms; a key is never a second tap.
TapGreeted(c) ==
  /\ c.by = "tap" /\ c.op = "hello" /\ c.reply # "none"
  /\ presence' = IF c.epoch = serial /\ c.reply # "error" THEN c.reply ELSE presence
  /\ \E second \in BOOLEAN :
       /\ second => ~ctl["tap"].key /\ presence' = "typing"
       /\ IF generation = 0 /\ presence' = "typing" /\ ~second
          THEN /\ ctl' = [ctl EXCEPT !["tap"] = NoControl] /\ calls' = calls \ {c}
               /\ UNCHANGED forceNext
          ELSE LET takeover == generation = 0 /\ presence' \in {"mine", "quiet", "typing"}
               IN /\ forceNext' = takeover
                  /\ TakeControl("tap", ctl["tap"].key, takeover, calls \ {c})
  /\ UNCHANGED <<leases, serial, active, generation, sequence, sel, gate, input, want, mistaken, budget>>

\* The session that is shown, or will be when the selection goes on.
Here == IF active = Nowhere THEN sel.item ELSE active

\* acquire is granted.  A lease of a selection that is past is given back.
\* Otherwise it becomes the view's, and the session shown gets a resize.  A tap
\* during a selection asks for the session that was shown before.
Acquired(c) ==
  /\ c.by \in Control /\ c.op = "acquire" /\ c.reply = "ok"
  /\ IF c.epoch # serial
     THEN /\ calls' = (calls \ {c}) \union
                        {[Ask(c.by, "release", c.s, c.epoch) EXCEPT !.g = c.lease]}
          /\ ctl' = [ctl EXCEPT ![c.by].stage = "giveback"]
          /\ UNCHANGED <<generation, sequence, mistaken>>
     ELSE /\ calls' = calls \ {c}
          /\ generation' = c.lease /\ sequence' = 1
          /\ mistaken' = (mistaken \/ c.s # Here)
          /\ ctl' = [ctl EXCEPT ![c.by] = [@ EXCEPT !.stage = "draining", !.s = active, !.g = c.lease]]
  /\ UNCHANGED <<leases, shown, sel, gate, input, want, budget>>

\* A mutant of AcquireFails: acquiring is not cleared after an error.
AcquireFailsOnce(c) ==
  /\ c.by \in Control /\ c.op = "acquire" /\ c.reply \notin {"none", "ok"}
  /\ calls' = calls \ {c}
  /\ forceNext' = (forceNext \/ c.epoch = serial)
  /\ UNCHANGED <<ctl, leases, serial, active, presence, generation, sequence, sel, gate, input, want, mistaken, budget>>

\* acquire is refused or fails.  Before presence is known, a refusal is taken
\* for an older keeper and followed by a takeover.
AcquireFails(c) ==
  /\ c.by \in Control /\ c.op = "acquire" /\ c.reply \notin {"none", "ok"}
  /\ IF c.reply = "refused" /\ presence = "none" /\ ~forceNext
     THEN /\ calls' = (calls \ {c}) \union
                        {[Ask(c.by, "acquire", c.s, c.epoch) EXCEPT !.takeover = TRUE]}
          /\ UNCHANGED <<ctl, forceNext>>
     ELSE /\ calls' = calls \ {c}
          /\ ctl' = [ctl EXCEPT ![c.by] = NoControl]
          /\ forceNext' = (forceNext \/ c.epoch = serial)
  /\ UNCHANGED <<leases, serial, active, presence, generation, sequence, sel, gate, input, want, mistaken, budget>>

\* The lease of a past selection is given back, or the resize is answered.
ControlSettles(c) ==
  /\ c.by \in Control /\ c.op \in {"release", "resize"} /\ c.reply # "none"
  /\ calls' = calls \ {c}
  /\ ctl' = [ctl EXCEPT ![c.by] = NoControl]
  /\ forceNext' = (forceNext /\ (c.op = "release" \/ ctl[c.by].epoch # serial))
  /\ UNCHANGED <<leases, serial, active, presence, generation, sequence, sel, gate, input, want, mistaken, budget>>

\* The poll and the parser are drained; the resize goes out if it is still current.
Resize(c) ==
  /\ ctl[c].stage = "draining"
  /\ IF ctl[c].epoch = serial /\ ctl[c].g = generation /\ ctl[c].s # Nowhere
     THEN /\ calls' = calls \union
                        {[Ask(c, "resize", ctl[c].s, serial) EXCEPT !.g = ctl[c].g]}
          /\ ctl' = [ctl EXCEPT ![c].stage = "resizing"]
          /\ UNCHANGED forceNext
     ELSE /\ ctl' = [ctl EXCEPT ![c] = NoControl]
          /\ forceNext' = (forceNext /\ ctl[c].epoch # serial)
          /\ UNCHANGED calls
  /\ UNCHANGED <<leases, serial, active, presence, generation, sequence, sel, gate, input, want, mistaken, budget>>

-------------------------------------------------------------------------------
(* Keys.                                                                   *)

\* A key: sent at once while control is held and settled, else it waits at the
\* gate.  Keys of an earlier selection are dropped.
Key ==
  /\ Len(want) < MaxKeys
  /\ active # Nowhere \/ selecting
  /\ LET k == Len(want) + 1
         waiting == gate.stage # "none" /\ gate.epoch = serial
     IN /\ want' = Append(want, IF selecting THEN sel.item ELSE active)
        /\ IF ~waiting /\ generation # 0 /\ ~acquiring /\ ~selecting
           THEN Submit(<<k>>) /\ gate' = NoGate
           ELSE /\ gate' = IF waiting THEN [gate EXCEPT !.keys = Append(@, k)]
                           ELSE [stage |-> "waiting", epoch |-> serial, keys |-> <<k>>]
                /\ UNCHANGED <<calls, generation, sequence, input>>
  /\ UNCHANGED <<leases, shown, ctl, sel, mistaken, budget>>

\* The gate's acquire, once no selection is going on: control is there, a tap is
\* under way, or a tap is started for the keys.
GateAsks ==
  /\ gate.stage = "waiting" /\ gate.epoch = serial /\ ~selecting
  /\ IF active # Nowhere /\ generation = 0 /\ ~acquiring
     THEN /\ StartTap(TRUE)
          /\ gate' = [gate EXCEPT !.stage = "tapping"]
     ELSE /\ gate' = [gate EXCEPT !.stage = IF active = Nowhere \/ generation # 0
                                            THEN "asked" ELSE "tapping"]
          /\ UNCHANGED <<ctl, calls>>
  /\ UNCHANGED <<leases, shown, generation, sequence, sel, input, want, mistaken, budget>>

\* A mutant of GateOpens: the keys go wherever the view is now.
GateOpensAnywhere ==
  /\ gate.stage = "asked" \/ (gate.stage = "tapping" /\ ~acquiring)
       \/ (gate.stage # "none" /\ gate.epoch # serial /\ ~selecting)
  /\ gate' = NoGate
  /\ IF generation # 0 THEN Submit(gate.keys)
     ELSE UNCHANGED <<calls, generation, sequence, input>>
  /\ UNCHANGED <<leases, shown, ctl, sel, want, mistaken, budget>>

\* The gate's acquire is over: the keys go together, or are dropped with a notice.
GateOpens ==
  /\ gate.stage = "asked" \/ (gate.stage = "tapping" /\ ~acquiring)
       \/ (gate.stage # "none" /\ gate.epoch # serial)
  /\ gate' = NoGate
  /\ IF gate.epoch = serial /\ generation # 0 THEN Submit(gate.keys)
     ELSE UNCHANGED <<calls, generation, sequence, input>>
  /\ UNCHANGED <<leases, shown, ctl, sel, want, mistaken, budget>>

-------------------------------------------------------------------------------
(* The poll's control check.                                               *)

PollAsks ==
  /\ ~selecting /\ active # Nowhere /\ generation # 0
  /\ \A c \in calls : c.by # "poll"
  /\ \A c \in Control : ctl[c].stage # "resizing"
  /\ calls' = calls \union {[Ask("poll", "check", active, serial) EXCEPT !.g = generation]}
  /\ UNCHANGED <<leases, shown, generation, sequence, ctl, sel, gate, input, want, mistaken, budget>>

\* A mutant of PollReturns: the answer is not looked at.
PollIgnores(c) ==
  /\ c.by = "poll" /\ c.reply # "none"
  /\ calls' = calls \ {c}
  /\ UNCHANGED <<leases, shown, generation, sequence, ctl, sel, gate, input, want, mistaken, budget>>

\* Only the keeper's answer that the lease is stale ends control.
PollReturns(c) ==
  /\ c.by = "poll" /\ c.reply # "none"
  /\ calls' = calls \ {c}
  /\ generation' = IF c.epoch = serial /\ generation = c.g /\ c.reply = "fenced"
                   THEN 0 ELSE generation
  /\ UNCHANGED <<leases, shown, sequence, ctl, sel, gate, input, want, mistaken, budget>>

-------------------------------------------------------------------------------
Serve(by) == \E c \in calls : c.by = by /\ KeeperServes(c)
Return == \E c \in calls : InputReturns(c) \/ SelectReleased(c) \/ TapGreeted(c)
                             \/ Acquired(c) \/ AcquireFails(c) \/ ControlSettles(c)
Thread == \/ Return \/ SelectShows \/ SelectEnds \/ GateAsks \/ GateOpens
          \/ \E c \in Control : Resize(c)
Poll == PollAsks \/ \E c \in calls : PollReturns(c)

Next ==
  \/ \E by \in Control \union {"select", "input", "poll", "gone"} : Serve(by)
  \/ \E c \in calls : KeeperIsBlocked(c) \/ TimesOut(c)
  \/ \E s \in Session : OtherMoves(s) \/ HolderGoesQuiet(s) \/ Select(s)
  \/ Detach \/ Tap \/ Push \/ Key
  \/ Thread
  \/ Poll

Spec == Init /\ [][Next]_vars

\* Keepers serve what reaches them, answers are handled, and the poll runs on
\* its timer.
FairSpec ==
  /\ Spec
  /\ \A by \in Control \union {"select", "input", "poll"} : WF_vars(Serve(by))
  /\ WF_vars(Return) /\ WF_vars(SelectShows) /\ WF_vars(SelectEnds)
  /\ WF_vars(GateAsks) /\ WF_vars(GateOpens) /\ WF_vars(\E c \in Control : Resize(c))
  /\ WF_vars(Poll)

-------------------------------------------------------------------------------
(* Properties.                                                             *)

\* Every variable has its type, and each thread of the view awaits one request.
TypeOK ==
  /\ active \in Session \union {Nowhere}
  /\ generation \in 0..MaxGen /\ sequence \in Nat /\ serial \in 0..MaxSerial
  /\ presence \in {"none", "free", "mine", "quiet", "typing"}
  /\ \A c \in calls : c.op \in Op /\ c.reply \in Reply /\ c.s \in Session
  /\ \A by \in Control \union {"select", "input", "poll"} :
       Cardinality({ c \in calls : c.by = by }) <= 1
  /\ running <=> \E c \in calls : c.by = "input"
  /\ \A c \in Control : ctl[c].stage \in {"none", "draining"} <=> \A d \in calls : d.by # c
  /\ mistaken \in BOOLEAN /\ inEpoch \in Nat /\ queue \in Seq(DOMAIN want)

\* A key reaches only the session that was chosen when it was typed, whatever
\* selections, takeovers and late answers came in between.
RightSession ==
  \A s \in Session : \A e \in Range(pty[s]) : e.by = Self => want[e.key] = s

\* Keys arrive in the order they were typed and none arrives twice, also when
\* an input was lost, served late or followed by a new lease; unless the view ever
\* took a lease of one session for a lease of another (see OwnLease).
KeysInOrder ==
  mistaken \/ \A s \in Session : \A i, j \in 1..Len(pty[s]) :
    i < j /\ pty[s][i].by = Self /\ pty[s][j].by = Self => pty[s][i].key < pty[s][j].key

\* A key that waits for control is sent or given up; it is never left waiting.
GateEmpties == gate.stage # "none" ~> gate.stage = "none"

\* A view that lost its lease finds out, even if nothing is typed.
LossIsNoticed ==
  (generation # 0 /\ active # Nowhere /\ ~selecting /\ Holder(active) # Self)
    ~> (generation = 0 \/ active = Nowhere \/ selecting \/ Holder(active) = Self)

\* A keeper takes bytes and sizes from a view only under a lease it granted to
\* that view: generations "remain the only thing that decides whose bytes are
\* accepted" (apps/desktop/src/presence.js:3).
OwnLease ==
  /\ \A s \in Session : \A e \in Range(pty[s]) : e.by = Self => granted[s][e.gen] = Self
  /\ \A r \in resized : granted[r[1]][r[2]] = Self

\* And it does, unless the view ever took a lease of one session for a lease of
\* another: whatever selections, taps and late answers come in between, a lease it
\* uses on a session is one that this session's keeper granted to it.
LeasesAreOwn == mistaken \/ OwnLease

\* "A key never confirms a takeover from someone who is typing"
\* (apps/desktop/src/main.js:266): a key asks for a takeover only once hello said
\* that the holder is quiet or this view itself.
KeyNeverTakesOver ==
  \A c \in calls : c.by = "tap" /\ c.op = "acquire" /\ c.takeover /\ c.epoch = serial
                     /\ ctl["tap"].key => presence \in {"mine", "quiet"}
===============================================================================
