# A TLA+ development of DOT Terminal

DOT Terminal keeps terminal sessions alive in a small process of their own (the
*keeper*), lets several views (desktop windows, phones, other machines through a
node) watch a session, and lets one of them at a time type into it. A *hub* serves the
owner's own windows, and a *node* serves paired devices. This directory holds TLA+ modules
of the parts where that can go wrong, the TLC configurations that check them on small
instances, and theorems that TLAPS checks for every instance. `PROJECT.json` is the machine-readable index: components, runs, the
source lines each definition stands for, one seeded bug for each property, hazards.

Paths below are relative to the repository's root.

## Running it

    tlc -workers 2 -config SessionControl_order.cfg MCSessionControl
    tlapm SessionControlProofs.tla      # and FencedInput-, Keeper-, DesktopView-, Registry-,
                                        # Gateway-, Hub- and JournalProofs

A configuration is named `<module>_<what it checks>.cfg` and belongs to `MC<module>.tla`, or to
the module itself where there is none; `DesktopView_order.cfg` belongs to `MCDesktopOrder.tla`.
All set `CHECK_DEADLOCK FALSE`: the modelled programs do stop (the child has exited, the
keeper has left, the bounded supply of keys, requests or output is used up).

## The system

| Part | State | Operations | Hard behaviour |
|---|---|---|---|
| **Controller lease** `crates/core` | generation, held or not, last sequence, retry window (64 inputs, 64 KiB), doubt, handoff ticket and deadline | acquire, release, check, offer, cancel and accept a handoff, prepare, written | retries against a window that forgets, tickets that must die with their lease |
| **Output history** `crates/core` | ring (1 MiB), next offset, geometry marks (256) | append, resize, read, read_frame | slow readers, more resizes than marks |
| **Keeper: control and input** `crates/session` | controls mutex, writer mutex, PTY, presence; one thread a connection | dispatch's control arms, input() | decide, write and record are three critical sections; a write can block for ever or fail half-way |
| **Keeper: output** `crates/session` | screen and history mutex, signal counter, exited, output_closed | reader and wait threads, Resize, subscribe, Read, ReadFrame | lock order, lost wakeups, the last frame |
| **Keeper: lifecycle** `crates/session` | stop flag, client count, last client's time, socket | accept loop, Stop, reaper | waking a blocked accept, slots on every way out, when to leave |
| **Authority journal** `crates/authority`, **node bridge** `crates/node/src/bridge.rs` | chained file under a file lock, verified prefix and offset of each process, anchored tip | open, catch_up, append, authorize, finish, call | crash between any two steps, two processes, rollback |
| **Input path in JavaScript** `packages/terminal` | queue, count, epoch, chunk budget, one loop | submit, drain, deliver, reset | three awaits, a reset at each of them, characters of several bytes |
| **Desktop view** `apps/desktop` | active session, serial, generation, sequence, presence, waiting keys | select, tap, control, release, resize, key gate, poll | five loops at awaits of their own, answers that come late |
| **Node registry and pairing** `crates/node/src/main.rs`, `pairing.rs` | identity, peers, certificate and QR files, each saved through a pending one; the registry lock | Init, Pair, Revoke, Invite | crash or power loss between files, a person who is waited for in the middle of a change |
| **Node gateway** `crates/node/src/main.rs`, `lib.rs`, `workspace.rs` | connections, pinned certificates, slots (16) | serve, authorize, call | a revocation between pin, request and performance; silent peers |
| **Desktop hub: RPC, devices** `crates/desktop/src/main.rs`, `devices.rs` | requests it relays | operation, create, relay, remote_operation | each hop gives up by its own clock, and the next one goes on |
| **Desktop hub: doorbell, iTerm child** `crates/desktop/src/main.rs` | a channel of notes between task and thread; a channel of the child's answers | doorbell, ring_doorbell, iterm | each side learns only by using the channel that the other is gone; answers that name no request |
| **Desktop vault** `crates/desktop/src/vault.rs` | sealed file, memory, audit | open, put, delete, release, launched | failure before or after the rename; power failure before the directory's sync |
| **Labels, interface state, actions** `crates/desktop/src/session_summary.rs`, `main.rs` | small files that are renamed into place | set and read | savers and pollers at the same time |
| **Agent log** `crates/desktop/src/agent_log.rs`, `apps/desktop/src/agent-analysis.js` | a log that grows, the feed of the pane | tail_start, read, pullAgent, foldAgent | a line that is half there, answers that overlap |
| **Resource sampler** `crates/resources` | discovery bound to process starts, history, pipe to the hub | sample, discover, prune | pids that are used again while the system is asked; a parent that dies |
| **Others** | | command line, framing of the wire protocol, terminal engine, Android app, scripts | mostly I/O, parsing and display |

They interact as follows. A view (or a node for a peer) sends one request on each
connection to a keeper; the only answer pushed is a subscription's frames. The keeper
hands the request to a thread, and its threads meet in the four mutexes and the signal.
The node bridge spends a use of a grant in the journal before it forwards a command to a
keeper, and records the outcome. In the view, the gate hands keys to the input
controller, which sends them under the generation that select/control/poll maintain.
A paired device reaches a keeper through the node and the hub behind it, and the sessions
of another machine through that hub and the one over there. The registry is changed by
commands that are processes of their own, while the node serves: it reads the file anew
for each connection and once more for each request. The parts of the hub (vault, iTerm
child, doorbell, small files, collector) share no state with each other.

### What makes each part correct

- *Input*: the PTY receives inputs in the order of leases and numbers, none twice, none
  inside another; after a failed write nothing more of that lease; an acknowledgement is
  the truth; every request is answered, also behind a program that does not read.
- *Handoff*: an open ticket belongs to the lease in force.
- *Output*: a frame names the grid its bytes were parsed under; a gap is told; the
  closing frame is the last; nobody waits past output.
- *Lifecycle*: running work is never reaped; a slot never leaks; whoever stops the keeper
  does stop it.
- *Journal*: a use once performed is spent on disk and in the anchor; one performance for
  each operation and at most the budget for each grant, whatever crashed.
- *Registry*: enrolments and revocations are whole, one on top of the other, also behind an
  invitation that waits for a person; nothing but a failure leaves anything that refuses
  the next command; an invitation ends.
- *Gateway*: nothing is done for a device beyond its grants and the routes it may take;
  what is revoked is refused; a request is done once at most and answered truly.
- *Vault*: acknowledged is stored; secrets go out only on a stored record.
- *Hub*: an answer is the one to its own question; "exited" is rung last; a call is shown
  once; a label is one somebody saved; a process has only its own service and ports; no
  thread outlives what it serves.
- *View*: keys reach the session they were typed for, in order, once, or the person is
  told; nothing waits for ever.

## Modules

| Module | Models | Composed with |
|---|---|---|
| `Controller` | `Controller` of `crates/core/src/lib.rs`, one action an operation | |
| `SessionControl` | dispatch's control arms and `input()` of `crates/session/src/main.rs` | extends `Controller`; implements `FencedInput` |
| `FencedInput` | the abstract service: leases follow one another, one input at a time, parts in order, a failure ends a lease's input | |
| `History` | `History` of `crates/core/src/lib.rs` | |
| `KeeperState` | what a keeper knows of its program: it has exited, its output is all there | |
| `SessionOutput` | reader, wait thread, Resize, subscribe, Read and ReadFrame | extends `History` and `KeeperState`: sets the two flags |
| `KeeperLife` | accept loop, slots, Stop, reaper, socket | extends `KeeperState`: acts on the two flags |
| `Journal` | journal, anchor and the bridge's control call | |
| `InputController` | `packages/terminal/src/input-controller.js` | |
| `DesktopView` | `apps/desktop/src/main.js`, `input-gate.js` | reduces keepers and InputController to what the view sees of them |
| `PeerBook` | the abstract registry: changes one after another, each whole; a power failure takes the newest back | |
| `Registry` | Init, Pair, Revoke of `node/src/main.rs`, `pairing.rs`, over files | implements `PeerBook` |
| `Gateway` | `serve`, `authorize`, `workspace.rs`, and the hub's `operation`, `relay`, `remote_operation`, `create` | uses `PeerBook` for what changes meanwhile |
| `Vault` | `desktop/src/vault.rs`, `vault_api` | |
| `ItermBridge` | `Bridge` and `iterm()` of `desktop/src/main.rs` | |
| `Doorbell` | `doorbell()` and `ring_doorbell()` | the keeper's side is what `SessionOutput` shows of a subscription |
| `AgentLog` | `agent_log.rs`, `agent_events`, `pullAgent`, `foldAgent` | |
| `HubFiles` | `session_summary.rs`, `ui_state_set`, `view_snapshot`, `view_actions` | |
| `Sampler` | `crates/resources/src`, and the hub's thread that reads it | |
| `MC...` | the instances; `MCHub` holds the last six, each explored by itself; `MCDesktopOrder` is one behaviour of `DesktopView`, step by step | |
| `...Proofs` | the theorems: `SessionControl`, `FencedInput`, `Keeper` (of `SessionOutput` and `KeeperLife`), `Journal`, `DesktopView`, `Registry`, `Gateway`, and `Hub` for the six parts of the hub and `InputController` | |

### How state and actions correspond

**Controller, SessionControl.** `generation`, `active`, `lastSequence`, `recent`,
`uncertain` and `handoff` are the fields of `Controller`; `overdue` says that the ticket's
120 s deadline has passed, a fact that may become true at any time after the offer. An
operation under the controls mutex is one action (`TakeControl`, `ReleaseControl`,
`DrawTicket`, `WithdrawTicket`, `RedeemTicket`). `input()` is not: a thread waits for the
writer mutex (`Arrive`, `TakeWriter`, or `GiveUp` after a second), decides under controls
(`StartWrite`, `AnswerRetry`, `Refuse`), writes with no controls mutex (`WritePart`, once
for each `write` the kernel splits the bytes into, or `WriteFails`), and records under controls again
(`RecordWritten`). Control operations interleave between all of these. An input request
carries any generation and number, so it stands for a retry, a late one, or a wrong one.

**History, SessionOutput.** A byte is named by its place in the child's output, so a lost,
repeated or moved byte shows. `screenLock` and `historyLock` are the two mutexes; each
action is what happens between two lock operations. `parsedUnder` remembers what the
screen was when it parsed each byte; a frame is honest if it says the same.

**KeeperLife.** `conn` is a connection's life from the backlog to its thread's end,
`main` the accept loop, `reaper` its thread. A failed accept or spawn is not modelled.

**Journal.** A hash is all that was hashed into it: the entries from the first line on. So a
tip is a sequence of entries, its `seq` is the length, and a line holds its predecessor's tip. A
process's `applied` is the tip it has verified, which is all its memory is made from, `readTo`
where it reads on, `floor` the last anchored tip it saw. Every step of `authorize` that touches the file or the anchor is an action and
`Crash` and `PowerLoss` may come between any two; `PowerLoss` takes the lines not yet
synced. `Store` says what may be rolled back: an old copy of the `"file"` is put back while no process has
it open, or also while one has (`"open"`); the `"anchor"` is reset. The file or the anchor, not both: each is
the other's witness, and nothing in the code could notice. What is said of the file on disk is said as long as the file
itself was not replaced; `ExecutedOnce` and `WithinBudget` are said without condition. Whatever `verify` refuses (expiry, signature, policy) never gets to spend.

**InputController.** All that is typed is one stream of bytes, and a byte is its place in it; `Borders`
are the places between characters. The pieces of the queue follow one another, so the queue is
where the first one begins and the set of places where they end. `requests` is the one batch the
loop awaits (a request that is out, or the pause before a busy retry) and those of loops
that a reset left behind.

**DesktopView.** Every await is a place where a thread of the view stands (`ctl`, `sel`,
`gate`, `running`) and an entry of `calls`; serving a request and handling its answer are
separate actions and happen in any order. `TimesOut` gives up on a request that was lost,
has been served, or will be served later. An input whose number is not the next one is an
error at the keeper of this model: the client never sends a number twice with the same
bytes, so the retry window plays no part. `mistaken` is history: a lease of one session has
been taken for a lease of another (the answer came to a view that shows something else).

**Registry.** A process's `job` is the command it runs and where it stands in it; one step is
one operation on a file, the lock, or the person. `store` is what processes see, `disk`
what a power failure leaves, `unsynced` the files whose content is not on the disk: `save`
syncs the file but not its directory, so `Settle` may lag behind. `Fails` is any operation
that returns an error, `Dies` a kill; they and power losses are bounded by `MaxCuts`. `PeerBook`'s `book`
and `kept` are `store["peers"]` and `disk["peers"]`, nothing is hidden behind the mapping.

**Gateway.** For each connection, `conn` says where the node's thread stands and what was
pinned at the handshake, `hub` and `far` what the hub and the hub of the other device do on
its behalf. Every hop may give up (`Deadline`, `HubAnswers`, `RelayAnswers`) at any time while the next
goes on: the clocks of 3, 5, 8 and 10 s are not compared, which allows more than they do.
`done` counts how often the request has been performed, `conn[c].entitled` (history) whether
its device was granted it at some moment since it was sent.

**Vault.** An operation is the change in memory, the write beside, the rename, the sync of
the directory, the answer, each an action; `SaveFails` may come instead of each and puts memory back.
`acked` and `allowed` are history: what was acknowledged, and what the file may hold.

**ItermBridge, Doorbell.** Channels are bounded sequences; a full one blocks the sender. The
iTerm child answers lines in order, as late as it likes. The doorbell's keeper sends output, heartbeats
and one closing frame, and may be lost.

**AgentLog.** The log is bytes, so an answer can end inside a line. `pull` are the answers
under way, `feed` what each has folded; which feed the pane shows is `agentFeed`. Of the pane the
model keeps how often it was told of each event. A log that is replaced and the 6000 items the pane
keeps are left out.

**HubFiles.** A file is an inode, so that two writers can hold the same one and a rename can
take it from under a writer.

**Sampler.** A process is its pid and its start. What `launchctl` and `lsof` say of a pid is
said of whoever has it when they are asked.

## Runs

| Run | Instance | Shows |
|---|---|---|
| `SessionControl_order` | 2 input threads, 2 leases, 1 ticket, 2 inputs in 2 writes, window of 1 | `InputsInOrder`, `NothingAfterFailure`, `TicketOfHolder`; refines `FencedInput` (`ImplementsService`) |
| `SessionControl_answered` | 2 threads, 1 lease, 2 inputs of 2 payloads (1 and 2 bytes), window of 2 inputs and 2 bytes | `AckedIsWritten`; `InputsAnswered` |
| `SessionOutput_frames` | 4 bytes, ring of 3, frames and reads of 2, 3 resizes, 2 marks, a poller at any cursor | `FramesAreHonest` for every cursor, `ExitedAnswerIsLast` |
| `SessionOutput_stream` | 2 bytes, ring of 1, a subscriber at any cursor, a resize | `NoSilentLoss`; `OutputArrives`, `ResizeCompletes` |
| `KeeperLife_life` | 3 clients for 2 slots, Stop, removed directory | `SlotsMatchThreads`, `NeverReapsRunning`; `KeeperLeaves` |
| `Journal_spend` | 2 processes, 1 grant id in 2 terms (1 and 2 uses), 3 nonces, the file or the anchor rolled back (`Store` is {"file", "anchor"}) | `ExecutedOnce`, `WithinBudget` |
| `InputController_keys` | 4 characters of 1, 2, 1, 2 bytes (`Borders` {0, 1, 3, 4, 6}), budget 4 down to 2, queue of 5 bytes, 1 busy retry, 2 resets | `InTypedOrder`, `NothingDropped`; `KeysLeave` |
| `DesktopView_sessions` | 2 sessions, 2 selections, 2 keys, 1 tap or button, 1 fault | `RightSession`; `KeysInOrder`, as long as no lease was mistaken for another session's |
| `DesktopView_live` | 2 sessions, 2 selections, 1 key, 1 fault, another view | `GateEmpties`, `LossIsNoticed` |
| `Registry_enroll` | 2 processes of any command, 2 names, 1 device, 2 identities, 2 peers, 1 attempt at joining, 1 fault (failure, death or power loss) | `NothingLeftBehind`; `InvitationCloses`; refines `PeerBook` (`ImplementsPeerBook`) |
| `Gateway_requests` | 2 connections of a device, the owner's view, 2 names, 2 slots, seven requests (of the workspace here and over there, the terminal, the clipboard), the hub here attach-only | `RevokedIsRefused`, `DoneOnce`, `AnswersAreTrue`, `NothingBeyondGrants`; `ConnectionEnds` |
| `Hub_parts` | the six parts of the hub, each by itself (below) | `DisclosedIsAudited`, `AcknowledgedIsKept` (vault); `AnswerIsOwn` (iTerm); `ExitIsRungLast`, `DoorbellEnds` (doorbell); `CallsShownOnce` (agent log); `LabelsAreWhole` (files); `LabelsAreOwn`, `CollectorEnds` (sampler) |

`MCHub` extends six modules and adds a variable `part`, chosen in `Init` and never
changed: only the actions of that part are taken. The parts share no state, so their product
would add states and no behaviour. A property of one part holds in the other parts'
behaviours because nothing of it moves there. The instance: 2 hubs, 2 secrets of 2 values, 4
audit records, 2 failures or crashes; 2 iTerm requests over a channel of 2; a doorbell with a channel of 1 note,
1 note on the wire, 2 frames of output; 2 overlapping pulls of a log of 4 bytes with answers that end behind
1 event or 2 bytes, and a tail of 3 bytes; 2 savers of 2 contents, 2 pollers; 1 pid used by 2 processes one after
the other, a clock of 2.

### Why the bounds are enough

Each bound is the smallest at which the case it exists for happens. Two threads are
a writer and one that waits behind it; two leases are the one whose write is under way and
the one that took over; two parts are a write that can fail with a prefix written; a
window of one or two makes the second or third input evict. A ring smaller than the
output loses bytes, three resizes with two marks prune a mark. Three clients for two slots
have one turned away. A grant with two uses and three nonces can be overspent; two
processes each have a stale memory of the other's lines. Two resets leave a loop behind
twice. Two selections are the least that lets an answer belong to the selection before.
`MaxGen` of `DesktopView_live` is larger than the leases that can be asked for, so the
bound never keeps a request from being served. Two registry processes are an
invitation that waits and a revocation meanwhile; two names let a device be enrolled twice.
Two connections and the view are a request and those that are served beside it. Two hubs are one that dies with the vault and
its successor; an audit of four records fills. Two writers share a temporary file; a pid that
is used twice is enough for a mistaken label. The theorems hold for every value.

### Fairness

- `SessionControl`: the scheduler runs the keeper's threads (weak fairness of each
  thread's steps that need nobody else, of `GiveUp` since the loop's deadline passes).
  That the child reads, or goes away so that a write fails, is not assumed of the specification: it is
  the premise (`PtyFair`) of `EveryInputAnswered` alone. `NotStuckBehindWriter` does
  without it.
- `SessionOutput`: reader, resizer and each subscriber run. No heartbeat is assumed,
  because it would hide a lost wakeup for 15 s; nothing is assumed of the child.
- `KeeperLife`: accept loop, reaper and connection threads run, the retention clock
  passes, a subscription to a session that is over returns (what `SessionOutput`'s
  `SubscriptionsClose` shows). Nothing is assumed of clients.
- `InputController`: a request settles (the transport has a timeout), a pause ends (a timer).
- `DesktopView`: keepers serve requests, promises' continuations run, the poll's timer fires.
- `Registry`: a command that runs goes on (`Step`) and the invitation's clock passes
  (`DeadlinePasses`). Nothing is assumed of phones, of the person or of faults.
- `Gateway`: the node's threads and the hub's tasks run. Nothing is assumed of devices (who
  need not even greet), of the view or of other hubs: the deadlines do it.
- `Doorbell`: task and thread run, and the keeper pushes something, since it sends a heartbeat every 15 s.
- `Sampler`: the collector runs, and the hub, as long as it lives, reads what it is sent.
- `Journal`, `Vault`, `ItermBridge`, `AgentLog` and `HubFiles` have safety properties only.

### Disagreements with the documents

What the code does otherwise than a document, a comment or a message of the repository
says. The runs above do not check these; each statement is in its module, and the
configuration named shows the disagreement. A statement with no configuration can be put as an
invariant in a copy of `Hub_parts.cfg`.

| Statement | Sentence | What happens |
|---|---|---|
| `PresenceNamesHolder` (`SessionControl_presence`) | docs/CONTINUITY.md:359, "always show which device is typing" | `AcceptHandoff` (session/src/main.rs:675) grants the lease without telling `Presence`, which goes on naming the former holder |
| `FloorHolds` (`Journal_floor`) | authority/src/lib.rs:281-283, a read below what was seen is a rollback | an anchor that answers null is taken for a fresh one before the floor is compared (272) |
| `OwnLease` (`DesktopView_own`) | presence.js:2-3, only the keeper's generations decide | a tap while a selection awaits its release records the new serial with the old session; the lease it gets is used on the new one, where that generation may be somebody else's. Without that step the statement is a theorem (`LeasesUsedAreOwn`) |
| `AlwaysInOrder` (`DesktopView_order`) | main.js:238, "One ordered, fenced input path into whatever session is active." | the answer to an input sets the next number whenever its generation is the one held (246), whichever session it was for; with a lease taken for another session's (205-211), a third session's answer hands out a number too early, and a key that timed out arrives behind a later one. The behaviour shown has three sessions and 61 steps |
| `ExecutedOnce` (`Journal_copy`) | authority/src/lib.rs:378-381, "deleting lines cannot re-arm a grant" | when an old copy of the file is put back while a process has it open, and grows again by lines the anchor was not told of, `catch_up` reads on from its offset, where nothing contradicts the last hash it knows: a use is spent twice |
| `RevokedNameIsGone` (`Gateway_revoked`) | node/src/main.rs:213, "Device revoked for subsequent requests." | a name is revoked; the device is served under a second name, which `pair` gives without asking |
| `OwnerCanExport` (`Vault`) | vault.rs:117, "audit capacity reached; export before continuing" | `open` records itself, so a vault with a full audit does not open any more |
| `StateIsWhole` (`HubFiles`) | desktop/src/main.rs:379, "What a view should restore after a restart" | two views write the same temporary file (426); what is left may be neither's |
| `HandedOverOnce`, `ActionsAreRead` (`HubFiles`) | desktop/src/main.rs:462, "Handed over once, then removed" | two polls are both handed the actions, or actions are removed that nobody read (475) |
| `InputsShownOnce` (`AgentLog`) | agent-analysis.js:37, a turn is everything between two of the person's messages | two overlapping answers fold an input twice |
| `LabelsAreExact` (`Sampler`) | resources/src/main.rs:148, bound to process starts | the starts were observed before `launchctl` and `lsof` were asked; `LabelsAreOwn` is what does hold |

Smaller ones, kept for reference:

| Configuration | Sentence | What happens |
|---|---|---|
| `SessionControl_busy` | docs/protocol.md:23, control mutations are busy while a write is blocked | they succeed: the write holds no controls mutex |
| `SessionControl_doubt` | docs/protocol.md:24, doubt lasts until an explicit takeover | release and a plain acquire end it |
| `SessionOutput_marks` | core/src/lib.rs:25, every byte of a frame belongs to its geometry | not when marks were dropped (lib.rs:107 concedes it) |
| `KeeperLife_socket` | session/src/main.rs:509, a keeper without a socket leaves at once | not if the stop flag is set already: nothing can wake accept |
| `KeeperLife_retention` | session/src/main.rs:508, retention is measured from the last client | the reaper decides on a time read before a client came |
| `InputController_reset` | input-controller.js:83, what waited at a reset belongs to the past | a batch pausing before a busy retry is sent after it |
| `DesktopView_key` | main.js:266, a key never confirms a takeover | it does when the hello before it failed |

## Theorems

The theorems hold for any sets of threads, clients, devices, names, requests and processes,
any sizes and any bounds, under the assumptions on constants that each module names
(`...Assumption`: positive sizes, placeholders that are not values). Each was checked by TLC
on the instance above first; each is a `THEOREM Spec => []Inv` with an inductive invariant, or a
refinement.

**SessionControlProofs, FencedInputProofs.**

- `Typing`: the type invariant.
- `Implementation`: `Spec => ImplementsService`. A grant maps to `NewLease`, a release to
  `EndLease`, `StartWrite` to `Begin`, `WritePart` to `Put`, `RecordWritten` to `Finish`,
  `WriteFails` to `Fail`; everything else stutters. The service's job is the input of the
  thread in the midst of a write. Types do not suffice: `KeeperInv` says that exactly the
  holder of the writer mutex decides, writes or records (`LockInv`), that nothing of an
  input is written before it is decided (`FreshInv`), and that during a write the lease is
  either still the input's own, in doubt and at this number, or a later one not in doubt
  (`WriteInv`).
- `InOrder`, `StopsAtFailure`: proved for `FencedInput` with its own inductive
  invariant (`FencedOrder`, `FencedStopsAtFailure`) and carried over by the refinement.
- `TicketFenced`: inductive by itself; every change of the lease voids the ticket.
- `Acknowledged`: `AckedIsWritten` with `AckInv`: a remembered input is whole in the PTY,
  but for the last one in doubt (`WindowInv`); the writer's parts so far are (`PartInv`); a
  thread past its write, or with a good answer, has all of them (`PromiseInv`).

**KeeperProofs, output.** All four rest on one invariant, `OutputInv`:

- the ring holds the last bytes before `next` in order (`RingInv`), and what the reader took
  from the PTY follows it (`FlowInv`): once the output is said to be over, nothing comes;
- whoever stands between screen and history has both mutexes (`LockInv`), hence the marks
  name, for every byte recorded, what the screen was (`ScreenInv`, `Marked`). Pruning drops
  marks from the front and keeps that; an empty batch or a resize adds one;
- a subscriber or poller that read the flag as set before it read an empty piece of history stands at the end
  (`SubInv`, `PollInv`).

`HonestFrames`, `LossIsTold`, `ClosingIsLast` and `ExitedIsLast` follow. Finding the mark in
force for an offset needs a greatest element of a set of numbers; the lemmas `Least` and
`Greatest` get it from the well-foundedness of `<`.

**KeeperProofs, lifecycle.** `NeverReaped`: whoever sets the stop flag or is about to was asked to or
found the session over (`ReasonInv`). `SlotsMatch`: the count is the cardinality of the
connections being served (`SlotInv`), which needs that the backlog holds a connection once
and only while it waits (`BacklogInv`), and that there are finitely many clients.

**JournalProofs.** `JournalInvariant` proves `JournalInv`, of which `SpendsOnce` (`ExecutedOnce`),
`SpendsWithinBudget`, `AnchorIsBehind` (`AnchorBehindDisk` and `ExecutedIsSpent`) and `FileIsVerified` (`FileVerifies`) follow:

- the file is a chain, each line allowed by the lines before it (`FileInv`), and what a process
  knows is a prefix of it, unless the file ends in half a record (`MemoryInv`). That the fold
  `Verified` stops at the first wrong line is a statement about a greatest element, so a chain is
  accepted whole without induction over data;
- who holds the lock has read everything but its own line (`WriterInv`), so what it appends is allowed by
  the file, not only by its memory;
- the anchor names a prefix of what is on the disk, or an old copy of the file is in place that does not
  reach it: the file is `Dead`, nobody gets past `catch_up`, and the counts stay (`AnchorInv`, `SpentInv`);
- whatever was performed, or may be, is reserved on a line that no fault to come takes away:
  behind the anchor, or on the disk if it is the anchor that was reset (`Reach`, `UsesInv`, `PermitInv`);
  and what is not performed yet is one process's alone (`FreshInv`).

Two uses on one chain are two operations of one set of terms (`UsesDiffer`), and their number under a
grant id is bounded (`UsesFit`). The theorems assume `"open" \notin Store`: a copy put back under a
process that has the file open can make the code spend twice (`Journal_copy`).

**DesktopViewProofs.** `KeysReachTheirSession`: wherever a key waits, it waits for the session
that was chosen when it was typed (`KeysFor`, in `KeyInv`): in the queue, which is empty while the
session shown is being changed (`QueueInv`); at the gate, unless a selection was made since
(`GateInv`); in a request, also one that the view gave up on (`CallsInv`). Leases play no part in it, so
the theorem does not depend on `OwnLease`, which fails.

`KeysArriveInOrder` (`KeysInOrder`) does depend on leases, and is said up to the moment when one session's lease is taken for
another's (`mistaken`): beyond it the statement is false (`DesktopView_order`). `OrderInv` is
`KeyInv`, types, and unless `mistaken` the conjunction `Fenced`:

- a lease that was granted and not taken yet is nobody's: no input was sent under it
  (`LeaseInv`), and the view does not hold it (`HeldInv`);
- at most one input of a lease is unanswered (`LoneInv`), and one of the lease that is held is the
  request the loop awaits, or the late copy of it (`WireInv`, `LateInv`). So nothing is
  sent under the lease while a timed-out input of it can still arrive;
- keys rise from what the PTYs have over what is pending and the queue to the gate (`PtyOrder`,
  `PendingOrder`, `QueueOrder`, `GateOrder`), and an input of a lease that is past is refused.

`LeasesUsedAreOwn` (`LeasesAreOwn`) is what holds in the place of `OwnLease`: until that moment, what
the keepers took from this view they took under leases they granted to it. `OwnInv` is
`OrderInv` and, unless `mistaken`, `Own`: the lease held, those in requests for input and sizes, those granted and not
taken yet, and the one a thread keeps while it drains were granted to this view by the keeper of the session
they are for (`Mine`), and who was granted a lease never changes (`GrantsStay`).

**RegistryProofs.** `OnePeerBook`: `Spec => ImplementsPeerBook`. What lies in the pending file
of a process that is about to rename it is a change, as `PeerBook` allows it, of the registry as it is at
that moment (`Lawful` in `RegistryInv`), since everybody who has something to save holds the lock; an
invitation reads the registry anew once it has it. `OneNameOnePeer` carries what `PeerBook` promises
over: in the file and on the disk a name is one peer's, and there are at most `MaxPeers` (`BookInv`). That revoking
keeps it is a fact about `Without`, a recursive function; a smallest counterexample gives it, since
natural numbers are well-founded and no operator need be a parameter. `CommandsCleanUp`
(`NothingLeftBehind`), `AcceptedIsInBook` and `IdentityIsPinned` rest on `DirectoryInv`: which
files are there at each place of a command (`Sound`, `Founding`), that the pending files belong to a command under way
(`Owned`), and that without a failure or a death the directory is clear between commands (`Tidy`). Assumed:
`MaxPeers` is a number, and no registry is the value that stands for a missing file (`MissingAssumption`).

**GatewayProofs.** `HopInv` follows a request from hop to hop: it has not been done and waits in
one place, or it waits nowhere (`Path`); what an answer says is so (`Answered`); what waits
behind the node was allowed to its device (`Requested`). It gives `OnceAtMost`, `TrueAnswers`
and, with the step in which something is done, `Within`. `Revoked` needs in addition that a
device entitled at any moment since it sent its request is marked as such (`SentInv`).

**HubProofs.** `OwnAnswers`: the pipe through the child holds the request that is asked for once, and
nothing when nobody asks (`PipeInv`). `Audited`, `Acknowledgements`: only the hub with the lock
has contents, and they differ from the file by at most the change it is saving (`VaultInv`, `Held`).
`OwnLabels`: what is said of a start is true of the process with that start, if it is still
there (`Told`, `SamplerInv`), because starts grow. `WholeLabels`: nobody else writes a label's
inode and it is not the one under the fixed name (`Apart`), and what is renamed was synced.

`RungInOrder` (`ExitIsRungLast`): from the view back to the keeper, what is heard, on the wire, in the channel, with
the thread and in unread frames has consecutive numbers (`Pipeline`), and behind the last note nothing comes
(`LastIsLast`). A channel's contents are compared by numbers, so that taking one from the front or adding one at the end
are facts about sequences stated once (`OrderTail`, `OrderAppend`).

`PaneHasAll` (`CallsShownOnce`): an answer holds the lines from where its request began,
which is where the feed it is for ended when it asked, unless it asked for the tail (`PullInv`); so a
feed covers the lines from its base to its end and was told of each call once (`FeedInv`, `Covered`). Positions are
inside lines or behind them (`Passed`), and a line has one end (`FirstEnd`).

`TypedOrder` (`InTypedOrder`), `NoneDropped`, `FailureStopsTheQueue`, `CharactersStayWhole`: one loop runs while
anything waits, and its request is the first piece of the queue, or of a queue that a reset emptied (`LoopInv`,
`OnTheWay`); the pieces follow one another from `front` to the last byte submitted (`Pieces`); what has arrived, failed or
waited behind a failure is in front of them (`PastInv`). Assumed: a character is at most
`MinChunk` bytes (at most 4 in UTF-8, and 256 in the code), without which a border might not be found.

Only model-checked:

- liveness (`InputsAnswered`, `OutputArrives`, `ResizeCompletes`, `KeeperLeaves`, `KeysLeave`,
  `GateEmpties`, `LossIsNoticed`, `InvitationCloses`, `ConnectionEnds`, `DoorbellEnds`,
  `CollectorEnds`): fairness and ENABLED are out of the prover's reach;
- what fails somewhere and is kept as a disagreement (above).

Every other property of the runs is stated by a theorem.

The modules state more than the runs check, each with a comment: a `TypeOK` in most modules,
`NothingAfterClosing` (proved) and `SubscriptionsClose` of `SessionOutput`,
`AnchorBehindDisk`, `ExecutedIsSpent` and `FileVerifies` (proved) of `Journal`, `WholeCharacters`
and `NothingBehindFailure` (proved) of `InputController`, `LeasesAreOwn` (proved) of `DesktopView`, `IdentityStays`, `AcceptedIsEnrolled` and
`PeerBook`'s `OneNameOnePeer` (proved) of `Registry`, `RecordedIsKept` of `Sampler` (violated when the clock is set back: the cap of
resources/src/history.rs:31 keeps the latest times, not the latest samples).

## Not modelled

- Of the keeper: start-up (lock file, bind, daemonising), the screen dump, presence's list of
  views and its expiry.
- Of the command line: raw mode, attach, list, the handoff QR.
- Of the journal and the bridge: digests, encodings, signatures; requests to observe, which spend
  nothing.
- Of the view: resize coalescing, replay of frames, iTerm targets, the periodic hello, everything that only
  displays.
- Of the hub: start-up, the retry of `device_list`, static files, digests of calls, `usage()`.
- The framing of the wire protocol, TLS, the terminal engine (a wrapper over a library), the
  Android app, the macOS shell, the device probe, scripts.
- The history's offsets do not overflow in the model: the code panics first, after 2^64 bytes.

`PROJECT.json` lists each part with its status and the reason.

## Plan

Done, in order of importance: (1) `Controller`, `SessionControl`, `FencedInput` and their proofs,
(2) `History`, `SessionOutput` and proofs, (3) `KeeperLife` and proofs, (4) `Journal` and proofs,
(5) `InputController`, `DesktopView` and proofs, (6) `PeerBook`, `Registry`, `Gateway` and proofs,
(7) the six parts of the hub and proofs. Every safety property of the runs is proved.

Left:

1. `FrameReplay`: poll, gap handling and resize coalescing of the view against `SessionOutput`'s frames.
2. `Presence`: hello, the list of views, its expiry and its limit, joined to `SessionControl`.
3. Start-up of keeper and hub; the Android app's `DeviceLink`; command-line handoff.
4. Proofs: `SubscriptionsClose`'s safety half, the journal as an implementation of its set of
   spent uses.

Abstract specifications worth stating next: a subscription as a stream with told gaps
(implemented by `SessionOutput`), and a journal as a set of spent uses (implemented by
`Journal`).
