----------------------------- MODULE SessionOutput -----------------------------
(***************************************************************************)
(* The output side of a session keeper: session/src/main.rs.  The reader   *)
(* thread moves what the child writes from the PTY to the screen and the   *)
(* history; Resize changes the grid of PTY, screen and history; subscribers*)
(* and pollers read the history at cursors of their own and wait on a      *)
(* counter (signal).  Screen and history have a mutex each; whoever takes  *)
(* both takes the screen's first.                                          *)
(*                                                                         *)
(* A byte is named by its place in what the child writes, so that a byte   *)
(* lost, repeated or moved shows.  Resize has passed its lease check       *)
(* (SessionControl) and holds the controls mutex, so there is one at a     *)
(* time.                                                                   *)
(***************************************************************************)
EXTENDS History, KeeperState

CONSTANTS
  Limit,       \* bytes in one frame (16 KiB)
  ReadSize,    \* bytes in one read of the PTY (8 KiB)
  Subscriber,  \* connections that subscribed
  MaxOutput,   \* bytes the child writes in all
  Poller,      \* connections that ask once, with Read or ReadFrame
  MaxResizes,  \* Resize requests in all
  Nobody       \* a mutex is free

ASSUME SessionOutputAssumption ==
  /\ Limit \in Nat \ {0}
  /\ ReadSize \in Nat \ {0}
  /\ MaxOutput \in Nat
  /\ MaxResizes \in Nat
  /\ Nobody \notin {"reader", "resizer"}

VARIABLES
  made,         \* bytes the child has written to the PTY
  gone,         \* nobody has the child's end of the PTY open any more
  grid,         \* the grid of the PTY itself
  fetched,      \* bytes the reader has read from the PTY
  batch,        \* the ones of its last read that are not yet in the history
  reader,       \* where the reader thread stands
  resizer,      \* where the Resize request being served stands
  wanted,       \* the grid it asks for
  asks,         \* Resize requests so far, for the bound
  screen,       \* [grid, epoch] of the screen; epoch is history, see Parsed
  screenLock,   \* the thread that holds the screen mutex
  historyLock,  \* ... the history mutex
  signal,       \* the counter of State.signal
  parsedUnder,  \* history: what screen was, byte by byte, when it was fed
  sub,          \* one record for each subscriber
  poll          \* one record for each poller: its last request

threads == <<reader, batch, fetched, resizer, wanted, asks>>
locks == <<screenLock, historyLock>>
child == <<made, gone>>
outputVars == <<historyVars, screen, grid, parsedUnder>>
vars == <<outputVars, child, threads, locks, flags, signal, sub, poll>>

Cursor == 0..MaxOutput
NoFrame == [chunk |-> [start |-> 0, next |-> 0, gap |-> FALSE, data |-> <<>>],
            geometry |-> [grid |-> CHOOSE g \in Grid : TRUE, epoch |-> 0]]

\* What a byte fed to the screen now is parsed under.
ParsedUnder == [grid |-> screen.grid, epoch |-> screen.epoch]

Init ==
  \E g \in Grid :
    /\ HistoryInit(g)
    /\ grid = g
    /\ screen = [grid |-> g, epoch |-> 0]
    /\ made = 0 /\ gone = FALSE
    /\ fetched = 0 /\ batch = <<>> /\ reader = "reading"
    /\ resizer = "idle" /\ wanted = g /\ asks = 0
    /\ screenLock = Nobody /\ historyLock = Nobody
    /\ signal = 0
    /\ exited = FALSE /\ outputClosed = FALSE
    /\ parsedUnder = <<>>
    /\ sub \in [Subscriber -> { [at |-> "signal", after |-> c, from |-> c, seen |-> 0,
                                 ended |-> FALSE, frame |-> NoFrame,
                                 heard |-> {}, gapped |-> FALSE] : c \in Cursor }]
    /\ poll = [p \in Poller |-> [at |-> "idle", after |-> 0, exited |-> FALSE,
                                frame |-> NoFrame]]

Notify == signal' = signal + 1

-------------------------------------------------------------------------------
(* The child and the PTY.  The child's own children may outlive it with the *)
(* PTY open, and it may close the PTY and run on.                           *)

ChildWrites ==
  /\ ~gone
  /\ made < MaxOutput
  /\ made' = made + 1
  /\ UNCHANGED <<outputVars, gone, threads, locks, flags, signal, sub, poll>>

\* The last process that had the PTY open closes it.
ChildEnds ==
  /\ ~gone
  /\ gone' = TRUE
  /\ UNCHANGED <<outputVars, made, threads, locks, flags, signal, sub, poll>>

\* The thread that waits for the child.
ChildReaped ==
  /\ ~exited
  /\ exited' = TRUE
  /\ Notify
  /\ UNCHANGED <<outputVars, child, threads, locks, outputClosed, sub, poll>>

-------------------------------------------------------------------------------
(* The reader thread.                                                      *)

Fetch ==
  /\ reader = "reading"
  /\ fetched < made
  /\ \E n \in 1..Smaller(ReadSize, made - fetched) :
       /\ batch' = [i \in 1..n |-> fetched + i]
       /\ fetched' = fetched + n
  /\ reader' = "fetched"
  /\ UNCHANGED <<outputVars, child, resizer, wanted, asks, locks, flags, signal, sub, poll>>

ReaderLocksScreen ==
  /\ reader = "fetched"
  /\ screenLock = Nobody
  /\ screenLock' = "reader"
  /\ reader' = "screen"
  /\ UNCHANGED <<outputVars, child, batch, fetched, resizer, wanted, asks, historyLock,
                 flags, signal, sub, poll>>

\* A mutant of Feed: the screen mutex is dropped before the history is written.
FeedAlone ==
  /\ reader = "screen"
  /\ screenLock' = Nobody
  /\ parsedUnder' = parsedUnder \o [i \in DOMAIN batch |-> ParsedUnder]
  /\ reader' = "fed"
  /\ UNCHANGED <<historyVars, screen, grid, child, batch, fetched, resizer, wanted, asks,
                 historyLock, flags, signal, sub, poll>>

\* screen.feed, once the history mutex is held as well.
Feed ==
  /\ reader = "screen"
  /\ historyLock = Nobody
  /\ historyLock' = "reader"
  /\ parsedUnder' = parsedUnder \o [i \in DOMAIN batch |-> ParsedUnder]
  /\ reader' = "fed"
  /\ UNCHANGED <<historyVars, screen, grid, child, batch, fetched, resizer, wanted, asks,
                 screenLock, flags, signal, sub, poll>>

\* A mutant of Record: the screen mutex is kept when the block ends.
RecordKeepsScreen ==
  /\ reader = "fed"
  /\ AppendBytes(batch)
  /\ batch' = <<>>
  /\ historyLock' = Nobody
  /\ reader' = "recorded"
  /\ UNCHANGED <<screen, grid, parsedUnder, child, fetched, resizer, wanted, asks, screenLock,
                 flags, signal, sub, poll>>

\* history.append; both mutexes are dropped at the end of the block.
Record ==
  /\ reader = "fed"
  /\ AppendBytes(batch)
  /\ batch' = <<>>
  /\ screenLock' = Nobody
  /\ historyLock' = Nobody
  /\ reader' = "recorded"
  /\ UNCHANGED <<screen, grid, parsedUnder, child, fetched, resizer, wanted, asks, flags,
                 signal, sub, poll>>

ReaderNotifies ==
  /\ reader = "recorded"
  /\ Notify
  /\ reader' = "reading"
  /\ UNCHANGED <<outputVars, child, batch, fetched, resizer, wanted, asks, locks, flags, sub, poll>>

\* The end of the output: read returns 0 or an error once the PTY is drained.
EndOfOutput ==
  /\ reader = "reading"
  /\ gone /\ fetched = made
  /\ outputClosed' = TRUE
  /\ reader' = "closing"
  /\ UNCHANGED <<outputVars, child, batch, fetched, resizer, wanted, asks, locks, exited,
                 signal, sub, poll>>

ReaderLeaves ==
  /\ reader = "closing"
  /\ Notify
  /\ reader' = "done"
  /\ UNCHANGED <<outputVars, child, batch, fetched, resizer, wanted, asks, locks, flags, sub, poll>>

Reader ==
  \/ Fetch \/ ReaderLocksScreen \/ Feed \/ Record \/ ReaderNotifies
  \/ EndOfOutput \/ ReaderLeaves

-------------------------------------------------------------------------------
(* Resize, after the lease check.                                          *)

AskResize(g) ==
  /\ resizer = "idle"
  /\ asks < MaxResizes
  /\ asks' = asks + 1
  /\ wanted' = g
  /\ resizer' = "asked"
  /\ UNCHANGED <<outputVars, child, reader, batch, fetched, locks, flags, signal, sub, poll>>

ResizerLocksScreen ==
  /\ resizer = "asked"
  /\ screenLock = Nobody
  /\ screenLock' = "resizer"
  /\ resizer' = "screen"
  /\ UNCHANGED <<outputVars, child, reader, batch, fetched, wanted, asks, historyLock, flags,
                 signal, sub, poll>>

\* The ioctl, under both mutexes: it may fail, and then nothing has changed.
ResizePty(ok) ==
  /\ resizer = "screen"
  /\ historyLock = Nobody
  /\ IF ok
       THEN /\ grid' = wanted
            /\ historyLock' = "resizer"
            /\ resizer' = "resized"
            /\ UNCHANGED screenLock
       ELSE /\ screenLock' = Nobody
            /\ resizer' = "idle"
            /\ UNCHANGED <<grid, historyLock>>
  /\ UNCHANGED <<historyVars, screen, parsedUnder, child, reader, batch, fetched, wanted, asks,
                 flags, signal, sub, poll>>

\* screen.resize and history.resize, then both mutexes are dropped.
RecordResize ==
  /\ resizer = "resized"
  /\ Resize(wanted)
  /\ screen' = [grid |-> wanted, epoch |-> screen.epoch + 1]
  /\ screenLock' = Nobody
  /\ historyLock' = Nobody
  /\ resizer' = "recorded"
  /\ UNCHANGED <<grid, parsedUnder, child, reader, batch, fetched, wanted, asks, flags, signal,
                 sub, poll>>

ResizerNotifies ==
  /\ resizer = "recorded"
  /\ Notify
  /\ resizer' = "idle"
  /\ UNCHANGED <<outputVars, child, reader, batch, fetched, wanted, asks, locks, flags, sub, poll>>

Resizer ==
  \/ ResizerLocksScreen \/ RecordResize \/ ResizerNotifies
  \/ \E ok \in BOOLEAN : ResizePty(ok)

-------------------------------------------------------------------------------
(* A subscriber: subscribe().                                              *)

SubscriberStep == UNCHANGED <<outputVars, child, threads, locks, flags, signal, poll>>
Goes(s, at) == sub' = [sub EXCEPT ![s].at = at]

\* The signal is read before the history ...
SeeSignal(s) ==
  /\ sub[s].at = "signal"
  /\ sub' = [sub EXCEPT ![s].at = "ended", ![s].seen = signal]
  /\ SubscriberStep

\* ... and so are the flags that say that the session is over.
SeeEnded(s) ==
  /\ sub[s].at = "ended"
  /\ sub' = [sub EXCEPT ![s].at = "history", ![s].ended = exited /\ outputClosed]
  /\ SubscriberStep

SeeHistory(s) ==
  /\ sub[s].at = "history"
  /\ historyLock = Nobody
  /\ sub' = IF sub[s].after > next
              THEN [sub EXCEPT ![s].at = "refused"]
              ELSE [sub EXCEPT ![s].at = "deciding",
                               ![s].frame = ReadFrame(sub[s].after, Limit)]
  /\ SubscriberStep

HasBytes(s) == sub[s].frame.chunk.data # <<>>

SendFrame(s) ==
  /\ sub[s].at = "deciding"
  /\ HasBytes(s)
  /\ LET c == sub[s].frame.chunk
     IN  sub' = [sub EXCEPT
           ![s].at = "signal",
           ![s].after = c.next,
           ![s].heard = sub[s].heard \cup { c.data[i] : i \in DOMAIN c.data },
           ![s].gapped = sub[s].gapped \/ c.gap]
  /\ SubscriberStep

\* The closing frame: empty, with exited set.
SendClosing(s) ==
  /\ sub[s].at = "deciding"
  /\ ~HasBytes(s)
  /\ sub[s].ended
  /\ Goes(s, "closed")
  /\ SubscriberStep

\* A mutant of Wait: the signal is read when the wait begins.
WaitFromNow(s) ==
  /\ sub[s].at = "deciding"
  /\ ~HasBytes(s)
  /\ ~sub[s].ended
  /\ sub' = [sub EXCEPT ![s].at = "waiting", ![s].seen = signal]
  /\ SubscriberStep

Wait(s) ==
  /\ sub[s].at = "deciding"
  /\ ~HasBytes(s)
  /\ ~sub[s].ended
  /\ Goes(s, "waiting")
  /\ SubscriberStep

Wake(s) ==
  /\ sub[s].at = "waiting"
  /\ signal # sub[s].seen
  /\ Goes(s, "signal")
  /\ SubscriberStep

\* Fifteen seconds without a signal: an empty frame goes out.
Heartbeat(s) ==
  /\ sub[s].at = "waiting"
  /\ signal = sub[s].seen
  /\ Goes(s, "signal")
  /\ SubscriberStep

\* A write of any frame that fails, or that the client does not take in five seconds.
Disconnect(s) ==
  /\ \/ sub[s].at = "deciding" /\ (HasBytes(s) \/ sub[s].ended)
     \/ sub[s].at = "waiting" /\ signal = sub[s].seen
  /\ Goes(s, "disconnected")
  /\ SubscriberStep

Subscribed(s) ==
  \/ SeeSignal(s) \/ SeeEnded(s) \/ SeeHistory(s)
  \/ SendFrame(s) \/ SendClosing(s) \/ Wait(s) \/ Wake(s)

-------------------------------------------------------------------------------
(* One Read or ReadFrame request, dispatch().                              *)

PollStep == UNCHANGED <<outputVars, child, threads, locks, flags, signal, sub>>

\* A mutant of PollEnded: the end of the child is taken for the end of the output.
PollChildEnded(p, c) ==
  /\ poll[p].at \in {"idle", "answered"}
  /\ poll' = [poll EXCEPT ![p] = [at |-> "history", after |-> c, frame |-> NoFrame,
                                  exited |-> exited]]
  /\ PollStep

PollEnded(p, c) ==
  /\ poll[p].at \in {"idle", "answered"}
  /\ poll' = [poll EXCEPT ![p] = [at |-> "history", after |-> c, frame |-> NoFrame,
                                  exited |-> exited /\ outputClosed]]
  /\ PollStep

PollHistory(p) ==
  /\ poll[p].at = "history"
  /\ historyLock = Nobody
  /\ poll' = IF poll[p].after > next
               THEN [poll EXCEPT ![p].at = "idle"]
               ELSE [poll EXCEPT ![p].at = "answered",
                                 ![p].frame = ReadFrame(poll[p].after, Limit)]
  /\ PollStep

Polls(p) == PollHistory(p) \/ \E c \in Cursor : PollEnded(p, c)

Next ==
  \/ ChildWrites \/ ChildEnds \/ ChildReaped
  \/ Reader \/ Resizer \/ \E p \in Poller : Polls(p)
  \/ \E g \in Grid : AskResize(g)
  \/ \E s \in Subscriber : Subscribed(s) \/ Heartbeat(s) \/ Disconnect(s)

Spec == Init /\ [][Next]_vars

\* The keeper's threads run.  No heartbeat is assumed: it would hide a wakeup
\* that was lost.
FairSpec ==
  /\ Spec
  /\ WF_vars(Reader) /\ WF_vars(Resizer)
  /\ \A s \in Subscriber : WF_vars(Subscribed(s))

-------------------------------------------------------------------------------
TypeOK ==
  /\ ring \in Seq(1..MaxOutput) /\ Len(ring) <= Capacity
  /\ next \in Cursor
  /\ marks \in Seq(Mark) /\ Len(marks) \in 1..MaxMarks
  /\ made \in Cursor /\ fetched \in 0..made
  /\ screenLock \in {"reader", "resizer", Nobody}
  /\ historyLock \in {"reader", "resizer", Nobody}
  /\ signal \in Nat

\* Whatever cursor is asked for, whenever the mutex is free: what a frame says its
\* bytes were made under is what the screen was when it parsed each of them, as
\* far back as marks are kept.  Reader and Resize hold screen and history together.
FramesAreHonest ==
  historyLock = Nobody =>
    \A c \in 0..next :
      LET f == ReadFrame(c, Limit)
      IN  f.chunk.start >= marks[1].at =>
            \A i \in DOMAIN f.chunk.data : parsedUnder[f.chunk.data[i]] = f.geometry

\* A subscriber that was never told of a gap has every byte since its cursor.
NoSilentLoss ==
  \A s \in Subscriber : ~sub[s].gapped =>
    sub[s].heard = (sub[s].from + 1)..sub[s].after

\* The closing frame comes after the last byte (subscribe reads the flags before
\* the history).
NothingAfterClosing ==
  \A s \in Subscriber : sub[s].at = "closed" => gone /\ sub[s].after = made

\* ... and so does an answer to Read or ReadFrame that says exited and is empty:
\* a client that stops there has everything.
ExitedAnswerIsLast ==
  \A p \in Poller :
    poll[p].at = "answered" /\ poll[p].exited /\ poll[p].frame.chunk.data = <<>> =>
      gone /\ poll[p].after = made

\* What the child wrote reaches every subscriber that stays: no wakeup is lost.
OutputArrives ==
  \A s \in Subscriber : \A k \in 1..MaxOutput :
    made >= k /\ sub[s].at \notin {"refused", "disconnected"} ~>
      sub[s].after >= k \/ sub[s].at \in {"refused", "disconnected"}

\* A session that is over closes its subscriptions, whichever of the end of the
\* child and the end of its output comes last.
SubscriptionsClose ==
  \A s \in Subscriber :
    exited /\ gone ~> sub[s].at \in {"closed", "refused", "disconnected"}

\* No Resize waits for ever for a mutex the reader holds, nor the other way.
ResizeCompletes == resizer = "asked" ~> resizer = "idle"

-------------------------------------------------------------------------------
\* core/src/lib.rs:25: every byte in a frame belongs to its geometry.
FrameIsOneGrid ==
  \A s \in Subscriber : sub[s].at = "deciding" =>
    \A i \in DOMAIN sub[s].frame.chunk.data :
      parsedUnder[sub[s].frame.chunk.data[i]] = sub[s].frame.geometry
===============================================================================
