------------------------------- MODULE Doorbell -------------------------------
(***************************************************************************)
(* The doorbell of a session: doorbell() and ring_doorbell() in            *)
(* desktop/src/main.rs.  A task talks to the view over a WebSocket, a      *)
(* thread reads the keeper's subscription, and a channel of notes is all   *)
(* they share: each learns that the other side is gone by using it.        *)
(*                                                                         *)
(* External: the view, and the keeper, which sends output in order, a      *)
(* heartbeat when there is none, and a closing frame last.                 *)
(***************************************************************************)
EXTENDS Naturals, Sequences

CONSTANTS
  ChannelNotes,  \* notes the channel holds (64)
  MaxNotes,      \* bound on what is on the wire to the view
  MaxOutput      \* bound on the output of the session, in frames

ASSUME DoorbellAssumption ==
  /\ ChannelNotes \in Nat \ {0} /\ MaxNotes \in Nat \ {0} /\ MaxOutput \in Nat

VARIABLES
  ws,            \* the task: the frame it expects, then "ringing", then "closed"
  view,          \* the view: "silent", "good" or "bad" first frames, or "gone"
  wire,          \* notes sent and not yet read by the view
  thread,        \* the thread: "none", "connecting", "reading", "noting" or "ended"
  note,          \* the note it hands over, <<kind, next>>
  notes,         \* the channel
  keeper,        \* the keeper's side: "open", "exited", "refused" or "lost"
  frames,        \* what it has sent and the thread has not read
  output,        \* frames of output it has sent
  heard          \* history: the notes the view has read, but for heartbeats

doorbellVars == <<ws, view, wire, thread, note, notes, keeper, frames, output, heard>>

NoNote == <<"none", 0>>
LastNotes == {"exited", "unsupported"}

DoorbellInit ==
  /\ ws = "auth" /\ view \in {"good", "bad", "silent"} /\ wire = <<>>
  /\ thread = "none" /\ note = NoNote /\ notes = <<>>
  /\ keeper = "open" /\ frames = <<>> /\ output = 0
  /\ heard = <<>>

keeperSide == <<keeper, frames, output>>

-------------------------------------------------------------------------------
(* The task.                                                               *)

\* The first frame has the capability, the second asks for output from a position;
\* each has five seconds.  A thread is started then.
Admit ==
  /\ ws \in {"auth", "subscribe"} /\ view = "good"
  /\ ws' = IF ws = "auth" THEN "subscribe" ELSE "ringing"
  /\ thread' = IF ws = "auth" THEN thread ELSE "connecting"
  /\ UNCHANGED <<view, wire, note, notes, keeperSide, heard>>

\* Anything else, or nothing in time.
TurnAway ==
  /\ ws \in {"auth", "subscribe"} /\ view # "good"
  /\ ws' = "closed"
  /\ UNCHANGED <<view, wire, thread, note, notes, keeperSide, heard>>

Ring ==
  /\ ws = "ringing" /\ notes # <<>>
  /\ notes' = Tail(notes)
  /\ IF view = "gone"
       THEN ws' = "closed" /\ UNCHANGED wire
       ELSE /\ Len(wire) < MaxNotes
            /\ wire' = Append(wire, Head(notes))
            /\ UNCHANGED ws
  /\ UNCHANGED <<view, thread, note, keeperSide, heard>>

\* The view says something, which it has no reason to, or is gone; or the thread has
\* ended and every note of it is sent.
Hangup ==
  /\ ws = "ringing"
  /\ view = "gone" \/ (thread = "ended" /\ notes = <<>>)
  /\ ws' = "closed"
  /\ UNCHANGED <<view, wire, thread, note, notes, keeperSide, heard>>

-------------------------------------------------------------------------------
(* The thread.                                                             *)

Notes(what) == note' = what /\ thread' = "noting"

Connect ==
  /\ thread = "connecting"
  /\ IF keeper = "lost" THEN Notes(<<"unsupported", 0>>)
                        ELSE thread' = "reading" /\ UNCHANGED note
  /\ UNCHANGED <<ws, view, wire, notes, keeperSide, heard>>

\* A mutant of ReadFrame: the closing frame is recognised by its flag alone, as if
\* it never came with output.
ReadFrameByFlag ==
  /\ thread = "reading" /\ frames # <<>>
  /\ LET f == Head(frames)
     IN  Notes(IF f.exited THEN <<"exited", 0>>
               ELSE IF f.data THEN <<"output", f.next>> ELSE <<"heartbeat", 0>>)
  /\ frames' = Tail(frames)
  /\ UNCHANGED <<ws, view, wire, notes, keeper, output, heard>>

\* A frame with output is that, whatever else it says.
ReadFrame ==
  /\ thread = "reading" /\ frames # <<>>
  /\ LET f == Head(frames)
     IN  Notes(IF f.data THEN <<"output", f.next>>
               ELSE IF f.exited THEN <<"exited", 0>> ELSE <<"heartbeat", 0>>)
  /\ frames' = Tail(frames)
  /\ UNCHANGED <<ws, view, wire, notes, keeper, output, heard>>

\* An error of the keeper is an older keeper; anything else that is no frame, and
\* silence of forty seconds, ends the thread.
ReadOther ==
  /\ thread = "reading" /\ frames = <<>>
  /\ \/ keeper = "refused" /\ Notes(<<"unsupported", 0>>)
     \/ keeper = "lost" /\ thread' = "ended" /\ UNCHANGED note
  /\ UNCHANGED <<ws, view, wire, notes, keeperSide, heard>>

\* A mutant of HandOver: that nobody takes the note is not noticed.
HandOverRegardless ==
  /\ thread = "noting"
  /\ IF ws = "closed"
       THEN UNCHANGED notes
       ELSE Len(notes) < ChannelNotes /\ notes' = Append(notes, note)
  /\ thread' = IF note[1] \in LastNotes THEN "ended" ELSE "reading"
  /\ note' = NoNote
  /\ UNCHANGED <<ws, view, wire, keeperSide, heard>>

\* blocking_send waits for room, and fails once the task is gone.
HandOver ==
  /\ thread = "noting"
  /\ IF ws = "closed"
       THEN thread' = "ended" /\ UNCHANGED notes
       ELSE /\ Len(notes) < ChannelNotes
            /\ notes' = Append(notes, note)
            /\ thread' = IF note[1] \in LastNotes THEN "ended" ELSE "reading"
  /\ note' = NoNote
  /\ UNCHANGED <<ws, view, wire, keeperSide, heard>>

-------------------------------------------------------------------------------
(* The keeper and the view.                                                *)

Sends(f) == frames' = Append(frames, f)
Subscribed == thread \in {"reading", "noting"} /\ keeper = "open" /\ Len(frames) < 2

\* Output may carry the news that the program is gone; a frame without output
\* follows it all the same.
KeeperSendsOutput ==
  /\ Subscribed /\ output < MaxOutput
  /\ output' = output + 1
  /\ \E gone \in BOOLEAN : Sends([data |-> TRUE, next |-> output + 1, exited |-> gone])
  /\ UNCHANGED <<ws, view, wire, thread, note, notes, keeper, heard>>

KeeperHeartbeat ==
  /\ Subscribed /\ frames = <<>>
  /\ Sends([data |-> FALSE, next |-> output, exited |-> FALSE])
  /\ UNCHANGED <<ws, view, wire, thread, note, notes, keeper, output, heard>>

KeeperCloses ==
  /\ Subscribed
  /\ \/ /\ Sends([data |-> FALSE, next |-> output, exited |-> TRUE])
        /\ keeper' = "exited"
     \/ /\ output = 0 /\ frames = <<>>
        /\ keeper' = "refused" /\ UNCHANGED frames
  /\ UNCHANGED <<ws, view, wire, thread, note, notes, output, heard>>

KeeperLost ==
  /\ keeper \in {"open", "exited"}
  /\ keeper' = "lost"
  /\ UNCHANGED <<ws, view, wire, thread, note, notes, frames, output, heard>>

ViewReads ==
  /\ view = "good" /\ wire # <<>>
  /\ heard' = IF Head(wire)[1] = "heartbeat" THEN heard ELSE Append(heard, Head(wire))
  /\ wire' = Tail(wire)
  /\ UNCHANGED <<ws, view, thread, note, notes, keeperSide>>

ViewLeaves ==
  /\ view # "gone"
  /\ view' = "gone" /\ wire' = <<>>
  /\ UNCHANGED <<ws, thread, note, notes, keeperSide, heard>>

DoorbellTask == Admit \/ TurnAway \/ Ring \/ Hangup
DoorbellThread == Connect \/ ReadFrame \/ ReadOther \/ HandOver
KeeperPushes == KeeperSendsOutput \/ KeeperHeartbeat \/ KeeperCloses

DoorbellNext ==
  \/ DoorbellTask \/ DoorbellThread \/ KeeperPushes \/ KeeperLost \/ ViewReads \/ ViewLeaves

\* The task and the thread run, and a keeper that is there says something at least
\* every fifteen seconds (session/src/main.rs:503).  Views may do nothing for ever.
DoorbellFair ==
  /\ WF_doorbellVars(DoorbellTask)
  /\ WF_doorbellVars(DoorbellThread)
  /\ WF_doorbellVars(KeeperPushes)

DoorbellSpec == DoorbellInit /\ [][DoorbellNext]_doorbellVars /\ DoorbellFair

-------------------------------------------------------------------------------
\* The view is told of all output in the order it came, and that the program is gone
\* last, after all of it ("{"type":"exited"} last", main.rs:254).
ExitIsRungLast ==
  \A i \in DOMAIN heard :
    /\ heard[i][1] = "output" => heard[i][2] = i
    /\ heard[i][1] \in LastNotes => i = Len(heard)
    /\ heard[i][1] = "exited" => output = i - 1

\* Once the view is gone, task and thread end, and with them the subscription, which
\* holds one of the keeper's slots (main.rs:295).
DoorbellEnds == view = "gone" ~> ws = "closed" /\ thread \in {"none", "ended"}
================================================================================
