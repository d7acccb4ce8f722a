------------------------------ MODULE KeeperLife ------------------------------
(***************************************************************************)
(* How a session keeper comes to an end: session/src/main.rs, the accept   *)
(* loop of keeper(), the thread of each connection, and reap_when_exited().*)
(* The accept loop blocks in accept, so whoever sets the stop flag connects*)
(* to the keeper's own socket to wake it.                                  *)
(***************************************************************************)
EXTENDS KeeperState

CONSTANTS
  Client,       \* connections clients make
  MaxClients,   \* connections served at once (32)
  Stoppable,    \* a client may ask the keeper to stop
  DirMayGo      \* somebody may remove the state directory, socket and all

ASSUME KeeperLifeAssumption ==
  /\ MaxClients \in Nat \ {0}
  /\ Stoppable \in BOOLEAN /\ DirMayGo \in BOOLEAN
  /\ "wake" \notin Client /\ IsFiniteSet(Client)

VARIABLES
  main,          \* the accept loop: testing the flag, in accept, or gone
  backlog,       \* connections not yet accepted
  socket,        \* the socket is still in the file system
  stop,          \* the stop flag
  clients,       \* the count of connections being served
  conn,          \* where each connection stands
  kind,          \* what it asks for
  quiet,         \* the retention time has passed since last_client
  reaper,        \* where the reaper stands
  wasQuiet,      \* what it read of last_client
  stopAsked      \* history: a client's Stop was answered

reaping == <<reaper, wasQuiet>>
connections == <<clients, conn, kind>>
lifeVars == <<main, backlog, socket, stop, connections, flags, quiet, reaping, stopAsked>>

Running == main # "gone"
Kind == {"ask", "subscribe"} \cup (IF Stoppable THEN {"stop"} ELSE {})

LifeInit ==
  /\ main = "testing"
  /\ backlog = <<>>
  /\ socket = TRUE
  /\ stop = FALSE
  /\ clients = 0
  /\ conn = [c \in Client |-> "new"]
  /\ kind \in [Client -> Kind]
  /\ exited = FALSE /\ outputClosed = FALSE
  /\ quiet = FALSE
  /\ reaper = "asleep" /\ wasQuiet = FALSE
  /\ stopAsked = FALSE

-------------------------------------------------------------------------------
(* The world outside.                                                      *)

Connect(c) ==
  /\ Running /\ socket
  /\ conn[c] = "new"
  /\ conn' = [conn EXCEPT ![c] = "queued"]
  /\ backlog' = Append(backlog, c)
  /\ UNCHANGED <<main, socket, stop, clients, kind, flags, quiet, reaping, stopAsked>>

ChildExits ==
  /\ Running /\ ~exited
  /\ exited' = TRUE
  /\ UNCHANGED <<main, backlog, socket, stop, connections, outputClosed, quiet, reaping,
                 stopAsked>>

OutputCloses ==
  /\ Running /\ ~outputClosed
  /\ outputClosed' = TRUE
  /\ UNCHANGED <<main, backlog, socket, stop, connections, exited, quiet, reaping,
                 stopAsked>>

RetentionPasses ==
  /\ Running /\ ~quiet
  /\ quiet' = TRUE
  /\ UNCHANGED <<main, backlog, socket, stop, connections, flags, reaping, stopAsked>>

DirRemoved ==
  /\ DirMayGo
  /\ Running /\ socket
  /\ socket' = FALSE
  /\ UNCHANGED <<main, backlog, stop, connections, flags, quiet, reaping, stopAsked>>

-------------------------------------------------------------------------------
(* The accept loop.                                                        *)

\* The child is killed, the socket removed, and every thread ends with the process.
Leave ==
  /\ main' = "gone"
  /\ socket' = FALSE

TestStop ==
  /\ main = "testing"
  /\ IF stop THEN Leave ELSE main' = "accepting" /\ UNCHANGED socket
  /\ UNCHANGED <<backlog, stop, connections, flags, quiet, reaping, stopAsked>>

Accept ==
  /\ main = "accepting"
  /\ backlog # <<>>
  /\ backlog' = Tail(backlog)
  /\ quiet' = FALSE
  /\ LET c == Head(backlog)
     IN  \/ /\ stop
            /\ Leave
            /\ UNCHANGED <<clients, conn>>
         \/ /\ ~stop
            /\ clients >= MaxClients
            /\ conn' = [conn EXCEPT ![c] = "dropped"]
            /\ main' = "testing"
            /\ UNCHANGED <<socket, clients>>
         \/ /\ ~stop
            /\ clients < MaxClients
            /\ conn' = [conn EXCEPT ![c] = "served"]
            /\ clients' = clients + 1
            /\ main' = "testing"
            /\ UNCHANGED socket
  /\ UNCHANGED <<stop, kind, flags, reaping, stopAsked>>

-------------------------------------------------------------------------------
(* The thread of a connection.                                             *)

Ends(c) ==
  /\ conn' = [conn EXCEPT ![c] = "over"]
  /\ clients' = clients - 1

\* Everything but Subscribe: the answer is written before anything else.
Answer(c) ==
  /\ Running
  /\ conn[c] = "served"
  /\ kind[c] # "subscribe"
  /\ IF kind[c] = "stop"
       THEN /\ conn' = [conn EXCEPT ![c] = "stopping"]
            /\ stopAsked' = TRUE
            /\ UNCHANGED clients
       ELSE Ends(c) /\ UNCHANGED stopAsked
  /\ UNCHANGED <<main, backlog, socket, stop, kind, flags, quiet, reaping>>

SetStop(c) ==
  /\ Running
  /\ conn[c] = "stopping"
  /\ stop' = TRUE
  /\ conn' = [conn EXCEPT ![c] = "waking"]
  /\ UNCHANGED <<main, backlog, socket, clients, kind, flags, quiet, reaping, stopAsked>>

\* A connect to a socket that is not there fails, and the failure is ignored.
Woken == backlog' = IF socket THEN Append(backlog, "wake") ELSE backlog

\* A mutant of WakeAccept: nobody wakes the accept loop.
NobodyWakes(c) ==
  /\ Running
  /\ conn[c] = "waking"
  /\ Ends(c)
  /\ UNCHANGED <<main, backlog, socket, stop, kind, flags, quiet, reaping, stopAsked>>

WakeAccept(c) ==
  /\ Running
  /\ conn[c] = "waking"
  /\ Woken
  /\ Ends(c)
  /\ UNCHANGED <<main, socket, stop, kind, flags, quiet, reaping, stopAsked>>

\* Only a frame with bytes counts as a client's activity, a heartbeat does not.
SendBytes(c) ==
  /\ Running
  /\ conn[c] = "served" /\ kind[c] = "subscribe"
  /\ quiet' = FALSE
  /\ UNCHANGED <<main, backlog, socket, stop, connections, flags, reaping, stopAsked>>

\* A mutant of SubscriptionEnds: the early return leaves its slot taken.
SubscriptionLeaks(c) ==
  /\ Running
  /\ conn[c] = "served" /\ kind[c] = "subscribe"
  /\ conn' = [conn EXCEPT ![c] = "over"]
  /\ UNCHANGED <<main, backlog, socket, stop, clients, kind, flags, quiet, reaping,
                 stopAsked>>

\* The client disconnects, or the session is over and the closing frame is sent.
SubscriptionEnds(c) ==
  /\ Running
  /\ conn[c] = "served" /\ kind[c] = "subscribe"
  /\ Ends(c)
  /\ UNCHANGED <<main, backlog, socket, stop, kind, flags, quiet, reaping, stopAsked>>

-------------------------------------------------------------------------------
(* The reaper.                                                             *)

\* A mutant of ReaperLooks: the exit of the child is enough.
ReaperLooksAtChild ==
  /\ Running
  /\ reaper = "asleep"
  /\ \/ stop /\ reaper' = "left" /\ UNCHANGED wasQuiet
     \/ ~stop /\ exited /\ reaper' = "looking" /\ wasQuiet' = quiet
  /\ UNCHANGED <<main, backlog, socket, stop, connections, flags, quiet, stopAsked>>

\* One turn of its loop: it leaves if somebody stopped the keeper, sleeps again
\* while the session lives, and otherwise reads the clock.
ReaperLooks ==
  /\ Running
  /\ reaper = "asleep"
  /\ \/ stop /\ reaper' = "left" /\ UNCHANGED wasQuiet
     \/ ~stop /\ Ended /\ reaper' = "looking" /\ wasQuiet' = quiet
  /\ UNCHANGED <<main, backlog, socket, stop, connections, flags, quiet, stopAsked>>

\* Without a socket nobody can connect again: exit at once.
ReaperExits ==
  /\ Running
  /\ reaper = "looking"
  /\ ~socket
  /\ Leave
  /\ UNCHANGED <<backlog, stop, connections, flags, quiet, reaping, stopAsked>>

ReaperStops ==
  /\ Running
  /\ reaper = "looking"
  /\ socket
  /\ IF wasQuiet
       THEN stop' = TRUE /\ reaper' = "waking"
       ELSE reaper' = "asleep" /\ UNCHANGED stop
  /\ UNCHANGED <<main, backlog, socket, connections, flags, quiet, wasQuiet, stopAsked>>

ReaperWakes ==
  /\ Running
  /\ reaper = "waking"
  /\ Woken
  /\ reaper' = "left"
  /\ UNCHANGED <<main, socket, stop, connections, flags, quiet, wasQuiet, stopAsked>>

Reaper == ReaperLooks \/ ReaperExits \/ ReaperStops \/ ReaperWakes
Serve(c) == Answer(c) \/ SetStop(c) \/ WakeAccept(c)

LifeNext ==
  \/ TestStop \/ Accept \/ Reaper
  \/ ChildExits \/ OutputCloses \/ RetentionPasses \/ DirRemoved
  \/ \E c \in Client : Connect(c) \/ Serve(c) \/ SendBytes(c) \/ SubscriptionEnds(c)

LifeSpec == LifeInit /\ [][LifeNext]_lifeVars

\* The keeper's threads run, time passes, and a subscription to a session that
\* is over is closed.  Nothing is assumed of clients or of the child.
LifeFairSpec ==
  /\ LifeSpec
  /\ WF_lifeVars(TestStop \/ Accept)
  /\ WF_lifeVars(Reaper)
  /\ WF_lifeVars(RetentionPasses)
  /\ \A c \in Client : WF_lifeVars(Serve(c)) /\ WF_lifeVars(Ended /\ SubscriptionEnds(c))

-------------------------------------------------------------------------------
LifeTypeOK ==
  /\ main \in {"testing", "accepting", "gone"}
  /\ \A i \in DOMAIN backlog : backlog[i] \in Client \cup {"wake"}
  /\ clients \in 0..MaxClients
  /\ conn \in [Client -> {"new", "queued", "dropped", "served", "stopping", "waking",
                          "over"}]
  /\ reaper \in {"asleep", "looking", "waking", "left"}

\* The count that decides whether a connection is served is the number being
\* served: no way out of a connection's thread leaks its slot.
SlotsMatchThreads ==
  clients = Cardinality({ c \in Client : conn[c] \in {"served", "stopping", "waking"} })

\* Detached work is never reaped: unless a client stopped it, a keeper leaves
\* only after its program has exited and all of its output is kept.
NeverReapsRunning == ~Running /\ ~stopAsked => Ended

\* The accept loop leaves once somebody set the flag, whatever it was doing, as
\* long as there is a socket to wake it by.
StopLeaves == stop ~> ~Running \/ ~socket

\* A session that is over does not keep its keeper for ever.
EndedKeeperLeaves == Ended ~> ~Running \/ ~socket

\* The accept loop blocks, and whoever has a reason to end it must wake it.
KeeperLeaves == StopLeaves /\ EndedKeeperLeaves

-------------------------------------------------------------------------------
\* session/src/main.rs:509: if the socket is gone nobody can ever read the output
\* again, so the keeper leaves at once.
LeavesWithoutSocket == Ended /\ ~socket ~> ~Running

\* session/src/main.rs:508: an ended session's output is kept for the retention
\* time, measured from the last client.
KeptSinceLastClient == [][stop' /\ ~stop /\ ~stopAsked => quiet]_lifeVars
===============================================================================
