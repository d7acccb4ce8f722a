-------------------------------- MODULE Gateway --------------------------------
(***************************************************************************)
(* A paired device's request on its way: the node that serves it           *)
(* (node/src/main.rs Serve and serve, lib.rs authorize, workspace.rs), the *)
(* hub behind the node and the hubs of the owner's other devices           *)
(* (desktop/src/main.rs: operation, remote_operation, relay, create).      *)
(* Every hop gives up by itself, and the next one goes on without it.      *)
(*                                                                         *)
(* The enrolled devices change meanwhile as PeerBook says.  TLS lets in    *)
(* who holds the key of a pinned certificate; frames and bodies within the *)
(* limits are well formed.  The owner's own view asks the hub directly;    *)
(* what boundary() turns away there changes nothing and is left out.       *)
(***************************************************************************)
EXTENDS Naturals, Sequences, FiniteSets

CONSTANTS
  Name, Device, Grants, MaxPeers, Missing,   \* as in PeerBook
  Conn,          \* connections devices make
  MaxConn,       \* connections the node serves at once (16)
  Asked,         \* the requests that are made
  HasTerminal,   \* the node was given a terminal socket
  HasHub,        \* and a hub
  AttachOnly,    \* the hubs that start and stop no sessions: "local", "remote"
  View           \* the owner's view

Place == {"local", "remote"}
Request ==
  [service : {"workspace"}, at : Place,
   op : {"list", "labels", "create", "use", "stop", "subscribe", "owner"}]
    \cup [service : {"terminal"}, at : {"local"}, op : {"use", "stop"}]
    \cup [service : {"identity", "clipboard_get", "clipboard_set"}, at : {"local"},
          op : {"use"}]

ASSUME GatewayAssumption ==
  /\ MaxConn \in Nat \ {0}
  /\ Asked \subseteq Request /\ AttachOnly \subseteq Place
  /\ HasTerminal \in BOOLEAN /\ HasHub \in BOOLEAN
  /\ View \notin Conn

VARIABLES
  book, kept,    \* peers.json
  count,         \* the node's count of connections
  conn,          \* where each connection stands
  hub,           \* what the hub does for each connection and for the view
  far,           \* what the hub of the other device was asked for each of them
  done           \* history: how often what was asked has been done

registry == <<book, kept>>
vars == <<registry, count, conn, hub, far, done>>

Book == INSTANCE PeerBook

Asker == Conn \cup {View}
Closed == [pc |-> "closed"]
Idle == [pc |-> "idle"]

Init ==
  /\ book = <<>> /\ kept = <<>>
  /\ count = 0
  /\ conn = [c \in Conn |-> Closed]
  /\ hub = [a \in Asker |-> Idle]
  /\ far = [a \in Asker |-> Idle]
  /\ done = [a \in Asker |-> 0]

-------------------------------------------------------------------------------
(* What is granted.                                                        *)

EntriesOf(b, d) == { i \in DOMAIN b : b[i].cert = d }
First(b, d) == { b[i] : i \in { j \in EntriesOf(b, d) : \A k \in EntriesOf(b, d) : j <= k } }

\* authorize(): one grant, one service; a terminal grant does not stop the terminal.
Authorized(peer, r) ==
  \/ r.service = "identity"
  \/ r.service \in peer.grants /\ ~(r.service = "terminal" /\ r.op = "stop")

\* A mutant of Allowed: only the routes of this device's sessions are looked at.
AllowedHere(r) == r.at = "local" => r.op \notin {"stop", "subscribe", "owner"}

\* allowed(): the catalogue, labels and requests to keepers; not stop, not what
\* would hold the connection, none of the owner's interfaces.
Allowed(r) ==
  /\ r.op \notin {"stop", "subscribe", "owner"}
  /\ r.op = "labels" => r.at = "local"

\* What a hub refuses whoever asks: it may not start or stop sessions, and a
\* subscription streams.
Refuses(place, r) ==
  \/ r.op = "subscribe"
  \/ place \in AttachOnly /\ r.op = "stop"
  \/ place \in AttachOnly /\ r.op = "create" /\ place = r.at
  \/ place \in AttachOnly /\ r.op = "owner" /\ r.at = "local"

-------------------------------------------------------------------------------
(* The registry changes while connections are served.                      *)

\* History: since it sent its request, a device has been entitled to it at some moment.
Entitled(b, d, r) ==
  r.service = "identity" \/ \E i \in EntriesOf(b, d) : r.service \in b[i].grants

RegistryChanges ==
  /\ \/ \E p \in Book!Peer : Book!Enroll(p)
     \/ \E n \in Name : Book!Revoke(n)
  /\ conn' = [c \in Conn |->
                IF conn[c].pc # "sent" THEN conn[c]
                ELSE [conn[c] EXCEPT !.entitled = @ \/ Entitled(book', conn[c].device,
                                                               conn[c].request)]]
  /\ UNCHANGED <<count, hub, far, done>>

-------------------------------------------------------------------------------
(* The node's accept loop.                                                 *)

Pinned == { book[i].cert : i \in DOMAIN book }

\* A connection nobody uses, of which no request is on its way any more.
Free(c) == conn[c] = Closed /\ hub[c] = Idle /\ far[c] = Idle

\* Over the limit, or without peers to verify against, a connection is dropped;
\* either way the count is given back at once.  The others get a thread, and the
\* certificates that were pinned when they came.
Accept(c, d) ==
  /\ Free(c)
  /\ count < MaxConn
  /\ Pinned # {}
  /\ count' = count + 1
  /\ conn' = [conn EXCEPT ![c] = [pc |-> "greeting", device |-> d, pins |-> Pinned]]
  /\ UNCHANGED <<registry, hub, far, done>>

-------------------------------------------------------------------------------
(* The thread of a connection.                                             *)

\* However serve() returns, the thread gives its slot back.
Ends(c) ==
  /\ conn' = [conn EXCEPT ![c] = Closed]
  /\ count' = count - 1

Handshake(c) ==
  /\ conn[c].pc = "greeting"
  /\ IF conn[c].device \in conn[c].pins
       THEN /\ conn' = [conn EXCEPT ![c] = [pc |-> "reading", device |-> @.device]]
            /\ UNCHANGED count
       ELSE Ends(c)
  /\ UNCHANGED <<registry, hub, far, done>>

Send(c, r) ==
  /\ conn[c].pc = "reading"
  /\ conn' = [conn EXCEPT ![c] = [pc |-> "sent", device |-> @.device, request |-> r,
                                  entitled |-> Entitled(book, @.device, r)]]
  /\ done' = [done EXCEPT ![c] = 0]
  /\ UNCHANGED <<registry, count, hub, far>>

Answers(c, what) == conn' = [conn EXCEPT ![c] = [pc |-> "answering", answer |-> what]]

\* A mutant of Recheck: the certificates pinned when the connection came will do.
RecheckNothing(c) ==
  /\ conn[c].pc = "sent"
  /\ conn' = [conn EXCEPT ![c].pc = "working"]
  /\ UNCHANGED <<registry, count, hub, far, done>>

\* The registry is read again: the device must be in it still, and its first
\* entry must grant what is asked.
Recheck(c) ==
  /\ conn[c].pc = "sent"
  /\ LET d == conn[c].device
     IN  IF EntriesOf(book, d) = {}
           THEN Ends(c)
           ELSE /\ IF \E peer \in First(book, d) : Authorized(peer, conn[c].request)
                     THEN conn' = [conn EXCEPT ![c].pc = "working"]
                     ELSE Answers(c, "denied")
                /\ UNCHANGED count
  /\ UNCHANGED <<registry, hub, far, done>>

Does(a) == done' = [done EXCEPT ![a] = @ + 1]

\* The terminal's keeper and the clipboard.  What fails on the way to the keeper
\* ends the connection without an answer, whether or not the keeper did it.
Serve(c) ==
  /\ conn[c].pc = "working" /\ conn[c].request.service # "workspace"
  /\ LET terminal == conn[c].request.service = "terminal"
     IN  \/ /\ IF terminal /\ ~HasTerminal
                 THEN Answers(c, "denied") /\ UNCHANGED done
                 ELSE Answers(c, "done") /\ Does(c)
            /\ UNCHANGED count
         \/ /\ terminal /\ HasTerminal
            /\ Ends(c)
            /\ UNCHANGED done \/ Does(c)
         \/ /\ ~terminal /\ conn[c].request.service # "identity"
            /\ Answers(c, "failed")
            /\ UNCHANGED <<count, done>>
  /\ UNCHANGED <<registry, hub, far>>

\* Hub::call sends the request on, unless there is no hub or no such route.
AskHub(c) ==
  /\ conn[c].pc = "working" /\ conn[c].request.service = "workspace"
  /\ IF HasHub /\ Allowed(conn[c].request)
       THEN /\ hub' = [hub EXCEPT ![c] = [pc |-> "asked", request |-> conn[c].request]]
            /\ conn' = [conn EXCEPT ![c].pc = "waiting"]
       ELSE Answers(c, "denied") /\ UNCHANGED hub
  /\ UNCHANGED <<registry, count, far, done>>

Waiting(c) == conn[c].pc = "waiting"

\* A mutant of HubAnswers: no answer in time is told as a refusal.
HubRefuses(c) ==
  /\ Waiting(c)
  /\ \/ /\ hub[c].pc = "answered"
        /\ Answers(c, hub[c].answer)
        /\ hub' = [hub EXCEPT ![c] = Idle]
     \/ /\ hub[c].pc # "answered"
        /\ Answers(c, "denied")
        /\ UNCHANGED hub
  /\ UNCHANGED <<registry, count, far, done>>

\* The hub's answer, whatever its status, or none in time.
HubAnswers(c) ==
  /\ Waiting(c)
  /\ \/ /\ hub[c].pc = "answered"
        /\ Answers(c, hub[c].answer)
        /\ hub' = [hub EXCEPT ![c] = Idle]
     \/ /\ hub[c].pc # "answered"
        /\ Answers(c, "failed")
        /\ UNCHANGED hub
  /\ UNCHANGED <<registry, count, far, done>>

\* The answer is written, or cannot be: it is too long, or the device is gone.
WriteAnswer(c) ==
  /\ conn[c].pc = "answering"
  /\ Ends(c)
  /\ UNCHANGED <<registry, hub, far, done>>

\* A mutant of Deadline: a device may greet as slowly as it likes.
DeadlineOfRequest(c) ==
  /\ conn[c].pc = "reading"
  /\ Ends(c)
  /\ UNCHANGED <<registry, hub, far, done>>

\* The socket has one deadline for all that a device sends.
Deadline(c) ==
  /\ conn[c].pc \in {"greeting", "reading"}
  /\ Ends(c)
  /\ UNCHANGED <<registry, hub, far, done>>

-------------------------------------------------------------------------------
(* The hub.                                                                *)

ViewAsks(r) ==
  /\ hub[View] = Idle /\ far[View] = Idle
  /\ r.service = "workspace"
  /\ hub' = [hub EXCEPT ![View] = [pc |-> "asked", request |-> r]]
  /\ done' = [done EXCEPT ![View] = 0]
  /\ UNCHANGED <<registry, count, conn, far>>

\* The answer goes to the node if it waits for it still, and the view reads its own.
HubReplies(a, what) ==
  hub' = [hub EXCEPT ![a] =
            IF a # View /\ Waiting(a) THEN [pc |-> "answered", answer |-> what] ELSE Idle]

\* The handlers of the hub the request came to.
HubServes(a) ==
  /\ hub[a].pc = "asked"
  /\ LET r == hub[a].request
     IN  \/ /\ Refuses("local", r)
            /\ HubReplies(a, "denied") /\ UNCHANGED <<far, done>>
         \/ /\ ~Refuses("local", r) /\ r.at = "local"
            /\ \/ Does(a) /\ (HubReplies(a, "done") \/ HubReplies(a, "failed"))
               \/ UNCHANGED done /\ HubReplies(a, "failed")
            /\ UNCHANGED far
         \/ /\ ~Refuses("local", r) /\ r.at = "remote"
            /\ hub' = [hub EXCEPT ![a].pc = "relaying"]
            /\ far' = [far EXCEPT ![a] = [pc |-> "asked", request |-> r]]
            /\ UNCHANGED done
  /\ UNCHANGED <<registry, count, conn>>

\* A mutant of RelayAnswers: what was not answered is asked again, as a listing is.
RelayAgain(a) ==
  /\ hub[a].pc = "relaying"
  /\ \/ far[a].pc = "answered" /\ HubReplies(a, far[a].answer) /\ far' = [far EXCEPT ![a] = Idle]
     \/ far' = [far EXCEPT ![a] = [pc |-> "asked", request |-> hub[a].request]] /\ UNCHANGED hub
  /\ UNCHANGED <<registry, count, conn, done>>

\* relay(): the answer of the other hub, or none in time: the request did not get
\* there, the answer did not get back, or it is still to be served.
RelayAnswers(a) ==
  /\ hub[a].pc = "relaying"
  /\ \/ far[a].pc = "answered" /\ HubReplies(a, far[a].answer) /\ far' = [far EXCEPT ![a] = Idle]
     \/ HubReplies(a, "failed") /\ far' = [far EXCEPT ![a] = Idle]
     \/ far[a].pc = "asked" /\ HubReplies(a, "failed") /\ UNCHANGED far
  /\ UNCHANGED <<registry, count, conn, done>>

\* The hub of the other device answers whoever is there still, and may do what it
\* was asked when everybody has been told that it failed.
RemoteServes(a) ==
  /\ far[a].pc = "asked"
  /\ LET answers(what) ==
           far' = [far EXCEPT ![a] = IF hub[a].pc = "relaying"
                                       THEN [pc |-> "answered", answer |-> what] ELSE Idle]
     IN  IF Refuses("remote", far[a].request)
           THEN answers("denied") /\ UNCHANGED done
           ELSE Does(a) /\ \E what \in {"done", "failed"} : answers(what)
  /\ UNCHANGED <<registry, count, conn, hub>>

Thread(c) ==
  Recheck(c) \/ Serve(c) \/ AskHub(c) \/ HubAnswers(c) \/ WriteAnswer(c)
    \/ Deadline(c)
HubTask(a) == HubServes(a) \/ RelayAnswers(a)

Next ==
  \/ RegistryChanges
  \/ \E c \in Conn :
       Thread(c) \/ Handshake(c) \/ (\E d \in Device : Accept(c, d)) \/ (\E r \in Asked : Send(c, r))
  \/ \E r \in Asked : ViewAsks(r)
  \/ \E a \in Asker : HubTask(a) \/ RemoteServes(a)

Spec == Init /\ [][Next]_vars

\* Threads and tasks run and the programs they start come to an end; nothing is
\* assumed of devices (who need not even greet), of the view and of other hubs.
FairSpec ==
  /\ Spec
  /\ \A c \in Conn : WF_vars(Thread(c))
  /\ \A a \in Asker : WF_vars(HubTask(a))

-------------------------------------------------------------------------------
TypeOK ==
  /\ count \in 0..MaxConn
  /\ \A a \in Asker : hub[a].pc \in {"idle", "asked", "relaying", "answered"}

\* A request is done only for a device that was entitled to it at some moment after
\* it sent it: one that was revoked before is refused, also on a connection from
\* before ("Device revoked for subsequent requests", node/src/main.rs:213).
RevokedIsRefused ==
  \A c \in Conn : conn[c].pc \in {"working", "waiting"} => conn[c].entitled

\* By no way round does a paired device stop a session, hold a stream or reach the
\* owner's interfaces, and a hub that only attaches stops nothing for anybody
\* (workspace.rs:1, desktop/src/main.rs:589).
NothingBeyondGrants ==
  [][\A a \in Asker : done'[a] > done[a] =>
       LET r == IF far[a].pc = "asked" THEN far[a].request
                ELSE IF hub[a].pc = "asked" THEN hub[a].request ELSE conn[a].request
       IN  /\ a \in Conn => r.op \notin {"stop", "subscribe", "owner"}
           /\ "local" \in AttachOnly \/ r.at \in AttachOnly => r.op # "stop"]_vars

\* "No automatic retry": what was asked once is not done twice, however many hops
\* gave up on it (desktop/src/main.rs:129).
DoneOnce == \A a \in Asker : done[a] <= 1

\* Who is told that it was done, or that it was denied, is told the truth; only
\* "failed" leaves it open.
AnswersAreTrue ==
  \A c \in Conn : conn[c].pc = "answering" =>
    /\ conn[c].answer = "done" => done[c] = 1
    /\ conn[c].answer = "denied" => done[c] = 0 /\ far[c] = Idle

\* The count that decides whether a connection is served is the number of threads.
SlotsMatchThreads == count = Cardinality({ c \in Conn : conn[c] # Closed })

\* A connection gives its slot back, whatever the device, the keeper, the hub or
\* the hub behind it does or does not do.
ConnectionEnds == \A c \in Conn : conn[c] # Closed ~> conn[c] = Closed

-------------------------------------------------------------------------------
\* node/src/main.rs:213 tells the owner that the device is revoked.  It is the name
\* that is: pair gives a device a second name without asking (main.rs:182), and
\* under that one it is served.
RevokedNameIsGone ==
  [][\A n \in Name : \A i \in DOMAIN book :
       book[i].name = n /\ Book!Revoke(n) => EntriesOf(book', book[i].cert) = {}]_vars
===============================================================================
