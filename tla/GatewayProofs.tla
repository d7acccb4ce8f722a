---------------------------- MODULE GatewayProofs ----------------------------
(***************************************************************************)
(* What Gateway promises about requests, for any number of connections,    *)
(* devices, names and grants.  The argument follows a request from hop to  *)
(* hop: at any moment it has not been done, and waits in one place, or it  *)
(* waits nowhere (Path); what an answer says is so (Answered).              *)
(***************************************************************************)
EXTENDS Gateway, TLAPS

\* The forms the records take.
ConnForm(k) ==
  \/ k = [pc |-> "closed"]
  \/ k = [pc |-> "greeting", device |-> k.device, pins |-> k.pins]
  \/ k = [pc |-> "reading", device |-> k.device]
  \/ /\ k = [pc |-> k.pc, device |-> k.device, request |-> k.request, entitled |-> k.entitled]
     /\ k.pc \in {"sent", "working", "waiting"}
  \/ k = [pc |-> "answering", answer |-> k.answer]
HubForm(h) ==
  \/ h = [pc |-> "idle"]
  \/ h = [pc |-> h.pc, request |-> h.request] /\ h.pc \in {"asked", "relaying"}
  \/ h = [pc |-> "answered", answer |-> h.answer]

\* For an asker whose connection is k, whose hub is at h, whose far hub at f, and
\* whose request has been done n times: a request waits in one place at a time and
\* is not done before; what a hop left behind is forgotten before the next request.
Path(k, h, f, n) ==
  /\ n \in {0, 1}
  /\ k.pc \in {"greeting", "reading", "sent", "working"} => h.pc = "idle" /\ f.pc = "idle"
  /\ k.pc \in {"sent", "working"} => n = 0
  /\ h.pc = "asked" => f.pc = "idle" /\ n = 0
  /\ h.pc = "answered" => f.pc # "answered" /\ k.pc = "waiting"
  /\ f.pc = "asked" => n = 0
  /\ f.pc = "answered" => h.pc = "relaying"

\* Answers are true on every hop, and one that leaves nothing open leaves nothing behind.
True(what, n) == (what = "done" => n = 1) /\ (what = "denied" => n = 0)
Answered(k, h, f, n) ==
  /\ f.pc = "answered" => True(f.answer, n)
  /\ h.pc = "answered" => True(h.answer, n) /\ (h.answer # "failed" => f.pc = "idle")
  /\ k.pc = "answering" =>
       True(k.answer, n) /\ (k.answer # "failed" => h.pc = "idle" /\ f.pc = "idle")

\* What is on its way was let through.
LetThrough(a, r) == r \in Asked /\ (a \in Conn => Allowed(r))
Relayed(r) == r.at = "remote" /\ ~Refuses("local", r)
Requested(a, k, h, f) ==
  /\ k.pc \in {"sent", "working", "waiting"} => k.request \in Asked
  /\ k.pc \in {"working", "waiting"} =>
       ~(k.request.service = "terminal" /\ k.request.op = "stop")
  /\ h.pc \in {"asked", "relaying"} => LetThrough(a, h.request)
  /\ h.pc = "relaying" => Relayed(h.request)
  /\ f.pc = "asked" => LetThrough(a, f.request) /\ Relayed(f.request)

Hops(a, k, h, f, n) ==
  /\ ConnForm(k) /\ HubForm(h) /\ HubForm(f)
  /\ Path(k, h, f, n) /\ Answered(k, h, f, n) /\ Requested(a, k, h, f)

At(a) == IF a \in Conn THEN conn[a] ELSE Closed
HopInv ==
  /\ conn = [c \in Conn |-> conn[c]]
  /\ hub = [a \in Asker |-> hub[a]] /\ far = [a \in Asker |-> far[a]]
  /\ done = [a \in Asker |-> done[a]]
  /\ \A a \in Asker : Hops(a, At(a), hub[a], far[a], done[a])

\* At first nobody is on the way.
LEMMA HopInit == Init => HopInv
BY GatewayAssumption
  DEF Init, HopInv, At, Hops, ConnForm, HubForm, Path, Answered, Requested, Closed, Idle, Asker

\* A step moves one asker's request, from where it is to where it may be.
Moves(a, k, h, f, n) ==
  /\ conn' = IF a \in Conn THEN [conn EXCEPT ![a] = k] ELSE conn
  /\ hub' = [hub EXCEPT ![a] = h]
  /\ far' = [far EXCEPT ![a] = f]
  /\ done' = [done EXCEPT ![a] = n]

\* What one asker's connection, hub and far hub do leaves the other askers' alone.
LEMMA OneMoves ==
  ASSUME HopInv, NEW a \in Asker, NEW k, NEW h, NEW f, NEW n,
         a \notin Conn => k = Closed, Hops(a, k, h, f, n), Moves(a, k, h, f, n)
  PROVE  HopInv'
<1>1. /\ conn' = [c \in Conn |-> conn'[c]]
      /\ hub' = [b \in Asker |-> hub'[b]] /\ far' = [b \in Asker |-> far'[b]]
      /\ done' = [b \in Asker |-> done'[b]]
  BY DEF HopInv, Moves
<1>2. ASSUME NEW b \in Asker
      PROVE  Hops(b, At(b)', hub'[b], far'[b], done'[b])
  <2>1. CASE b = a
    <3>1. At(b)' = k /\ hub'[b] = h /\ far'[b] = f /\ done'[b] = n
      BY <2>1 DEF HopInv, Moves, At
    <3> QED BY <3>1, <2>1
  <2>2. CASE b # a
    <3>1. At(b)' = At(b) /\ hub'[b] = hub[b] /\ far'[b] = far[b] /\ done'[b] = done[b]
      BY <2>2 DEF HopInv, Moves, At, Asker
    <3> QED BY <3>1 DEF HopInv
  <2> QED BY <2>1, <2>2
<1> QED BY <1>1, <1>2 DEF HopInv

\* What does not move stays where it is.
LEMMA Still ==
  ASSUME HopInv, NEW a \in Asker
  PROVE  /\ hub = [hub EXCEPT ![a] = hub[a]] /\ far = [far EXCEPT ![a] = far[a]]
         /\ done = [done EXCEPT ![a] = done[a]]
         /\ a \in Conn => conn = [conn EXCEPT ![a] = conn[a]] /\ At(a) = conn[a]
         /\ Hops(a, At(a), hub[a], far[a], done[a])
BY DEF HopInv, At

\* Every step keeps the invariant: one step of the proof for each action.
LEMMA HopStep == ASSUME HopInv, [Next]_vars PROVE HopInv'
<1> DEFINE To(a, k, h, f, n) ==
             (a \notin Conn => k = Closed) /\ Hops(a, k, h, f, n) /\ Moves(a, k, h, f, n)
<1>0. ASSUME NEW a \in Asker, NEW k, NEW h, NEW f, NEW n, To(a, k, h, f, n) PROVE HopInv'
  BY <1>0, OneMoves
<1> HIDE DEF To
<1>1. CASE UNCHANGED vars
  BY <1>1 DEF vars, registry, HopInv, At
<1>2. CASE RegistryChanges
  <2>1. ASSUME NEW c \in Conn
        PROVE  /\ conn'[c].pc = conn[c].pc
               /\ ConnForm(conn'[c])
               /\ conn[c].pc = "answering" => conn'[c] = conn[c]
               /\ conn[c].pc \in {"sent", "working", "waiting"} =>
                    conn'[c].request = conn[c].request
    <3>1. ConnForm(conn[c]) BY DEF HopInv, At, Hops, Asker
    <3>2. CASE conn[c].pc # "sent"
      <4>1. conn'[c] = conn[c] BY <1>2, <3>2 DEF RegistryChanges
      <4> QED BY <4>1, <3>1
    <3>3. CASE conn[c].pc = "sent"
      <4>1. PICK e : conn'[c] = [conn[c] EXCEPT !.entitled = e]
        BY <1>2, <3>3 DEF RegistryChanges
      <4>2. conn'[c] = [pc |-> "sent", device |-> conn[c].device,
                        request |-> conn[c].request, entitled |-> e]
        BY <4>1, <3>1, <3>3 DEF ConnForm
      <4> QED BY <4>2, <3>3 DEF ConnForm
    <3> QED BY <3>2, <3>3
  <2>2. conn' = [c \in Conn |-> conn'[c]] /\ UNCHANGED <<hub, far, done>>
    BY <1>2 DEF RegistryChanges
  <2>3. ASSUME NEW a \in Asker PROVE Hops(a, At(a)', hub[a], far[a], done[a])
    <3>1. Hops(a, At(a), hub[a], far[a], done[a]) BY DEF HopInv
    <3>2. CASE a \in Conn
      <4>1. At(a) = conn[a] /\ At(a)' = conn'[a] BY <3>2 DEF At
      <4> QED BY <3>1, <4>1, <2>1, <3>2 DEF Hops, Path, Answered, Requested
    <3>3. CASE a \notin Conn BY <3>1, <3>3 DEF At
    <3> QED BY <3>2, <3>3
  <2> QED BY <2>2, <2>3 DEF HopInv
<1>3. ASSUME NEW c \in Conn, NEW d \in Device, Accept(c, d) PROVE HopInv'
  <2> DEFINE k == [pc |-> "greeting", device |-> d, pins |-> Pinned]
  <2>1. To(c, k, hub[c], far[c], done[c])
    BY <1>3, Still
      DEF Accept, Free, To, Moves, Asker, Hops, ConnForm, Path, Answered, Requested, Closed, Idle
  <2> QED BY <2>1, <1>0 DEF Asker
<1>4. ASSUME NEW c \in Conn, Handshake(c) PROVE HopInv'
  <2> DEFINE k == IF conn[c].device \in conn[c].pins
                    THEN [pc |-> "reading", device |-> conn[c].device] ELSE Closed
  <2>1. To(c, k, hub[c], far[c], done[c])
    BY <1>4, Still
      DEF Handshake, Ends, To, Moves, Asker, Hops, ConnForm, Path, Answered, Requested, Closed
  <2> QED BY <2>1, <1>0 DEF Asker
<1>5. ASSUME NEW c \in Conn, NEW r \in Asked, Send(c, r) PROVE HopInv'
  <2> DEFINE k == [pc |-> "sent", device |-> conn[c].device, request |-> r,
                   entitled |-> Entitled(book, conn[c].device, r)]
  <2>1. To(c, k, hub[c], far[c], 0)
    BY <1>5, Still DEF Send, To, Moves, Asker, Hops, ConnForm, Path, Answered, Requested
  <2> QED BY <2>1, <1>0 DEF Asker
<1>6. ASSUME NEW c \in Conn, Recheck(c) PROVE HopInv'
  <2>1. CASE EntriesOf(book, conn[c].device) = {}
    <3>1. To(c, Closed, hub[c], far[c], done[c])
      BY <1>6, <2>1, Still
        DEF Recheck, Ends, To, Moves, Asker, Hops, ConnForm, Path, Answered, Requested, Closed
    <3> QED BY <3>1, <1>0 DEF Asker
  <2>2. CASE /\ EntriesOf(book, conn[c].device) # {}
             /\ \E peer \in First(book, conn[c].device) : Authorized(peer, conn[c].request)
    <3>1. To(c, [conn[c] EXCEPT !.pc = "working"], hub[c], far[c], done[c])
      BY <1>6, <2>2, Still
        DEF Recheck, Authorized, To, Moves, Asker, Hops, ConnForm, Path, Answered, Requested
    <3> QED BY <3>1, <1>0 DEF Asker
  <2>3. CASE /\ EntriesOf(book, conn[c].device) # {}
             /\ ~\E peer \in First(book, conn[c].device) : Authorized(peer, conn[c].request)
    <3>1. To(c, [pc |-> "answering", answer |-> "denied"], hub[c], far[c], done[c])
      BY <1>6, <2>3, Still
        DEF Recheck, Answers, To, Moves, Asker, Hops, ConnForm, Path, Answered, Requested, True
    <3> QED BY <3>1, <1>0 DEF Asker
  <2> QED BY <2>1, <2>2, <2>3
<1>7. ASSUME NEW c \in Conn, Serve(c) PROVE HopInv'
  <2>1. /\ conn[c].pc = "working" /\ hub[c].pc = "idle" /\ far[c].pc = "idle" /\ done[c] = 0
        /\ HubForm(hub[c]) /\ HubForm(far[c])
    BY <1>7, Still DEF Serve, Hops, Path, Asker
  <2>2. \A n \in {0, 1} :
          /\ Hops(c, Closed, hub[c], far[c], n)
          /\ Hops(c, [pc |-> "answering", answer |-> "failed"], hub[c], far[c], n)
    BY <2>1 DEF Hops, ConnForm, Path, Answered, Requested, True, Closed
  <2>3. /\ Hops(c, [pc |-> "answering", answer |-> "denied"], hub[c], far[c], 0)
        /\ Hops(c, [pc |-> "answering", answer |-> "done"], hub[c], far[c], 1)
    BY <2>1 DEF Hops, ConnForm, Path, Answered, Requested, True
  <2>4. UNCHANGED <<hub, far>> BY <1>7 DEF Serve
  <2>5. \/ Moves(c, [pc |-> "answering", answer |-> "denied"], hub[c], far[c], 0)
        \/ Moves(c, [pc |-> "answering", answer |-> "done"], hub[c], far[c], 1)
        \/ Moves(c, Closed, hub[c], far[c], 0)
        \/ Moves(c, Closed, hub[c], far[c], 1)
        \/ Moves(c, [pc |-> "answering", answer |-> "failed"], hub[c], far[c], 0)
    BY <1>7, <2>1, <2>4, Still DEF Serve, Does, Ends, Answers, Moves, Asker
  <2> QED BY <2>2, <2>3, <2>5, <1>0 DEF To, Asker
<1>8. ASSUME NEW c \in Conn, AskHub(c) PROVE HopInv'
  <2>1. CASE HasHub /\ Allowed(conn[c].request)
    <3> DEFINE k == [conn[c] EXCEPT !.pc = "waiting"]
               h == [pc |-> "asked", request |-> conn[c].request]
    <3>1. k = [pc |-> "waiting", device |-> conn[c].device, request |-> conn[c].request,
               entitled |-> conn[c].entitled]
      BY <1>8, Still DEF AskHub, Hops, ConnForm, Asker
    <3>2. /\ conn[c].request \in Asked /\ far[c].pc = "idle" /\ HubForm(far[c]) /\ done[c] = 0
          /\ ~(conn[c].request.service = "terminal" /\ conn[c].request.op = "stop")
      BY <1>8, Still DEF AskHub, Hops, Path, Requested, Asker
    <3>3. Hops(c, k, h, far[c], done[c])
      BY <2>1, <3>1, <3>2 DEF Hops, ConnForm, HubForm, Path, Answered, Requested, LetThrough
    <3>4. Moves(c, k, h, far[c], done[c])
      BY <1>8, <2>1, Still DEF AskHub, Moves, Asker
    <3> QED BY <3>3, <3>4, <1>0 DEF To, Asker
  <2>2. CASE ~(HasHub /\ Allowed(conn[c].request))
    <3>1. To(c, [pc |-> "answering", answer |-> "denied"], hub[c], far[c], done[c])
      BY <1>8, <2>2, Still
        DEF AskHub, Answers, To, Moves, Asker, Hops, ConnForm, Path, Answered, Requested, True
    <3> QED BY <3>1, <1>0 DEF Asker
  <2> QED BY <2>1, <2>2
<1>9. ASSUME NEW c \in Conn, HubAnswers(c) PROVE HopInv'
  <2>1. CASE hub[c].pc = "answered"
    <3>1. To(c, [pc |-> "answering", answer |-> hub[c].answer], Idle, far[c], done[c])
      BY <1>9, <2>1, Still
        DEF HubAnswers, Waiting, Answers, To, Moves, Asker, Hops, ConnForm, HubForm, Path,
            Answered, Requested, True, Idle
    <3> QED BY <3>1, <1>0 DEF Asker
  <2>2. CASE hub[c].pc # "answered"
    <3>1. To(c, [pc |-> "answering", answer |-> "failed"], hub[c], far[c], done[c])
      BY <1>9, <2>2, Still
        DEF HubAnswers, Waiting, Answers, To, Moves, Asker, Hops, ConnForm, HubForm, Path,
            Answered, Requested, True
    <3> QED BY <3>1, <1>0 DEF Asker
  <2> QED BY <2>1, <2>2
<1>10. ASSUME NEW c \in Conn, WriteAnswer(c) \/ Deadline(c) PROVE HopInv'
  <2>1. To(c, Closed, hub[c], far[c], done[c])
    BY <1>10, Still
      DEF WriteAnswer, Deadline, Ends, To, Moves, Asker, Hops, ConnForm, HubForm, Path, Answered,
          Requested, Closed
  <2> QED BY <2>1, <1>0 DEF Asker
<1>11. ASSUME NEW r \in Asked, ViewAsks(r) PROVE HopInv'
  <2>1. View \in Asker /\ View \notin Conn BY GatewayAssumption DEF Asker
  <2>2. Hops(View, Closed, [pc |-> "asked", request |-> r], far[View], 0)
    BY <1>11, <2>1, Still
      DEF ViewAsks, Hops, At, ConnForm, HubForm, Path, Answered, Requested, LetThrough, Closed,
          Idle
  <2>3. Moves(View, Closed, [pc |-> "asked", request |-> r], far[View], 0)
    BY <1>11, <2>1, Still DEF ViewAsks, Moves
  <2> QED BY <2>1, <2>2, <2>3, <1>0 DEF To
<1>12. ASSUME NEW a \in Asker, HubServes(a) PROVE HopInv'
  <2> DEFINE r == hub[a].request
             h(what) == IF a # View /\ Waiting(a) THEN [pc |-> "answered", answer |-> what]
                                                  ELSE Idle
  <2>1. /\ ConnForm(At(a)) /\ HubForm(far[a])
        /\ far[a].pc = "idle" /\ done[a] = 0 /\ LetThrough(a, r)
        /\ At(a).pc \notin {"greeting", "reading", "sent", "working"}
        /\ Path(At(a), hub[a], far[a], done[a]) /\ Answered(At(a), hub[a], far[a], done[a])
        /\ Requested(a, At(a), hub[a], far[a])
    BY <1>12, Still DEF HubServes, Hops, Path, Requested
  <2>2. a # View => a \in Conn BY DEF Asker
  <2>3. a # View /\ Waiting(a) => At(a).pc = "waiting" BY <2>2 DEF Waiting, At
  <2>4. ASSUME NEW what \in {"done", "failed", "denied"}, NEW n \in {0, 1}, True(what, n)
        PROVE  Hops(a, At(a), h(what), far[a], n)
    <3>1. At(a).pc = "answering" => At(a).answer = "failed"
      BY <1>12, <2>1 DEF HubServes, Answered
    <3>2. HubForm(h(what)) BY DEF HubForm, Idle
    <3>3. h(what).pc = "idle" \/ (h(what) = [pc |-> "answered", answer |-> what] /\ At(a).pc = "waiting")
      BY <2>3 DEF Idle
    <3>4. Path(At(a), h(what), far[a], n) BY <2>1, <3>3 DEF Path
    <3>5. Answered(At(a), h(what), far[a], n) BY <2>1, <2>4, <3>1, <3>3 DEF Answered, True
    <3>6. Requested(a, At(a), h(what), far[a]) BY <2>1, <3>3 DEF Requested
    <3> QED BY <2>1, <3>2, <3>4, <3>5, <3>6 DEF Hops
  <2>5. a \notin Conn => At(a) = Closed BY DEF At
  <2>6. conn' = IF a \in Conn THEN [conn EXCEPT ![a] = At(a)] ELSE conn
    BY <1>12, Still DEF HubServes, At
  <2>7. CASE Refuses("local", r)
    <3>1. Moves(a, At(a), h("denied"), far[a], 0)
      BY <1>12, <2>1, <2>6, <2>7, Still DEF HubServes, HubReplies, Moves
    <3> QED BY <3>1, <2>4, <2>5, <1>0 DEF To, True
  <2>8. CASE ~Refuses("local", r) /\ r.at = "local"
    <3>1. \/ hub' = [hub EXCEPT ![a] = h("done")] /\ Does(a)
          \/ hub' = [hub EXCEPT ![a] = h("failed")] /\ (Does(a) \/ UNCHANGED done)
      BY <1>12, <2>8 DEF HubServes, HubReplies
    <3>2. far' = [far EXCEPT ![a] = far[a]] BY <1>12, <2>8, Still DEF HubServes
    <3>3. Does(a) => done' = [done EXCEPT ![a] = 1] BY <2>1 DEF Does
    <3>4. UNCHANGED done => done' = [done EXCEPT ![a] = 0] BY <2>1, Still
    <3>5. \/ Moves(a, At(a), h("done"), far[a], 1)
          \/ Moves(a, At(a), h("failed"), far[a], 1)
          \/ Moves(a, At(a), h("failed"), far[a], 0)
      BY <3>1, <3>2, <3>3, <3>4, <2>6 DEF Moves
    <3> QED BY <3>5, <2>4, <2>5, <1>0 DEF To, True
  <2>9. CASE ~Refuses("local", r) /\ r.at = "remote"
    <3> DEFINE hh == [hub[a] EXCEPT !.pc = "relaying"]
               f == [pc |-> "asked", request |-> r]
    <3>1. hh = [pc |-> "relaying", request |-> r]
      <4>1. HubForm(hub[a]) /\ hub[a].pc = "asked" BY <1>12, Still DEF HubServes, Hops
      <4> QED BY <4>1 DEF HubForm
    <3>2. At(a).pc = "answering" => At(a).answer = "failed"
      BY <1>12, <2>1 DEF HubServes, Answered
    <3>3. Hops(a, At(a), hh, f, 0)
      BY <2>1, <2>9, <3>1, <3>2
        DEF Hops, HubForm, Path, Answered, Requested, Relayed, True
    <3>4. Moves(a, At(a), hh, f, 0)
      BY <1>12, <2>1, <2>6, <2>9, Still DEF HubServes, Moves
    <3> QED BY <3>3, <3>4, <2>5, <1>0 DEF To
  <2>10. r.at = "remote" \/ r.at = "local" \/ Refuses("local", r)
    BY <1>12 DEF HubServes
  <2> QED BY <2>7, <2>8, <2>9, <2>10
<1>13. ASSUME NEW a \in Asker, RelayAnswers(a) PROVE HopInv'
  <2> DEFINE h(what) == IF a # View /\ Waiting(a) THEN [pc |-> "answered", answer |-> what]
                                                  ELSE Idle
  <2>1. /\ ConnForm(At(a)) /\ HubForm(far[a]) /\ hub[a].pc = "relaying"
        /\ At(a).pc \notin {"greeting", "reading", "sent", "working"}
        /\ Path(At(a), hub[a], far[a], done[a]) /\ Answered(At(a), hub[a], far[a], done[a])
        /\ Requested(a, At(a), hub[a], far[a])
    BY <1>13, Still DEF RelayAnswers, Hops, Path
  <2>2. a # View => a \in Conn BY DEF Asker
  <2>3. a # View /\ Waiting(a) => At(a).pc = "waiting" BY <2>2 DEF Waiting, At
  <2>4. ASSUME NEW what, NEW f \in {Idle, far[a]}, True(what, done[a]),
               f = Idle \/ (f = far[a] /\ what = "failed" /\ far[a].pc = "asked")
        PROVE  Hops(a, At(a), h(what), f, done[a])
    <3>1. At(a).pc = "answering" => At(a).answer = "failed"
      BY <2>1 DEF Answered
    <3>2. HubForm(h(what)) /\ HubForm(f) BY <2>1 DEF HubForm, Idle
    <3>3. h(what).pc = "idle" \/ (h(what) = [pc |-> "answered", answer |-> what] /\ At(a).pc = "waiting")
      BY <2>3 DEF Idle
    <3>4. Path(At(a), h(what), f, done[a]) BY <2>1, <2>4, <3>3 DEF Path, Idle
    <3>5. Answered(At(a), h(what), f, done[a])
      BY <2>1, <2>4, <3>1, <3>3 DEF Answered, True, Idle
    <3>6. Requested(a, At(a), h(what), f) BY <2>1, <2>4, <3>3 DEF Requested, Idle
    <3> QED BY <2>1, <3>2, <3>4, <3>5, <3>6 DEF Hops
  <2>5. a \notin Conn => At(a) = Closed BY DEF At
  <2>6. conn' = IF a \in Conn THEN [conn EXCEPT ![a] = At(a)] ELSE conn
    BY <1>13, Still DEF RelayAnswers, At
  <2>7. \/ far[a].pc = "answered" /\ Moves(a, At(a), h(far[a].answer), Idle, done[a])
        \/ Moves(a, At(a), h("failed"), Idle, done[a])
        \/ far[a].pc = "asked" /\ Moves(a, At(a), h("failed"), far[a], done[a])
    BY <1>13, <2>6, Still DEF RelayAnswers, HubReplies, Moves
  <2>8. far[a].pc = "answered" => True(far[a].answer, done[a]) BY <2>1 DEF Answered
  <2>9. True("failed", done[a]) BY DEF True
  <2> QED BY <2>4, <2>5, <2>7, <2>8, <2>9, <1>0 DEF To
<1>14. ASSUME NEW a \in Asker, RemoteServes(a) PROVE HopInv'
  <2> DEFINE f(what) == IF hub[a].pc = "relaying" THEN [pc |-> "answered", answer |-> what]
                                                  ELSE Idle
  <2>1. /\ ConnForm(At(a)) /\ HubForm(hub[a]) /\ far[a].pc = "asked" /\ done[a] = 0
        /\ At(a).pc \notin {"greeting", "reading", "sent", "working"}
        /\ Path(At(a), hub[a], far[a], done[a]) /\ Answered(At(a), hub[a], far[a], done[a])
        /\ Requested(a, At(a), hub[a], far[a])
    BY <1>14, Still DEF RemoteServes, Hops, Path
  <2>2. ASSUME NEW what, NEW n \in {0, 1}, True(what, n)
        PROVE  Hops(a, At(a), hub[a], f(what), n)
    <3>1. f(what) = Idle \/ (f(what) = [pc |-> "answered", answer |-> what] /\ hub[a].pc = "relaying")
      OBVIOUS
    <3>2. HubForm(f(what)) BY <3>1 DEF HubForm, Idle
    <3>3. Path(At(a), hub[a], f(what), n) BY <2>1, <3>1 DEF Path, Idle
    <3>4. Answered(At(a), hub[a], f(what), n) BY <2>1, <2>2, <3>1 DEF Answered, Path, True, Idle
    <3>5. Requested(a, At(a), hub[a], f(what)) BY <2>1, <3>1 DEF Requested, Idle
    <3> QED BY <2>1, <3>2, <3>3, <3>4, <3>5 DEF Hops
  <2>3. a \notin Conn => At(a) = Closed BY DEF At
  <2>4. conn' = IF a \in Conn THEN [conn EXCEPT ![a] = At(a)] ELSE conn
    BY <1>14, Still DEF RemoteServes, At
  <2>5. \/ Moves(a, At(a), hub[a], f("denied"), 0)
        \/ Moves(a, At(a), hub[a], f("done"), 1)
        \/ Moves(a, At(a), hub[a], f("failed"), 1)
    <3>1. \/ far' = [far EXCEPT ![a] = f("denied")] /\ UNCHANGED done
          \/ far' = [far EXCEPT ![a] = f("done")] /\ Does(a)
          \/ far' = [far EXCEPT ![a] = f("failed")] /\ Does(a)
      BY <1>14 DEF RemoteServes
    <3>2. hub' = [hub EXCEPT ![a] = hub[a]] BY <1>14, Still DEF RemoteServes
    <3>3. Does(a) => done' = [done EXCEPT ![a] = 1] BY <2>1 DEF Does
    <3>4. UNCHANGED done => done' = [done EXCEPT ![a] = 0] BY <2>1, Still
    <3> QED BY <3>1, <3>2, <3>3, <3>4, <2>4 DEF Moves
  <2>6. True("denied", 0) /\ True("done", 1) /\ True("failed", 1) BY DEF True
  <2> QED BY <2>2, <2>3, <2>5, <2>6, <1>0 DEF To
<1> QED
  BY <1>1, <1>2, <1>3, <1>4, <1>5, <1>6, <1>7, <1>8, <1>9, <1>10, <1>11, <1>12, <1>13, <1>14
    DEF Next, Thread, HubTask

\* The hops of a request stand where its answers say they do (workspace.rs call,
\* operation and relay in desktop/src/main.rs), in every reachable state.
THEOREM HopsHold == Spec => []HopInv
BY HopInit, HopStep, PTL DEF Spec

\* "No automatic retry" (desktop/src/main.rs:129): what was asked once is not done
\* twice, however many hops gave up on it.
THEOREM OnceAtMost == Spec => []DoneOnce
<1>1. HopInv => DoneOnce BY DEF HopInv, Hops, Path, DoneOnce
<1> QED BY <1>1, HopsHold, PTL

\* Who is told that a request was done, or that it was denied, is told the truth.
THEOREM TrueAnswers == Spec => []AnswersAreTrue
<1>1. HopInv => AnswersAreTrue
  <2> SUFFICES ASSUME HopInv, NEW c \in Conn, conn[c].pc = "answering"
               PROVE  /\ conn[c].answer = "done" => done[c] = 1
                      /\ conn[c].answer = "denied" => done[c] = 0 /\ far[c] = Idle
    BY DEF AnswersAreTrue
  <2>1. Hops(c, conn[c], hub[c], far[c], done[c]) BY Still DEF Asker
  <2> QED BY <2>1 DEF Hops, Answered, True, HubForm, Idle
<1> QED BY <1>1, HopsHold, PTL

-------------------------------------------------------------------------------
\* A device that was entitled to its request at any moment after sending it is marked.
SentInv ==
  \A c \in Conn : conn[c].pc = "sent" =>
    (Entitled(book, conn[c].device, conn[c].request) => conn[c].entitled)


\* At first no request has been sent.
LEMMA SentInit == Init => SentInv /\ RevokedIsRefused
BY DEF Init, SentInv, RevokedIsRefused, Closed

\* Every step keeps it: a request is remembered as entitled as soon as it is sent.
LEMMA SentStep ==
  ASSUME HopInv, SentInv, RevokedIsRefused, [Next]_vars
  PROVE  SentInv' /\ RevokedIsRefused'
<1> SUFFICES ASSUME NEW c \in Conn
             PROVE  /\ conn'[c].pc = "sent" =>
                         (Entitled(book', conn'[c].device, conn'[c].request) => conn'[c].entitled)
                    /\ conn'[c].pc \in {"working", "waiting"} => conn'[c].entitled
  BY DEF SentInv, RevokedIsRefused
<1>1. ConnForm(conn[c]) /\ conn = [d \in Conn |-> conn[d]]
  BY Still DEF HopInv, Hops, Asker
<1>3. CASE RegistryChanges
  <2>1. CASE conn[c].pc # "sent"
    <3>1. conn'[c] = conn[c] BY <1>3, <2>1 DEF RegistryChanges
    <3> QED BY <3>1, <2>1 DEF RevokedIsRefused
  <2>2. CASE conn[c].pc = "sent"
    <3> DEFINE e == conn[c].entitled \/ Entitled(book', conn[c].device, conn[c].request)
    <3>1. conn'[c] = [conn[c] EXCEPT !.entitled = e]
      <4> DEFINE G(d) == IF conn[d].pc # "sent" THEN conn[d]
                         ELSE [conn[d] EXCEPT !.entitled = conn[d].entitled \/
                                 Entitled(book', conn[d].device, conn[d].request)]
      <4>1. conn' = [d \in Conn |-> G(d)] BY <1>3, Zenon DEF RegistryChanges
      <4>2. G(c) = [conn[c] EXCEPT !.entitled = e] BY <2>2, Zenon
      <4> HIDE DEF G
      <4>3. conn'[c] = G(c) BY <4>1
      <4> QED BY <4>2, <4>3
    <3>2. conn'[c] = [pc |-> "sent", device |-> conn[c].device, request |-> conn[c].request,
                      entitled |-> e]
      BY <3>1, <1>1, <2>2 DEF ConnForm
    <3> HIDE DEF e
    <3>3. /\ conn'[c].pc = "sent" /\ conn'[c].entitled = e
          /\ conn'[c].device = conn[c].device /\ conn'[c].request = conn[c].request
      BY <3>2
    <3> QED BY <3>3, Zenon DEF e
  <2> QED BY <2>1, <2>2
<1>4. ASSUME NEW d \in Conn, Recheck(d) PROVE conn'[c] = conn[c] \/ d = c
  BY <1>4, <1>1 DEF Recheck, Ends, Answers
<1>5. CASE Recheck(c)
  <2>1. CASE conn'[c].pc \notin {"sent", "working", "waiting"} BY <2>1
  <2>2. CASE conn'[c].pc \in {"sent", "working", "waiting"}
    <3>1. /\ conn' = [conn EXCEPT ![c].pc = "working"]
          /\ \E peer \in First(book, conn[c].device) : Authorized(peer, conn[c].request)
      BY <1>5, <1>1, <2>2 DEF Recheck, Ends, Answers, Closed
    <3>2. Entitled(book, conn[c].device, conn[c].request)
      BY <3>1 DEF First, Authorized, Entitled
    <3>3. conn'[c] = [pc |-> "working", device |-> conn[c].device,
                      request |-> conn[c].request, entitled |-> conn[c].entitled]
      BY <3>1, <1>1, <1>5 DEF ConnForm, Recheck
    <3> QED BY <3>2, <3>3, <1>5 DEF SentInv, Recheck
  <2> QED BY <2>1, <2>2
<1>6. ASSUME NEW d \in Conn, NEW r \in Asked, Send(d, r)
      PROVE  \/ conn'[c] = conn[c]
             \/ conn'[c] = [pc |-> "sent", device |-> conn[c].device, request |-> r,
                            entitled |-> Entitled(book, conn[c].device, r)]
  BY <1>6, <1>1 DEF Send
<1>7. ASSUME NEW d \in Conn, AskHub(d)
      PROVE  \/ conn'[c] = conn[c] \/ conn'[c].pc = "answering"
             \/ conn[c].pc = "working" /\ conn'[c] = [conn[c] EXCEPT !.pc = "waiting"]
  BY <1>7, <1>1 DEF AskHub, Answers
<1>8. ASSUME NEW d \in Conn,
             \/ \E e \in Device : Accept(d, e)
             \/ Handshake(d) \/ Serve(d) \/ HubAnswers(d) \/ WriteAnswer(d) \/ Deadline(d)
      PROVE  conn'[c] = conn[c] \/ conn'[c].pc \in {"greeting", "reading", "answering", "closed"}
  BY <1>8, <1>1
    DEF Accept, Handshake, Serve, HubAnswers, WriteAnswer, Deadline, Ends, Answers, Closed
<1>10. CASE UNCHANGED <<book, conn>>
  BY <1>10 DEF SentInv, RevokedIsRefused
<1>11. CASE UNCHANGED registry /\ \E d \in Conn :
              Thread(d) \/ Handshake(d) \/ (\E e \in Device : Accept(d, e))
                \/ (\E r \in Asked : Send(d, r))
  <2>1. book' = book BY <1>11 DEF registry
  <2>2. CASE conn'[c] = conn[c] BY <2>1, <2>2 DEF SentInv, RevokedIsRefused
  <2>3. CASE conn'[c].pc \in {"greeting", "reading", "answering", "closed"} BY <2>3
  <2>4. CASE \E r \in Asked :
               conn'[c] = [pc |-> "sent", device |-> conn[c].device, request |-> r,
                           entitled |-> Entitled(book, conn[c].device, r)]
    BY <2>1, <2>4
  <2>5. CASE conn[c].pc = "working" /\ conn'[c] = [conn[c] EXCEPT !.pc = "waiting"]
    <3>1. conn'[c] = [pc |-> "waiting", device |-> conn[c].device,
                      request |-> conn[c].request, entitled |-> conn[c].entitled]
      BY <2>5, <1>1 DEF ConnForm
    <3> QED BY <3>1, <2>5 DEF RevokedIsRefused
  <2> QED
    BY <1>11, <1>4, <1>5, <1>6, <1>7, <1>8, <2>2, <2>3, <2>4, <2>5 DEF Thread
<1>12. ASSUME NEW a \in Asker, HubTask(a) \/ RemoteServes(a) PROVE UNCHANGED <<book, conn>>
  BY <1>12 DEF HubTask, HubServes, RelayAnswers, RemoteServes, registry
<1>13. ASSUME NEW r \in Asked, ViewAsks(r) PROVE UNCHANGED <<book, conn>>
  BY <1>13 DEF ViewAsks, registry
<1>14. ASSUME NEW d \in Conn,
              Thread(d) \/ Handshake(d) \/ (\E e \in Device : Accept(d, e))
                \/ (\E r \in Asked : Send(d, r))
       PROVE  UNCHANGED registry
  BY <1>14
    DEF Thread, Recheck, Serve, AskHub, HubAnswers, WriteAnswer, Deadline, Handshake, Accept,
        Send
<1> QED
  BY <1>3, <1>10, <1>11, <1>12, <1>13, <1>14 DEF Next, vars, registry

\* A device is served only if it was entitled to its request at some moment after it
\* sent it ("Device revoked for subsequent requests", node/src/main.rs:213).
THEOREM Revoked == Spec => []RevokedIsRefused
BY SentInit, SentStep, HopsHold, PTL DEF Spec

-------------------------------------------------------------------------------
\* Only three handlers do what was asked, each for one asker.
LEMMA Doing ==
  ASSUME HopInv, [Next]_vars, NEW a \in Asker, done'[a] > done[a]
  PROVE  RemoteServes(a) \/ HubServes(a) \/ (a \in Conn /\ Serve(a))
<1>1. done[a] \in {0, 1} /\ done = [b \in Asker |-> done[b]]
  BY Still DEF HopInv, Hops, Path
<1>2. ~ UNCHANGED done BY <1>1
<1>3. ASSUME NEW c \in Conn, NEW r \in Asked, Send(c, r) PROVE FALSE
  BY <1>3, <1>1 DEF Send
<1>4. ASSUME NEW r \in Asked, ViewAsks(r) PROVE FALSE
  BY <1>4, <1>1 DEF ViewAsks
<1>5. ASSUME NEW b \in Asker, RemoteServes(b) PROVE b = a
  BY <1>5, <1>1 DEF RemoteServes, Does
<1>6. ASSUME NEW b \in Asker, HubServes(b) PROVE b = a
  BY <1>6, <1>1 DEF HubServes, Does
<1>7. ASSUME NEW b \in Conn, Serve(b) PROVE b = a
  BY <1>7, <1>1 DEF Serve, Does
<1>8. ~ UNCHANGED vars /\ ~RegistryChanges BY <1>2 DEF vars, RegistryChanges
<1>9. ASSUME NEW c \in Conn,
             \/ \E d \in Device : Accept(c, d)
             \/ Handshake(c) \/ Recheck(c) \/ AskHub(c) \/ HubAnswers(c) \/ WriteAnswer(c)
             \/ Deadline(c)
      PROVE  FALSE
  BY <1>9, <1>2
    DEF Accept, Handshake, Recheck, AskHub, HubAnswers, WriteAnswer, Deadline
<1>10. ASSUME NEW b \in Asker, RelayAnswers(b) PROVE FALSE
  BY <1>10, <1>2 DEF RelayAnswers
<1> QED
  BY <1>3, <1>4, <1>5, <1>6, <1>7, <1>8, <1>9, <1>10 DEF Next, Thread, HubTask

\* What is done is what the hops let pass.
LEMMA DoneInside ==
  ASSUME HopInv, [Next]_vars, NEW a \in Asker, done'[a] > done[a],
         NEW r, r = IF far[a].pc = "asked" THEN far[a].request
                    ELSE IF hub[a].pc = "asked" THEN hub[a].request ELSE conn[a].request
  PROVE  /\ a \in Conn => r.op \notin {"stop", "subscribe", "owner"}
         /\ "local" \in AttachOnly \/ r.at \in AttachOnly => r.op # "stop"
<1>1. Path(At(a), hub[a], far[a], done[a]) /\ Requested(a, At(a), hub[a], far[a])
  BY Still DEF Hops
<1>2. ~ UNCHANGED done BY Still DEF Hops, Path
<1>3. CASE RemoteServes(a)
  <2>1. far[a].pc = "asked" /\ ~Refuses("remote", r)
    BY <1>2, <1>3 DEF RemoteServes
  <2>2. LetThrough(a, r) /\ Relayed(r) BY <2>1, <1>1 DEF Requested
  <2> QED BY <2>1, <2>2 DEF LetThrough, Relayed, Allowed, Refuses
<1>4. CASE HubServes(a)
  <2>1. hub[a].pc = "asked" /\ ~Refuses("local", hub[a].request) /\ hub[a].request.at = "local"
    BY <1>2, <1>4 DEF HubServes
  <2>2. far[a].pc = "idle" BY <2>1, <1>1 DEF Path
  <2>3. r = hub[a].request BY <2>1, <2>2
  <2>4. LetThrough(a, r) BY <2>1, <2>3, <1>1 DEF Requested
  <2> QED BY <2>1, <2>3, <2>4 DEF LetThrough, Allowed, Refuses
<1>5. CASE a \in Conn /\ Serve(a)
  <2>1. At(a) = conn[a] /\ conn[a].pc = "working" /\ conn[a].request.service # "workspace"
    BY <1>5 DEF Serve, At
  <2>2. hub[a].pc = "idle" /\ far[a].pc = "idle" BY <2>1, <1>1 DEF Path
  <2>3. r = conn[a].request BY <2>2
  <2>4. r \in Request /\ r.service # "workspace" /\ ~(r.service = "terminal" /\ r.op = "stop")
    BY <2>1, <2>3, <1>1, GatewayAssumption DEF Requested
  <2>5. r.op = "use" BY <2>4 DEF Request
  <2> QED BY <2>5
<1> QED BY <1>3, <1>4, <1>5, Doing

\* By no way round does a paired device stop a session, hold a stream or reach the
\* owner's interfaces, and a hub that only attaches stops nothing for anybody
\* (workspace.rs:1, desktop/src/main.rs:589).
THEOREM Within == Spec => NothingBeyondGrants
<1> DEFINE Step ==
      \A a \in Asker : done'[a] > done[a] =>
        LET r == IF far[a].pc = "asked" THEN far[a].request
                 ELSE IF hub[a].pc = "asked" THEN hub[a].request ELSE conn[a].request
        IN  /\ a \in Conn => r.op \notin {"stop", "subscribe", "owner"}
            /\ "local" \in AttachOnly \/ r.at \in AttachOnly => r.op # "stop"
<1>1. HopInv /\ [Next]_vars => [Step]_vars
  BY DoneInside, Zenon
<1>2. Spec => [][Step]_vars
  <2> HIDE DEF Step
  <2> QED BY <1>1, HopsHold, PTL DEF Spec
<1> QED BY <1>2 DEF NothingBeyondGrants
===============================================================================
