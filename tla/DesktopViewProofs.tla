--------------------------- MODULE DesktopViewProofs ---------------------------
(***************************************************************************)
(* A key reaches only the session it was typed for, for any number of      *)
(* sessions, selections, keys and faults.  The argument follows a key from *)
(* the gate or the queue through a request to the PTY: wherever it waits,  *)
(* it waits for the session it was typed for (KeysFor).                    *)
(*                                                                         *)
(* And keys arrive in the order they were typed, as long as the view takes *)
(* no lease of one session for a lease of another (mistaken): the leases,  *)
(* the one unanswered input of each of them, and the order of what is at a *)
(* PTY, on its way, queued and at the gate (OrderInv).                     *)
(***************************************************************************)
EXTENDS DesktopView, SequenceTheorems, FiniteSetTheorems, TLAPS

\* Keys that were typed, of those typed so far (w), for s.
KeysFor(w, ks, s) ==
  /\ ks \in Seq(DOMAIN w)
  /\ \A i \in 1..Len(ks) : w[ks[i]] = s

CallForm(c) ==
  c = [by |-> c.by, op |-> c.op, s |-> c.s, g |-> c.g, n |-> c.n, keys |-> c.keys,
       takeover |-> c.takeover, epoch |-> c.epoch, reply |-> c.reply, lease |-> c.lease]
CallOk(w, c) == CallForm(c) /\ KeysFor(w, c.keys, c.s)

\* What the PTY of s received.
PtyOk(w, q, s) ==
  /\ \E T : q \in Seq(T)
  /\ \A i \in 1..Len(q) : q[i].by = Self => q[i].key \in DOMAIN w /\ w[q[i].key] = s

Place == Session \cup {Nowhere}

\* The session that is chosen is the one shown, but while it is being changed; the
\* queue is empty then.
SelInv ==
  /\ want \in Seq(Place)
  /\ sel = [item |-> sel.item, stage |-> sel.stage]
  /\ sel.item \in Place /\ active \in Place
  /\ sel.stage \in {"idle", "releasing", "clearing", "asking"}
  /\ sel.stage \in {"idle", "asking"} => active = sel.item
QueueInv ==
  /\ KeysFor(want, queue, active)
  /\ sel.stage \in {"releasing", "clearing"} => queue = <<>>

\* The gate's keys are for the session that is chosen, unless another selection was
\* made since, and it asks for control when the selection is over.
GateInv ==
  /\ serial \in Nat
  /\ gate = [stage |-> gate.stage, epoch |-> gate.epoch, keys |-> gate.keys]
  /\ gate.epoch \in Nat /\ gate.epoch <= serial
  /\ gate.stage # "none" /\ gate.epoch = serial => KeysFor(want, gate.keys, sel.item)
  /\ gate.stage \in {"asked", "tapping"} /\ gate.epoch = serial => ~selecting

CallsInv == \A c \in calls : CallOk(want, c)
PtyInv ==
  /\ pty = [s \in Session |-> pty[s]]
  /\ \A s \in Session : PtyOk(want, pty[s], s)

KeyInv == SelInv /\ QueueInv /\ GateInv /\ CallsInv /\ PtyInv

-------------------------------------------------------------------------------
(* Keys.                                                                   *)

\* No keys are for any session.
LEMMA NoKeys == ASSUME NEW w, NEW s PROVE KeysFor(w, <<>>, s)
BY DEF KeysFor

\* Keys stay what they are when another one is typed.
LEMMA WantGrows ==
  ASSUME NEW w \in Seq(Place), NEW x \in Place, NEW v, v = Append(w, x)
  PROVE  /\ v \in Seq(Place)
         /\ \A ks, s : KeysFor(w, ks, s) => KeysFor(v, ks, s)
         /\ \A c : CallOk(w, c) => CallOk(v, c)
         /\ \A q, s : PtyOk(w, q, s) => PtyOk(v, q, s)
<1>1. /\ v \in Seq(Place) /\ Len(v) = Len(w) + 1
      /\ \A i \in 1..Len(w) : v[i] = w[i]
  BY AppendProperties
<1>2. /\ DOMAIN w = 1..Len(w) /\ DOMAIN v = 1..Len(v) /\ Len(w) \in Nat
  BY <1>1, LenProperties
<1>3. DOMAIN w \subseteq DOMAIN v /\ \A k \in DOMAIN w : v[k] = w[k]
  BY <1>1, <1>2
<1>4. ASSUME NEW ks, NEW s, KeysFor(w, ks, s) PROVE KeysFor(v, ks, s)
  <2>1. ks \in Seq(DOMAIN w) /\ Len(ks) \in Nat BY <1>4, LenProperties DEF KeysFor
  <2>2. ks \in Seq(DOMAIN v) BY <2>1, <1>3
  <2>3. \A i \in 1..Len(ks) : ks[i] \in DOMAIN w BY <2>1, ElementOfSeq
  <2> QED BY <1>4, <2>2, <2>3, <1>3 DEF KeysFor
<1> QED BY <1>1, <1>3, <1>4 DEF CallOk, PtyOk

\* Keys for one session after each other are for it together.
LEMMA KeysJoin ==
  ASSUME NEW w, NEW a, NEW b, NEW s, KeysFor(w, a, s), KeysFor(w, b, s)
  PROVE  KeysFor(w, a \o b, s)
<1>1. a \in Seq(DOMAIN w) /\ b \in Seq(DOMAIN w) BY DEF KeysFor
<1>2. /\ a \o b \in Seq(DOMAIN w)
      /\ Len(a \o b) = Len(a) + Len(b)
      /\ \A i \in 1..Len(a) + Len(b) : (a \o b)[i] = IF i <= Len(a) THEN a[i] ELSE b[i - Len(a)]
  BY <1>1, ConcatProperties
<1>3. Len(a) \in Nat /\ Len(b) \in Nat BY <1>1, LenProperties
<1>4. ASSUME NEW i \in 1..Len(a \o b) PROVE w[(a \o b)[i]] = s
  <2>1. i \in 1..Len(a) \/ i - Len(a) \in 1..Len(b) BY <1>2, <1>3
  <2>2. CASE i \in 1..Len(a)
    <3>1. (a \o b)[i] = a[i] BY <2>2, <1>2, <1>3
    <3> QED BY <3>1, <2>2 DEF KeysFor
  <2>3. CASE i - Len(a) \in 1..Len(b)
    <3>1. (a \o b)[i] = b[i - Len(a)] BY <2>3, <1>2, <1>3
    <3> QED BY <3>1, <2>3 DEF KeysFor
  <2> QED BY <2>1, <2>2, <2>3
<1> QED BY <1>2, <1>4 DEF KeysFor

\* The rest of the keys behind some.
LEMMA KeysRest ==
  ASSUME NEW w, NEW ks, NEW s, KeysFor(w, ks, s), NEW n \in Nat
  PROVE  KeysFor(w, SubSeq(ks, n + 1, Len(ks)), s)
<1>1. ks \in Seq(DOMAIN w) /\ Len(ks) \in Nat BY LenProperties DEF KeysFor
<1>2. PICK r : r = SubSeq(ks, n + 1, Len(ks)) OBVIOUS
<1>3. \A i \in (n + 1)..Len(ks) : ks[i] \in DOMAIN w
  <2> TAKE i \in (n + 1)..Len(ks)
  <2>1. i \in 1..Len(ks) BY <1>1
  <2> QED BY <1>1, <2>1, ElementOfSeq
<1>4. /\ r \in Seq(DOMAIN w)
      /\ Len(r) = IF n + 1 <= Len(ks) THEN Len(ks) - (n + 1) + 1 ELSE 0
      /\ \A i \in 1..Len(ks) - (n + 1) + 1 : r[i] = ks[n + 1 + i - 1]
  <2>1. n + 1 \in Int /\ Len(ks) \in Int BY <1>1
  <2> QED BY <1>1, <1>2, <1>3, <2>1, SubSeqProperties
<1>5. ASSUME NEW i \in 1..Len(r) PROVE w[r[i]] = s
  <2>1. i \in 1..Len(ks) - (n + 1) + 1 /\ n + i \in 1..Len(ks) BY <1>1, <1>4
  <2>2. r[i] = ks[n + i] BY <2>1, <1>4, <1>1
  <2> QED BY <2>1, <2>2 DEF KeysFor
<1> QED BY <1>2, <1>4, <1>5 DEF KeysFor

-------------------------------------------------------------------------------
(* Requests.                                                               *)

\* A request whose keys are for its session.
LEMMA CallIs ==
  ASSUME NEW w, NEW by, NEW op, NEW s, NEW g, NEW n, NEW keys, NEW takeover, NEW epoch,
         NEW reply, NEW lease, KeysFor(w, keys, s),
         NEW c, c = [by |-> by, op |-> op, s |-> s, g |-> g, n |-> n, keys |-> keys,
                     takeover |-> takeover, epoch |-> epoch, reply |-> reply, lease |-> lease]
  PROVE  CallOk(w, c)
<1>1. /\ c.by = by /\ c.op = op /\ c.s = s /\ c.g = g /\ c.n = n /\ c.keys = keys
      /\ c.takeover = takeover /\ c.epoch = epoch /\ c.reply = reply /\ c.lease = lease
  OBVIOUS
<1>2. CallForm(c) BY <1>1 DEF CallForm
<1> QED BY <1>1, <1>2 DEF CallOk

\* A new request, without keys or with some.
LEMMA AskOk ==
  ASSUME NEW w, NEW by, NEW op, NEW s, NEW e, NEW g, NEW n, NEW ks, KeysFor(w, ks, s)
  PROVE  /\ CallOk(w, Ask(by, op, s, e))
         /\ CallOk(w, [Ask(by, op, s, e) EXCEPT !.g = g])
         /\ CallOk(w, [Ask(by, op, s, e) EXCEPT !.takeover = g])
         /\ CallOk(w, [Ask(by, op, s, e) EXCEPT !.g = g, !.n = n, !.keys = ks])
<1>1. PICK no : no = FALSE OBVIOUS
<1>2. PICK a : a = Ask(by, op, s, e) OBVIOUS
<1>3. a = [by |-> by, op |-> op, s |-> s, g |-> 0, n |-> 0, keys |-> <<>>, takeover |-> no,
           epoch |-> e, reply |-> "none", lease |-> 0]
  BY <1>1, <1>2, Zenon DEF Ask
<1>4. KeysFor(w, <<>>, s) BY NoKeys
<1>5. PICK b : b = [a EXCEPT !.g = g] OBVIOUS
<1>6. b = [by |-> by, op |-> op, s |-> s, g |-> g, n |-> 0, keys |-> <<>>, takeover |-> no,
           epoch |-> e, reply |-> "none", lease |-> 0]
  BY <1>3, <1>5
<1>7. PICK d : d = [b EXCEPT !.n = n] OBVIOUS
<1>8. d = [by |-> by, op |-> op, s |-> s, g |-> g, n |-> n, keys |-> <<>>, takeover |-> no,
           epoch |-> e, reply |-> "none", lease |-> 0]
  BY <1>6, <1>7
<1>9. [d EXCEPT !.keys = ks]
        = [by |-> by, op |-> op, s |-> s, g |-> g, n |-> n, keys |-> ks, takeover |-> no,
           epoch |-> e, reply |-> "none", lease |-> 0]
  BY <1>8
<1>10. [a EXCEPT !.takeover = g]
         = [by |-> by, op |-> op, s |-> s, g |-> 0, n |-> 0, keys |-> <<>>, takeover |-> g,
            epoch |-> e, reply |-> "none", lease |-> 0]
  BY <1>3
<1>11. CallOk(w, a) BY <1>3, <1>4, CallIs
<1>12. CallOk(w, b) BY <1>4, <1>6, CallIs
<1>13. CallOk(w, [a EXCEPT !.takeover = g]) BY <1>4, <1>10, CallIs
<1>14. CallOk(w, [d EXCEPT !.keys = ks]) BY <1>9, CallIs
<1>15. [a EXCEPT !.g = g, !.n = n, !.keys = ks] = [d EXCEPT !.keys = ks]
  BY <1>5, <1>7, Zenon
<1> QED BY <1>2, <1>5, <1>11, <1>12, <1>13, <1>14, <1>15, Zenon

\* An answered or abandoned one keeps its keys.
LEMMA ReplyOk ==
  ASSUME NEW w, NEW c, CallOk(w, c), NEW a, NEW b
  PROVE  /\ CallOk(w, [c EXCEPT !.reply = a, !.lease = b])
         /\ CallOk(w, [c EXCEPT !.reply = a])
         /\ CallOk(w, [c EXCEPT !.by = a])
<1>1. PICK by, op, s, g, n, keys, takeover, epoch, reply, lease :
        /\ by = c.by /\ op = c.op /\ s = c.s /\ g = c.g /\ n = c.n /\ keys = c.keys
        /\ takeover = c.takeover /\ epoch = c.epoch /\ reply = c.reply /\ lease = c.lease
  OBVIOUS
<1>2. c = [by |-> by, op |-> op, s |-> s, g |-> g, n |-> n, keys |-> keys,
           takeover |-> takeover, epoch |-> epoch, reply |-> reply, lease |-> lease]
  BY <1>1, Zenon DEF CallOk, CallForm
<1>3. KeysFor(w, keys, s) BY <1>1, Zenon DEF CallOk
<1>4. PICK d : d = [c EXCEPT !.reply = a] OBVIOUS
<1>5. d = [by |-> by, op |-> op, s |-> s, g |-> g, n |-> n, keys |-> keys,
           takeover |-> takeover, epoch |-> epoch, reply |-> a, lease |-> lease]
  BY <1>2, <1>4
<1>6. [d EXCEPT !.lease = b]
        = [by |-> by, op |-> op, s |-> s, g |-> g, n |-> n, keys |-> keys,
           takeover |-> takeover, epoch |-> epoch, reply |-> a, lease |-> b]
  BY <1>5
<1>7. [c EXCEPT !.by = a]
        = [by |-> a, op |-> op, s |-> s, g |-> g, n |-> n, keys |-> keys,
           takeover |-> takeover, epoch |-> epoch, reply |-> reply, lease |-> lease]
  BY <1>2
<1>8. CallOk(w, d) BY <1>3, <1>5, CallIs
<1>9. CallOk(w, [d EXCEPT !.lease = b]) BY <1>3, <1>6, CallIs
<1>10. CallOk(w, [c EXCEPT !.by = a]) BY <1>3, <1>7, CallIs
<1>11. [c EXCEPT !.reply = a, !.lease = b] = [d EXCEPT !.lease = b] BY <1>4, Zenon
<1> QED BY <1>4, <1>8, <1>9, <1>10, <1>11, Zenon

\* Whatever a keeper answers.
LEMMA AnsweredOk ==
  ASSUME CallsInv, NEW c \in calls, NEW reply, NEW lease, Answered(c, reply, lease),
         want' = want
  PROVE  CallsInv'
<1>1. CallOk(want, [c EXCEPT !.reply = reply, !.lease = lease]) BY ReplyOk DEF CallsInv
<1> QED BY <1>1 DEF CallsInv, Answered

\* The loop sends what is queued for the session that is shown.
LEMMA SendOnOk ==
  ASSUME NEW q, NEW g, NEW n, NEW cs, SendOn(q, g, n, cs),
         KeysFor(want', q, active), \A c \in cs : CallOk(want', c),
         sel.stage \in {"releasing", "clearing"} => q = <<>>,
         active' = active, sel' = sel
  PROVE  QueueInv' /\ CallsInv'
<1>1. queue' \in {q, <<>>} BY DEF SendOn
<1>2. CallOk(want', [Ask("input", "input", active, inEpoch) EXCEPT !.g = g, !.n = n, !.keys = q])
  BY AskOk
<1>3. \A c \in calls' : CallOk(want', c) BY <1>2 DEF SendOn
<1>4. KeysFor(want', queue', active') BY <1>1, NoKeys
<1> QED BY <1>1, <1>3, <1>4 DEF QueueInv, CallsInv

\* And what is submitted behind it.
LEMMA SubmitOk ==
  ASSUME NEW ks, Submit(ks), QueueInv, KeysFor(want', queue, active),
         KeysFor(want', ks, active), \A c \in calls : CallOk(want', c),
         ~selecting, active' = active, sel' = sel
  PROVE  QueueInv' /\ CallsInv'
<1>1. KeysFor(want', queue \o ks, active) BY KeysJoin
<1>2. sel.stage = "idle" BY DEF selecting
<1>3. CASE active = Nowhere \/ generation = 0
  BY <1>3 DEF Submit, QueueInv, CallsInv, input
<1>4. CASE ~(active = Nowhere \/ generation = 0) /\ running
  BY <1>1, <1>2, <1>4 DEF Submit, QueueInv, CallsInv
<1>5. CASE ~(active = Nowhere \/ generation = 0) /\ ~running
  <2>1. SendOn(queue \o ks, generation, sequence, calls) BY <1>5 DEF Submit
  <2> QED BY <1>1, <1>2, <2>1, SendOnOk
<1> QED BY <1>3, <1>4, <1>5

-------------------------------------------------------------------------------
(* Keepers.                                                                *)

\* What is written behind what a PTY received.
LEMMA PtyGrows ==
  ASSUME NEW w, NEW s, NEW q, PtyOk(w, q, s), NEW r, PtyOk(w, r, s)
  PROVE  PtyOk(w, q \o r, s)
<1>1. PICK T : q \in Seq(T) BY DEF PtyOk
<1>2. PICK U : r \in Seq(U) BY DEF PtyOk
<1>3. q \in Seq(T \cup U) /\ r \in Seq(T \cup U) BY <1>1, <1>2
<1>4. /\ q \o r \in Seq(T \cup U)
      /\ Len(q \o r) = Len(q) + Len(r)
      /\ \A i \in 1..Len(q) + Len(r) : (q \o r)[i] = IF i <= Len(q) THEN q[i] ELSE r[i - Len(q)]
  BY <1>3, ConcatProperties
<1>5. Len(q) \in Nat /\ Len(r) \in Nat BY <1>3, LenProperties
<1>6. ASSUME NEW i \in 1..Len(q \o r), (q \o r)[i].by = Self
      PROVE  (q \o r)[i].key \in DOMAIN w /\ w[(q \o r)[i].key] = s
  <2>1. i \in 1..Len(q) \/ i - Len(q) \in 1..Len(r) BY <1>4, <1>5
  <2>2. CASE i \in 1..Len(q)
    <3>1. (q \o r)[i] = q[i] BY <2>2, <1>4, <1>5
    <3> QED BY <3>1, <2>2, <1>6 DEF PtyOk
  <2>3. CASE i - Len(q) \in 1..Len(r)
    <3>1. (q \o r)[i] = r[i - Len(q)] BY <2>3, <1>4, <1>5
    <3> QED BY <3>1, <2>3, <1>6 DEF PtyOk
  <2> QED BY <2>1, <2>2, <2>3
<1> QED BY <1>4, <1>6 DEF PtyOk

\* The keys of a request, as the PTY of its session receives them.
LEMMA ReceivedOk ==
  ASSUME NEW w, NEW c, CallOk(w, c)
  PROVE  PtyOk(w, Received(c), c.s)
<1>1. c.keys \in Seq(DOMAIN w) BY DEF CallOk, KeysFor
<1>2. Len(c.keys) \in Nat /\ DOMAIN c.keys = 1..Len(c.keys) BY <1>1, LenProperties
<1>3. PICK r : r = Received(c) OBVIOUS
<1>4. r = [i \in 1..Len(c.keys) |-> [by |-> Self, key |-> c.keys[i], gen |-> c.g]]
  BY <1>2, <1>3 DEF Received
<1>5. PICK T : T = { [by |-> Self, key |-> c.keys[i], gen |-> c.g] : i \in 1..Len(c.keys) } OBVIOUS
<1>6. r \in Seq(T) BY <1>2, <1>4, <1>5, IsASeq
<1>7. Len(r) = Len(c.keys) BY <1>2, <1>4
<1>8. ASSUME NEW i \in 1..Len(r) PROVE r[i].key \in DOMAIN w /\ w[r[i].key] = c.s
  <2>1. r[i].key = c.keys[i] BY <1>4, <1>7
  <2>2. c.keys[i] \in DOMAIN w BY <1>1, <1>7, ElementOfSeq
  <2> QED BY <1>7, <2>1, <2>2 DEF CallOk, KeysFor
<1> QED BY <1>3, <1>6, <1>8 DEF PtyOk

\* A keeper answers, and takes an input to the PTY of the session it was sent to.
LEMMA ServedOk ==
  ASSUME CallsInv, PtyInv, NEW c \in calls, KeeperServes(c)
  PROVE  CallsInv' /\ PtyInv'
<1>0. want' = want BY DEF KeeperServes
<1>1. \E reply, lease : Answered(c, reply, lease)
  BY DEF KeeperServes, ServeHello, ServeAcquire, ServeRelease, ServeCheck, ServeResize, ServeInput
<1>2. CallsInv' BY <1>0, <1>1, AnsweredOk
<1>3. pty' = pty \/ pty' = [pty EXCEPT ![c.s] = @ \o Received(c)]
  BY DEF KeeperServes, ServeHello, ServeAcquire, ServeRelease, ServeCheck, ServeResize, ServeInput,
         leases
<1>4. CASE pty' = pty
  <2>1. \A s \in Session : PtyOk(want', pty'[s], s) BY <1>0, <1>4, Zenon DEF PtyInv
  <2>2. pty' = [s \in Session |-> pty'[s]] BY <1>4, Zenon DEF PtyInv
  <2> QED BY <1>2, <2>1, <2>2 DEF PtyInv
<1>5. CASE pty' = [pty EXCEPT ![c.s] = @ \o Received(c)]
  <2>1. PtyOk(want, Received(c), c.s) BY ReceivedOk DEF CallsInv
  <2>2. ASSUME NEW s \in Session PROVE PtyOk(want, pty'[s], s)
    <3>1. CASE s = c.s
      <4>1. PtyOk(want, pty[s], s) /\ pty'[s] = pty[s] \o Received(c) BY <1>5, <3>1 DEF PtyInv
      <4> QED BY <4>1, <2>1, <3>1, PtyGrows
    <3>2. CASE s # c.s BY <1>5, <3>2 DEF PtyInv
    <3> QED BY <3>1, <3>2
  <2>3. pty' = [s \in Session |-> pty'[s]] BY <1>5 DEF PtyInv
  <2>4. \A s \in Session : PtyOk(want', pty'[s], s) BY <1>0, <2>2, Zenon
  <2> QED BY <1>2, <2>3, <2>4 DEF PtyInv
<1> QED BY <1>2, <1>3, <1>4, <1>5

\* Two are no three.
LEMMA PairOfViews == ASSUME NEW a, NEW b PROVE Cardinality({a, b}) <= 2
<1>1. IsFiniteSet({a}) /\ Cardinality({a}) = 1 BY FS_Singleton
<1>2. {a, b} = {a} \cup {b} OBVIOUS
<1>3. Cardinality({a} \cup {b}) = IF b \in {a} THEN Cardinality({a}) ELSE Cardinality({a}) + 1
  BY <1>1, FS_AddElement
<1> QED BY <1>1, <1>2, <1>3

LEMMA OtherIsNotSelf == Other # Self
<1>1. ASSUME Other = Self PROVE FALSE
  <2>1. {Self, Other, Nobody} = {Self, Nobody} BY <1>1
  <2>2. Cardinality({Self, Nobody}) <= 2 BY PairOfViews
  <2>3. Cardinality({Self, Other, Nobody}) = 3 BY DesktopViewAssumption
  <2>4. Cardinality({Self, Nobody}) = 3 BY <2>1, <2>3, Zenon
  <2> QED BY <2>2, <2>4
<1> QED BY <1>1

\* The other view's keys are not this one's.
LEMMA OtherOk ==
  ASSUME PtyInv, NEW s \in Session, OtherMoves(s)
  PROVE  PtyInv'
<1>0. want' = want BY DEF OtherMoves
<1>1. CASE pty' = pty
  <2>1. \A r \in Session : PtyOk(want', pty'[r], r) BY <1>0, <1>1, Zenon DEF PtyInv
  <2>2. pty' = [r \in Session |-> pty'[r]] BY <1>1, Zenon DEF PtyInv
  <2> QED BY <2>1, <2>2 DEF PtyInv
<1>2. CASE OtherTypes(s)
  <2>1. PICK e : e = [by |-> Other, key |-> 0, gen |-> others[s]] OBVIOUS
  <2>2. pty' = [pty EXCEPT ![s] = Append(@, e)] BY <1>2, <2>1 DEF OtherTypes
  <2>3. e.by # Self BY <2>1, OtherIsNotSelf
  <2>4. PtyOk(want, Append(pty[s], e), s)
    <3>1. PtyOk(want, pty[s], s) BY DEF PtyInv
    <3>2. PICK T : pty[s] \in Seq(T) BY <3>1 DEF PtyOk
    <3>3. pty[s] \in Seq(T \cup {e}) BY <3>2
    <3>4. PICK q : q = Append(pty[s], e) OBVIOUS
    <3>5. /\ q \in Seq(T \cup {e}) /\ Len(q) = Len(pty[s]) + 1
          /\ \A i \in 1..Len(pty[s]) : q[i] = pty[s][i]
          /\ q[Len(pty[s]) + 1] = e
      BY <3>3, <3>4, AppendProperties
    <3>6. Len(pty[s]) \in Nat BY <3>2, LenProperties
    <3>7. \A i \in 1..Len(q) : q[i].by = Self => i \in 1..Len(pty[s]) BY <2>3, <3>5, <3>6
    <3>8. PtyOk(want, q, s) BY <3>1, <3>5, <3>7 DEF PtyOk
    <3> QED BY <3>4, <3>8
  <2>5. \A r \in Session : PtyOk(want', pty'[r], r)
    <3> SUFFICES ASSUME NEW r \in Session PROVE PtyOk(want, pty'[r], r) BY <1>0, Zenon
    <3>1. CASE r = s BY <2>2, <2>4, <3>1 DEF PtyInv
    <3>2. CASE r # s BY <2>2, <3>2 DEF PtyInv
    <3> QED BY <3>1, <3>2
  <2>6. pty' = [r \in Session |-> pty'[r]] BY <2>2 DEF PtyInv
  <2> QED BY <2>5, <2>6 DEF PtyInv
<1> QED BY <1>1, <1>2 DEF OtherMoves, OtherTakes, OtherGivesBack

-------------------------------------------------------------------------------
(* The view.                                                               *)

\* Whatever changes nothing but requests.
LEMMA CallsOnly ==
  ASSUME KeyInv, UNCHANGED <<want, sel, active, queue, serial, gate, pty>>,
         \A c \in calls' : CallOk(want, c)
  PROVE  KeyInv'
<1>1. SelInv' BY DEF KeyInv, SelInv
<1>2. QueueInv' BY DEF KeyInv, QueueInv
<1>3. GateInv' BY DEF KeyInv, GateInv, selecting
<1>4. CallsInv' BY DEF CallsInv
<1>5. PtyInv'
  <2>1. \A s \in Session : PtyOk(want', pty'[s], s) BY Zenon DEF KeyInv, PtyInv
  <2>2. pty' = [s \in Session |-> pty'[s]] BY Zenon DEF KeyInv, PtyInv
  <2> QED BY <2>1, <2>2 DEF PtyInv
<1> QED BY <1>1, <1>2, <1>3, <1>4, <1>5 DEF KeyInv

\* And whatever the keepers' side does.
LEMMA KeepersOnly ==
  ASSUME KeyInv, UNCHANGED <<want, sel, active, queue, serial, gate>>, CallsInv', PtyInv'
  PROVE  KeyInv'
<1>1. SelInv' BY DEF KeyInv, SelInv
<1>2. QueueInv' BY DEF KeyInv, QueueInv
<1>3. GateInv' BY DEF KeyInv, GateInv, selecting
<1> QED BY <1>1, <1>2, <1>3 DEF KeyInv

\* Nothing happens to what the PTYs received.
LEMMA PtyStays ==
  ASSUME PtyInv, UNCHANGED <<want, pty>>
  PROVE  PtyInv'
<1>1. \A s \in Session : PtyOk(want', pty'[s], s) BY Zenon DEF PtyInv
<1>2. pty' = [s \in Session |-> pty'[s]] BY Zenon DEF PtyInv
<1> QED BY <1>1, <1>2 DEF PtyInv

\* Control is asked for.
LEMMA TakeOk ==
  ASSUME CallsInv, NEW c, NEW key, NEW force, NEW cs \in SUBSET calls, TakeControl(c, key, force, cs)
  PROVE  \A d \in calls' : CallOk(want, d)
<1>1. CallOk(want, [Ask(c, "acquire", active, serial) EXCEPT !.takeover = force])
  BY AskOk, NoKeys
<1> QED BY <1>1 DEF TakeControl, CallsInv

\* A tap asks who has control.
LEMMA TapOk ==
  ASSUME CallsInv, NEW key, StartTap(key)
  PROVE  \A d \in calls' : CallOk(want, d)
<1>1. CallOk(want, Ask("tap", "hello", active, serial)) BY AskOk, NoKeys
<1> QED BY <1>1 DEF StartTap, CallsInv

\* Control is given back, and whoever waited for an earlier selection is forgotten.
LEMMA GiveUpOk ==
  ASSUME CallsInv, NEW by, GiveUpControl(by)
  PROVE  queue' = <<>> /\ \A d \in calls' : CallOk(want, d)
<1>1. CallOk(want, [Ask(by, "release", active, serial) EXCEPT !.g = generation])
  BY AskOk, NoKeys
<1>2. \A c \in calls : CallOk(want, c) /\ CallOk(want, [c EXCEPT !.by = "gone"])
  BY ReplyOk DEF CallsInv
<1> QED BY <1>1, <1>2 DEF GiveUpControl, ResetInput

\* Selecting another session leaves nothing in the queue, and the gate's keys to the
\* selection before.
LEMMA SelectOk ==
  ASSUME KeyInv, NEW s \in Session, Select(s)
  PROVE  KeyInv'
<1>1. queue' = <<>> /\ \A d \in calls' : CallOk(want, d)
  BY GiveUpOk DEF Select, KeyInv
<1>2. UNCHANGED <<want, gate, pty>> BY DEF Select, leases
<1>3. SelInv' BY <1>2 DEF Select, KeyInv, SelInv, Place
<1>4. QueueInv'
  <2>1. KeysFor(want', queue', active') BY <1>1, NoKeys
  <2> QED BY <1>1, <2>1 DEF QueueInv
<1>5. GateInv'
  <2>1. serial' = serial + 1 /\ serial \in Nat /\ gate.epoch \in Nat /\ gate.epoch <= serial
    BY DEF Select, KeyInv, GateInv
  <2>2. serial' \in Nat /\ gate'.epoch <= serial' /\ gate'.epoch # serial' BY <1>2, <2>1
  <2> QED BY <1>2, <2>1, <2>2 DEF KeyInv, GateInv
<1>6. CallsInv' BY <1>1, <1>2 DEF CallsInv
<1>7. PtyInv' BY <1>2, PtyStays DEF KeyInv
<1> QED BY <1>3, <1>4, <1>5, <1>6, <1>7 DEF KeyInv

\* Nor does the end of a selection.
LEMMA SelectionGoesOn ==
  ASSUME KeyInv, (\E c \in calls : SelectReleased(c)) \/ SelectShows \/ SelectEnds
  PROVE  KeyInv'
<1>1. UNCHANGED <<want, gate, pty, serial>>
  BY DEF SelectReleased, SelectShows, SelectEnds, leases, shown
<1>2. calls' \subseteq calls BY DEF SelectReleased, SelectShows, SelectEnds
<1>3. SelInv'
  BY <1>1 DEF SelectReleased, SelectShows, SelectEnds, Clear, shown, KeyInv, SelInv, Place
<1>4. QueueInv'
  <2>1. CASE \E c \in calls : SelectReleased(c)
    <3>1. queue' = <<>> BY <2>1 DEF SelectReleased, ResetInput
    <3>2. KeysFor(want', queue', active') BY <3>1, NoKeys
    <3> QED BY <3>1, <3>2 DEF QueueInv
  <2>2. CASE SelectShows
    <3>1. queue' = <<>> BY <2>2 DEF SelectShows, input, KeyInv, QueueInv
    <3>2. KeysFor(want', queue', active') BY <3>1, NoKeys
    <3> QED BY <3>1, <3>2 DEF QueueInv
  <2>3. CASE SelectEnds
    BY <2>3, <1>1 DEF SelectEnds, input, shown, KeyInv, QueueInv, SelInv
  <2> QED BY <2>1, <2>2, <2>3
<1>5. GateInv'
  <2>1. sel'.item = sel.item /\ (sel.stage = "idle" => sel'.stage = "idle")
    BY DEF SelectReleased, SelectShows, SelectEnds, KeyInv, SelInv
  <2> QED BY <1>1, <2>1 DEF KeyInv, GateInv, selecting
<1>6. CallsInv' BY <1>1, <1>2 DEF KeyInv, CallsInv
<1>7. PtyInv' BY <1>1, PtyStays DEF KeyInv
<1> QED BY <1>3, <1>4, <1>5, <1>6, <1>7 DEF KeyInv

\* A key goes to the queue or to the gate, for the session that is chosen.
LEMMA KeyOk ==
  ASSUME KeyInv, Key
  PROVE  KeyInv'
<1>1. PICK k : k = Len(want) + 1 OBVIOUS
<1>2. PICK x : x = sel.item OBVIOUS
<1>3. want' = Append(want, x) /\ x \in Place
  BY <1>2 DEF Key, KeyInv, SelInv, selecting
<1>4. UNCHANGED <<active, sel, pty, serial>> BY DEF Key, leases, shown
<1>5. /\ want' \in Seq(Place)
      /\ \A ks, s : KeysFor(want, ks, s) => KeysFor(want', ks, s)
      /\ \A c : CallOk(want, c) => CallOk(want', c)
      /\ \A q, s : PtyOk(want, q, s) => PtyOk(want', q, s)
  BY <1>3, WantGrows DEF KeyInv, SelInv
<1>6. k \in DOMAIN want' /\ want'[k] = x
  <2>1. Len(want) \in Nat BY LenProperties DEF KeyInv, SelInv
  <2>2. Len(want') = Len(want) + 1 /\ want'[Len(want) + 1] = x
    BY <1>3, AppendProperties DEF KeyInv, SelInv
  <2>3. DOMAIN want' = 1..Len(want') BY <1>5, LenProperties
  <2> QED BY <1>1, <2>1, <2>2, <2>3
<1>7. KeysFor(want', <<k>>, x)
  <2>1. PICK t : t = <<k>> OBVIOUS
  <2>2. t \in Seq(DOMAIN want') /\ Len(t) = 1 /\ t[1] = k BY <1>6, <2>1
  <2> QED BY <1>6, <2>1, <2>2 DEF KeysFor
<1>8. SelInv' BY <1>4, <1>5 DEF KeyInv, SelInv
<1>9. PtyInv'
  <2>1. \A s \in Session : PtyOk(want', pty'[s], s) BY <1>4, <1>5 DEF KeyInv, PtyInv
  <2>2. pty' = [s \in Session |-> pty'[s]] BY <1>4, Zenon DEF KeyInv, PtyInv
  <2> QED BY <2>1, <2>2 DEF PtyInv
<1>10. KeysFor(want', queue, active) /\ \A c \in calls : CallOk(want', c)
  BY <1>5 DEF KeyInv, QueueInv, CallsInv
<1>11. CASE Submit(<<k>>) /\ gate' = NoGate /\ ~selecting
  <2>1. active = x BY <1>2, <1>11 DEF KeyInv, SelInv, selecting
  <2>2. QueueInv' /\ CallsInv' BY <1>4, <1>7, <1>10, <1>11, <2>1, SubmitOk DEF KeyInv
  <2>3. GateInv' BY <1>4, <1>11 DEF NoGate, KeyInv, GateInv
  <2> QED BY <1>8, <1>9, <2>2, <2>3 DEF KeyInv
<1>12. CASE /\ UNCHANGED <<calls, generation, sequence, input>>
            /\ \/ gate.stage # "none" /\ gate.epoch = serial
                    /\ gate' = [gate EXCEPT !.keys = Append(@, k)]
               \/ gate' = [stage |-> "waiting", epoch |-> serial, keys |-> <<k>>]
  <2>1. QueueInv' BY <1>4, <1>10, <1>12 DEF input, KeyInv, QueueInv
  <2>2. CallsInv' BY <1>10, <1>12 DEF CallsInv
  <2>3. GateInv'
    <3>1. CASE gate' = [stage |-> "waiting", epoch |-> serial, keys |-> <<k>>]
      BY <3>1, <1>2, <1>4, <1>7 DEF KeyInv, GateInv
    <3>2. CASE /\ gate.stage # "none" /\ gate.epoch = serial
               /\ gate' = [gate EXCEPT !.keys = Append(@, k)]
      <4>1. KeysFor(want', gate.keys, x) BY <1>2, <1>5, <3>2 DEF KeyInv, GateInv
      <4>2. KeysFor(want', gate.keys \o <<k>>, x) BY <4>1, <1>7, KeysJoin
      <4>3. Append(gate.keys, k) = gate.keys \o <<k>>
        <5>1. gate.keys \in Seq(DOMAIN want') BY <4>1 DEF KeysFor
        <5> QED BY <1>6, <5>1, AppendIsConcat
      <4>4. gate' = [stage |-> gate.stage, epoch |-> gate.epoch, keys |-> gate.keys \o <<k>>]
        BY <3>2, <4>3 DEF KeyInv, GateInv
      <4> QED BY <1>2, <1>4, <4>2, <4>4 DEF KeyInv, GateInv, selecting
    <3> QED BY <1>12, <3>1, <3>2
  <2> QED BY <1>8, <1>9, <2>1, <2>2, <2>3 DEF KeyInv
<1> QED BY <1>1, <1>11, <1>12 DEF Key

\* The gate asks for control when no selection is going on.
LEMMA GateAsksOk ==
  ASSUME KeyInv, GateAsks
  PROVE  KeyInv'
<1>1. UNCHANGED <<want, sel, active, queue, serial, pty>>
  BY DEF GateAsks, leases, shown, input
<1>2. \A d \in calls' : CallOk(want, d) BY TapOk DEF GateAsks, KeyInv, CallsInv
<1>3. \E stage \in {"asked", "tapping"} : gate' = [gate EXCEPT !.stage = stage]
  BY DEF GateAsks
<1>4. GateInv'
  <2>1. PICK stage \in {"asked", "tapping"} :
          gate' = [stage |-> stage, epoch |-> gate.epoch, keys |-> gate.keys]
    BY <1>3 DEF KeyInv, GateInv
  <2>2. gate.stage = "waiting" /\ gate.epoch = serial /\ ~selecting BY DEF GateAsks
  <2> QED BY <1>1, <2>1, <2>2 DEF KeyInv, GateInv, selecting
<1>5. SelInv' BY <1>1 DEF KeyInv, SelInv
<1>6. QueueInv' BY <1>1 DEF KeyInv, QueueInv
<1>7. CallsInv' BY <1>1, <1>2 DEF CallsInv
<1>8. PtyInv' BY <1>1, PtyStays DEF KeyInv
<1> QED BY <1>4, <1>5, <1>6, <1>7, <1>8 DEF KeyInv

\* It opens for the session the keys were typed for, or drops them.
LEMMA GateOpensOk ==
  ASSUME KeyInv, GateOpens
  PROVE  KeyInv'
<1>1. UNCHANGED <<want, sel, active, serial, pty>> /\ gate' = NoGate
  BY DEF GateOpens, leases, shown
<1>2. GateInv' BY <1>1 DEF NoGate, KeyInv, GateInv
<1>3. SelInv' BY <1>1 DEF KeyInv, SelInv
<1>4. PtyInv' BY <1>1, PtyStays DEF KeyInv
<1>5. CASE gate.epoch = serial /\ generation # 0
  <2>1. gate.stage \in {"asked", "tapping"} /\ Submit(gate.keys) BY <1>5 DEF GateOpens
  <2>2. ~selecting /\ KeysFor(want, gate.keys, sel.item) BY <1>5, <2>1 DEF KeyInv, GateInv
  <2>3. active = sel.item BY <2>2 DEF KeyInv, SelInv, selecting
  <2>4. KeysFor(want', queue, active) /\ KeysFor(want', gate.keys, active)
    BY <1>1, <2>2, <2>3 DEF KeyInv, QueueInv
  <2>5. \A c \in calls : CallOk(want', c) BY <1>1 DEF KeyInv, CallsInv
  <2>6. QueueInv' /\ CallsInv' BY <1>1, <2>1, <2>2, <2>4, <2>5, SubmitOk DEF KeyInv
  <2> QED BY <1>2, <1>3, <1>4, <2>6 DEF KeyInv
<1>6. CASE ~(gate.epoch = serial /\ generation # 0)
  <2>1. UNCHANGED <<calls, input>> BY <1>6 DEF GateOpens
  <2>2. QueueInv' BY <1>1, <2>1 DEF input, KeyInv, QueueInv
  <2>3. CallsInv' BY <1>1, <2>1 DEF KeyInv, CallsInv
  <2> QED BY <1>2, <1>3, <1>4, <2>2, <2>3 DEF KeyInv
<1> QED BY <1>5, <1>6

\* The loop goes on after an answer, or drops what it has.
LEMMA InputOk ==
  ASSUME KeyInv, NEW c \in calls, InputReturns(c)
  PROVE  KeyInv'
<1>1. UNCHANGED <<want, sel, active, serial, gate, pty>> BY DEF InputReturns, leases, shown
<1>2. \A d \in calls \ {c} : CallOk(want', d) BY <1>1 DEF KeyInv, CallsInv
<1>3. KeysFor(want', queue, active) BY <1>1 DEF KeyInv, QueueInv
<1>4. KeysFor(want', SubSeq(queue, Len(c.keys) + 1, Len(queue)), active)
  <2>1. c.keys \in Seq(DOMAIN want) BY DEF KeyInv, CallsInv, CallOk, KeysFor
  <2>2. Len(c.keys) \in Nat BY <2>1, LenProperties
  <2> QED BY <1>3, <2>2, KeysRest
<1>5. sel.stage \in {"releasing", "clearing"} =>
        queue = <<>> /\ SubSeq(queue, Len(c.keys) + 1, Len(queue)) = <<>>
  <2> SUFFICES ASSUME sel.stage \in {"releasing", "clearing"}
               PROVE  queue = <<>> /\ SubSeq(queue, Len(c.keys) + 1, Len(queue)) = <<>>
    OBVIOUS
  <2>1. queue = <<>> BY DEF KeyInv, QueueInv
  <2>2. c.keys \in Seq(DOMAIN want) BY DEF KeyInv, CallsInv, CallOk, KeysFor
  <2>3. Len(c.keys) \in Nat /\ Len(queue) = 0 BY <2>1, <2>2, LenProperties
  <2>4. PICK m \in Int : m = Len(c.keys) + 1 /\ m > 0 BY <2>3
  <2>5. SubSeq(queue, m, 0) = <<>> BY <2>4, SubSeqEmpty
  <2> QED BY <2>1, <2>3, <2>4, <2>5
<1>6. QueueInv' /\ CallsInv'
  <2>1. CASE /\ queue' = <<>> /\ calls' = calls \ {c}
    <3>1. KeysFor(want', queue', active') BY <2>1, NoKeys
    <3> QED BY <1>2, <2>1, <3>1 DEF QueueInv, CallsInv
  <2>2. CASE \E q \in {queue, SubSeq(queue, Len(c.keys) + 1, Len(queue))} :
               \E n : SendOn(q, generation, n, calls \ {c})
    BY <1>1, <1>2, <1>3, <1>4, <1>5, <2>2, SendOnOk
  <2> QED BY <2>1, <2>2 DEF InputReturns
<1>7. SelInv' BY <1>1 DEF KeyInv, SelInv
<1>8. GateInv' BY <1>1 DEF KeyInv, GateInv, selecting
<1>9. PtyInv' BY <1>1, PtyStays DEF KeyInv
<1> QED BY <1>6, <1>7, <1>8, <1>9 DEF KeyInv

\* A thread that takes control asks for nothing that has keys.
LEMMA ControlOk ==
  ASSUME KeyInv, NEW c \in calls,
         TapGreeted(c) \/ Acquired(c) \/ AcquireFails(c) \/ ControlSettles(c)
  PROVE  KeyInv'
<1>1. UNCHANGED <<want, sel, active, queue, serial, gate, pty>>
  BY DEF TapGreeted, Acquired, AcquireFails, ControlSettles, leases, shown, input
<1>2. CallsInv BY DEF KeyInv
<1>3. CASE calls' \subseteq calls BY <1>1, <1>2, <1>3, CallsOnly DEF CallsInv
<1>4. CASE TapGreeted(c)
  <2>1. CASE calls' = calls \ {c} BY <1>3, <2>1
  <2>2. CASE \E key, force : TakeControl("tap", key, force, calls \ {c})
    <3>1. \A d \in calls' : CallOk(want, d) BY <1>2, <2>2, TakeOk
    <3> QED BY <1>1, <3>1, CallsOnly
  <2> QED BY <1>4, <2>1, <2>2 DEF TapGreeted
<1>5. CASE Acquired(c)
  <2>1. CallOk(want, [Ask(c.by, "release", c.s, c.epoch) EXCEPT !.g = c.lease])
    BY AskOk, NoKeys
  <2>2. \A d \in calls' : CallOk(want, d) BY <1>2, <1>5, <2>1 DEF Acquired, CallsInv
  <2> QED BY <1>1, <2>2, CallsOnly
<1>6. CASE AcquireFails(c)
  <2>1. PICK yes : yes = TRUE OBVIOUS
  <2>2. CallOk(want, [Ask(c.by, "acquire", c.s, c.epoch) EXCEPT !.takeover = yes])
    BY AskOk, NoKeys
  <2>3. CallOk(want, [Ask(c.by, "acquire", c.s, c.epoch) EXCEPT !.takeover = TRUE])
    BY <2>1, <2>2, Zenon
  <2>4. \/ calls' = calls \ {c}
        \/ calls' = (calls \ {c})
             \union {[Ask(c.by, "acquire", c.s, c.epoch) EXCEPT !.takeover = TRUE]}
    BY <1>6, Zenon DEF AcquireFails
  <2>5. \A d \in calls' : CallOk(want, d) BY <1>2, <2>3, <2>4, Zenon DEF CallsInv
  <2> QED BY <1>1, <2>5, CallsOnly
<1>7. CASE ControlSettles(c) BY <1>3, <1>7 DEF ControlSettles
<1> QED BY <1>4, <1>5, <1>6, <1>7

\* At first nothing has been typed.
LEMMA KeyInit == Init => KeyInv
<1> SUFFICES ASSUME Init PROVE KeyInv OBVIOUS
<1>1. want = <<>> /\ queue = <<>> /\ calls = {} /\ serial = 0 /\ active = Nowhere
  BY DEF Init
<1>2. sel = [item |-> Nowhere, stage |-> "idle"] /\ gate = NoGate BY DEF Init
<1>3. SelInv BY <1>1, <1>2 DEF SelInv, Place
<1>4. QueueInv BY <1>1, <1>2, NoKeys DEF QueueInv
<1>5. GateInv BY <1>1, <1>2 DEF GateInv, NoGate
<1>6. CallsInv BY <1>1 DEF CallsInv
<1>7. PtyInv
  <2>1. pty = [s \in Session |-> <<>>] BY DEF Init
  <2>2. \A s : PtyOk(want, <<>>, s)
    <3>1. <<>> \in Seq({}) /\ Len(<<>>) = 0 BY EmptySeq
    <3> QED BY <3>1 DEF PtyOk
  <2> QED BY <2>1, <2>2 DEF PtyInv
<1> QED BY <1>3, <1>4, <1>5, <1>6, <1>7 DEF KeyInv

\* Every step keeps keys with the session they were typed for.
LEMMA KeyStep ==
  ASSUME KeyInv, [Next]_vars
  PROVE  KeyInv'
<1>0. CallsInv /\ PtyInv BY DEF KeyInv
<1>1. CASE UNCHANGED vars
  <2>1. UNCHANGED <<want, sel, active, queue, serial, gate, pty, calls>>
    BY <1>1 DEF vars, leases, shown, input
  <2> QED BY <1>0, <2>1, CallsOnly DEF CallsInv
<1>2. ASSUME NEW c \in calls, KeeperServes(c) PROVE KeyInv'
  <2>1. UNCHANGED <<want, sel, active, queue, serial, gate>>
    BY <1>2 DEF KeeperServes, shown, input
  <2> QED BY <1>0, <1>2, <2>1, ServedOk, KeepersOnly
<1>3. ASSUME NEW c \in calls, KeeperIsBlocked(c) PROVE KeyInv'
  <2>1. UNCHANGED <<want, sel, active, queue, serial, gate, pty>>
    BY <1>3 DEF KeeperIsBlocked, leases, shown, input
  <2>2. Answered(c, "blocked", 0) BY <1>3 DEF KeeperIsBlocked
  <2>3. CallsInv' BY <1>0, <2>1, <2>2, AnsweredOk
  <2> QED BY <1>0, <2>1, <2>3, PtyStays, KeepersOnly
<1>4. ASSUME NEW c \in calls, TimesOut(c) PROVE KeyInv'
  <2>1. UNCHANGED <<want, sel, active, queue, serial, gate, pty>>
    BY <1>4 DEF TimesOut, leases, shown, input
  <2>2. CallOk(want, [c EXCEPT !.reply = "error"]) /\ CallOk(want, [c EXCEPT !.by = "gone"])
    BY <1>0, ReplyOk DEF CallsInv
  <2>3. \A d \in calls' : CallOk(want, d) BY <1>0, <1>4, <2>2 DEF TimesOut, CallsInv
  <2> QED BY <2>1, <2>3, CallsOnly
<1>5. ASSUME NEW s \in Session, OtherMoves(s) PROVE KeyInv'
  <2>1. UNCHANGED <<want, sel, active, queue, serial, gate, calls>>
    BY <1>5 DEF OtherMoves, shown, input
  <2>2. CallsInv' BY <1>0, <2>1 DEF CallsInv
  <2> QED BY <1>0, <1>5, <2>1, <2>2, OtherOk, KeepersOnly
<1>6. ASSUME NEW s \in Session, HolderGoesQuiet(s) PROVE KeyInv'
  <2>1. UNCHANGED <<want, sel, active, queue, serial, gate, pty, calls>>
    BY <1>6 DEF HolderGoesQuiet, shown, input
  <2> QED BY <1>0, <2>1, CallsOnly DEF CallsInv
<1>7. CASE Detach
  <2>1. queue' = <<>> /\ \A d \in calls' : CallOk(want, d)
    BY <1>0, <1>7, GiveUpOk DEF Detach
  <2>2. UNCHANGED <<want, sel, active, serial, gate, pty>> BY <1>7 DEF Detach, leases, shown
  <2>3. SelInv' BY <2>2 DEF KeyInv, SelInv
  <2>4. QueueInv'
    <3>1. KeysFor(want', queue', active') BY <2>1, NoKeys
    <3> QED BY <2>1, <3>1 DEF QueueInv
  <2>5. GateInv' BY <2>2 DEF KeyInv, GateInv, selecting
  <2>6. CallsInv' BY <2>1, <2>2 DEF CallsInv
  <2> QED BY <1>0, <2>2, <2>3, <2>4, <2>5, <2>6, PtyStays DEF KeyInv
<1>8. CASE Tap \/ Push
  <2>1. UNCHANGED <<want, sel, active, queue, serial, gate, pty>>
    BY <1>8 DEF Tap, Push, leases, shown, input
  <2>2. \A d \in calls' : CallOk(want, d) BY <1>0, <1>8, TapOk, TakeOk DEF Tap, Push
  <2> QED BY <2>1, <2>2, CallsOnly
<1>9. CASE Return
  BY <1>9, InputOk, SelectionGoesOn, ControlOk DEF Return
<1>10. ASSUME NEW c \in Control, Resize(c) PROVE KeyInv'
  <2>1. UNCHANGED <<want, sel, active, queue, serial, gate, pty>>
    BY <1>10 DEF Resize, leases, input
  <2>2. CallOk(want, [Ask(c, "resize", ctl[c].s, serial) EXCEPT !.g = ctl[c].g])
    BY AskOk, NoKeys
  <2>3. \A d \in calls' : CallOk(want, d) BY <1>0, <1>10, <2>2 DEF Resize, CallsInv
  <2> QED BY <2>1, <2>3, CallsOnly
<1>11. CASE Poll
  <2>1. UNCHANGED <<want, sel, active, queue, serial, gate, pty>>
    BY <1>11 DEF Poll, PollAsks, PollReturns, leases, shown, input
  <2>2. CallOk(want, [Ask("poll", "check", active, serial) EXCEPT !.g = generation])
    BY AskOk, NoKeys
  <2>3. \A d \in calls' : CallOk(want, d)
    BY <1>0, <1>11, <2>2 DEF Poll, PollAsks, PollReturns, CallsInv
  <2> QED BY <2>1, <2>3, CallsOnly
<1>12. CASE Thread
  BY <1>9, <1>10, <1>12, SelectionGoesOn, GateAsksOk, GateOpensOk DEF Thread
<1> QED
  BY <1>1, <1>2, <1>3, <1>4, <1>5, <1>6, <1>7, <1>8, <1>11, <1>12, SelectOk, KeyOk
    DEF Next, Serve

-------------------------------------------------------------------------------
\* A key reaches only the session that was chosen when it was typed (select, the
\* gate, the input loop and the late answers of main.js and input-gate.js).
THEOREM KeysReachTheirSession == Spec => []RightSession
<1>1. KeyInv => RightSession
  <2> SUFFICES ASSUME KeyInv, NEW s \in Session, NEW e \in Range(pty[s]), e.by = Self
               PROVE  want[e.key] = s
    BY DEF RightSession
  <2>1. PtyOk(want, pty[s], s) BY DEF KeyInv, PtyInv
  <2>2. PICK T : pty[s] \in Seq(T) BY <2>1 DEF PtyOk
  <2>3. DOMAIN pty[s] = 1..Len(pty[s]) BY <2>2, LenProperties
  <2>4. PICK i \in 1..Len(pty[s]) : e = pty[s][i] BY <2>3 DEF Range
  <2> QED BY <2>1, <2>4 DEF PtyOk
<1> QED BY <1>1, KeyInit, KeyStep, PTL DEF Spec
-------------------------------------------------------------------------------
(* The order of keys.                                                      *)
(*                                                                         *)
(* An input is sent under a lease that the view took for the session it    *)
(* shows, and nothing else was granted under that number; so a late input  *)
(* is either of a lease that is past, and fenced, or the only one of its   *)
(* lease that a keeper has still to answer.  The keys that were sent, those*)
(* in the queue and those at the gate follow one another.                  *)

Gen(s) == keeper[s].gen
Inputs == { c \in calls : c.op = "input" }
Grants == { c \in calls : c.op = "acquire" /\ c.reply = "ok" }
Pending == { c \in Inputs : c.reply = "none" }
OnWire == { c \in calls : c.by = "input" }

Kind(c) ==
  /\ c.by = "input" => c.op = "input"
  /\ c.by = "select" => c.op = "release"
  /\ c.op \in {"input", "acquire", "release"} => c.s \in Session
  /\ c.op = "input" => c.by \in {"input", "gone"} /\ c.g \in Nat /\ c.epoch \in Nat
  /\ c.op = "acquire" /\ c.reply = "ok" => c.lease \in Nat

KeeperForm ==
  /\ keeper = [s \in Session |-> [gen |-> keeper[s].gen, held |-> keeper[s].held,
                                  last |-> keeper[s].last, busy |-> keeper[s].busy]]
  /\ \A s \in Session : Gen(s) \in Nat
FormInv ==
  /\ KeeperForm
  /\ generation \in Nat /\ inEpoch \in Nat
  /\ sel.stage = "clearing" => active = Nowhere
  /\ \A c \in calls : Kind(c)

\* What is granted and not taken yet is nobody's: no input was sent under it, and
\* the view does not hold it.
LeaseInv ==
  /\ \A c \in Inputs : c.g <= Gen(c.s)
  /\ \A c \in Grants : c.lease <= Gen(c.s)
  /\ \A c \in Grants, d \in Inputs : c.s = d.s => c.lease # d.g
  /\ \A c, d \in Grants : c.s = d.s /\ c.lease = d.lease => c = d
HeldInv ==
  generation # 0 =>
    /\ Here \in Session /\ generation <= Gen(Here)
    /\ \A c \in Grants : c.s = Here => c.lease # generation

\* At most one input of a lease is unanswered.
LoneInv == \A c, d \in Pending : c.s = d.s /\ c.g = d.g => c = d

\* The loop awaits one request.  An unanswered input of the lease that is held is
\* that request, or its late copy.
WireInv ==
  /\ running <=> OnWire # {}
  /\ \A c, d \in OnWire : c = d
  /\ \A c \in OnWire : c.epoch <= inEpoch
LateInv ==
  generation # 0 =>
    \A d \in Pending : d.s = Here /\ d.g = generation =>
      \E c \in OnWire : c.epoch = inEpoch /\ (c = d \/ c.reply \notin {"none", "ok"})

Rising(ks) == \A i, j \in 1..Len(ks) : i < j => ks[i] < ks[j]

\* Key k comes after the keys that the PTYs p received and those of the requests cs.
Ahead(p, cs, k) ==
  /\ \A s \in Session : \A i \in 1..Len(p[s]) : p[s][i].by = Self => p[s][i].key < k
  /\ \A c \in cs : \A i \in 1..Len(c.keys) : c.keys[i] < k
Fresh(p, cs, ks) == Rising(ks) /\ \A j \in 1..Len(ks) : Ahead(p, cs, ks[j])
Before(ks, ls) == \A i \in 1..Len(ks) : \A j \in 1..Len(ls) : ks[i] < ls[j]

PtyOrder ==
  \A s \in Session : \A i, j \in 1..Len(pty[s]) :
    i < j /\ pty[s][i].by = Self /\ pty[s][j].by = Self => pty[s][i].key < pty[s][j].key
\* What is pending under the lease of its keeper comes after what its PTY received.
PendingOrder ==
  \A c \in Pending :
    /\ Rising(c.keys)
    /\ c.g = Gen(c.s) =>
         \A i \in 1..Len(pty[c.s]) : pty[c.s][i].by = Self =>
           \A j \in 1..Len(c.keys) : pty[c.s][i].key < c.keys[j]
\* The queue begins with the keys that are on their way, if they are of its epoch.
QueueOrder ==
  /\ Rising(queue)
  /\ ~running => queue = <<>>
  /\ \A j \in 1..Len(queue) :
       (\A c \in OnWire : c.epoch = inEpoch => j > Len(c.keys)) => Ahead(pty, Inputs, queue[j])
GateOrder ==
  gate.stage # "none" /\ gate.epoch = serial => Fresh(pty, Inputs, gate.keys) /\ Before(queue, gate.keys)

Fenced ==
  /\ LeaseInv /\ HeldInv /\ LoneInv /\ WireInv /\ LateInv
  /\ PtyOrder /\ PendingOrder /\ QueueOrder /\ GateOrder

OrderInv == KeyInv /\ FormInv /\ (mistaken \/ Fenced)

-------------------------------------------------------------------------------
(* Requests, again.                                                        *)

Like(d, c) ==
  /\ d.op = c.op /\ d.s = c.s /\ d.g = c.g /\ d.n = c.n /\ d.keys = c.keys
  /\ d.takeover = c.takeover /\ d.epoch = c.epoch

AnswerTo(c, reply, lease) == [c EXCEPT !.reply = reply, !.lease = lease]
Failed(c) == [c EXCEPT !.reply = "error"]
Gone(c) == [c EXCEPT !.by = "gone"]

\* What a request has in common with its answer and its late copy.
LEMMA LikeIt ==
  ASSUME NEW c, CallForm(c), NEW a, NEW b, NEW d
  PROVE  /\ d = AnswerTo(c, a, b) => Like(d, c) /\ d.by = c.by /\ d.reply = a /\ d.lease = b
         /\ d = Failed(c) => Like(d, c) /\ d.by = c.by /\ d.reply = "error"
         /\ d = Gone(c) => Like(d, c) /\ d.by = "gone" /\ d.reply = c.reply
<1>1. PICK by, op, s, g, n, keys, takeover, epoch, reply, lease :
        /\ by = c.by /\ op = c.op /\ s = c.s /\ g = c.g /\ n = c.n /\ keys = c.keys
        /\ takeover = c.takeover /\ epoch = c.epoch /\ reply = c.reply /\ lease = c.lease
  OBVIOUS
<1>2. c = [by |-> by, op |-> op, s |-> s, g |-> g, n |-> n, keys |-> keys,
           takeover |-> takeover, epoch |-> epoch, reply |-> reply, lease |-> lease]
  BY <1>1, Zenon DEF CallForm
<1>3. PICK e : e = [c EXCEPT !.reply = a] OBVIOUS
<1>4. e = [by |-> by, op |-> op, s |-> s, g |-> g, n |-> n, keys |-> keys,
           takeover |-> takeover, epoch |-> epoch, reply |-> a, lease |-> lease]
  BY <1>2, <1>3
<1>5. PICK f : f = [e EXCEPT !.lease = b] OBVIOUS
<1>6. f = [by |-> by, op |-> op, s |-> s, g |-> g, n |-> n, keys |-> keys,
           takeover |-> takeover, epoch |-> epoch, reply |-> a, lease |-> b]
  BY <1>4, <1>5
<1>7. PICK k : k = [c EXCEPT !.by = "gone"] OBVIOUS
<1>8. k = [by |-> "gone", op |-> op, s |-> s, g |-> g, n |-> n, keys |-> keys,
           takeover |-> takeover, epoch |-> epoch, reply |-> reply, lease |-> lease]
  BY <1>2, <1>7
<1>9. PICK m : m = [c EXCEPT !.reply = "error"] OBVIOUS
<1>10. m = [by |-> by, op |-> op, s |-> s, g |-> g, n |-> n, keys |-> keys,
            takeover |-> takeover, epoch |-> epoch, reply |-> "error", lease |-> lease]
  BY <1>2, <1>9
<1>11. Like(f, c) /\ f.by = c.by /\ f.reply = a /\ f.lease = b BY <1>1, <1>6 DEF Like
<1>12. Like(m, c) /\ m.by = c.by /\ m.reply = "error" BY <1>1, <1>10 DEF Like
<1>13. Like(k, c) /\ k.by = "gone" /\ k.reply = c.reply BY <1>1, <1>8 DEF Like
<1>14. f = AnswerTo(c, a, b) BY <1>3, <1>5, Zenon DEF AnswerTo
<1>15. m = Failed(c) /\ k = Gone(c) BY <1>7, <1>9, Zenon DEF Failed, Gone
<1> QED BY <1>11, <1>12, <1>13, <1>14, <1>15

\* A new request, also one about a lease, or one that may take over.
AskAbout(by, op, s, e, g) == [Ask(by, op, s, e) EXCEPT !.g = g]
AskTaking(by, op, s, e, over) == [Ask(by, op, s, e) EXCEPT !.takeover = over]

LEMMA AskIs ==
  ASSUME NEW by, NEW op, NEW s, NEW e, NEW g, NEW d,
         d \in {Ask(by, op, s, e), AskAbout(by, op, s, e, g), AskTaking(by, op, s, e, g)}
  PROVE  d.by = by /\ d.op = op /\ d.s = s /\ d.epoch = e /\ d.reply = "none"
<1>1. PICK no : no = FALSE OBVIOUS
<1>2. PICK a : a = Ask(by, op, s, e) OBVIOUS
<1>3. a = [by |-> by, op |-> op, s |-> s, g |-> 0, n |-> 0, keys |-> <<>>, takeover |-> no,
           epoch |-> e, reply |-> "none", lease |-> 0]
  BY <1>1, <1>2, Zenon DEF Ask
<1>4. PICK b : b = [a EXCEPT !.g = g] OBVIOUS
<1>5. b = [by |-> by, op |-> op, s |-> s, g |-> g, n |-> 0, keys |-> <<>>, takeover |-> no,
           epoch |-> e, reply |-> "none", lease |-> 0]
  BY <1>3, <1>4
<1>6. PICK t : t = [a EXCEPT !.takeover = g] OBVIOUS
<1>7. t = [by |-> by, op |-> op, s |-> s, g |-> 0, n |-> 0, keys |-> <<>>, takeover |-> g,
           epoch |-> e, reply |-> "none", lease |-> 0]
  BY <1>3, <1>6
<1>8. a.by = by /\ a.op = op /\ a.s = s /\ a.epoch = e /\ a.reply = "none" BY <1>3
<1>9. b.by = by /\ b.op = op /\ b.s = s /\ b.epoch = e /\ b.reply = "none" BY <1>5
<1>10. t.by = by /\ t.op = op /\ t.s = s /\ t.epoch = e /\ t.reply = "none" BY <1>7
<1>11. b = AskAbout(by, op, s, e, g) BY <1>2, <1>4, Zenon DEF AskAbout
<1>12. t = AskTaking(by, op, s, e, g) BY <1>2, <1>6, Zenon DEF AskTaking
<1> QED BY <1>2, <1>8, <1>9, <1>10, <1>11, <1>12

\* A new input.
NewInput(s, e, g, n, ks) ==
  [Ask("input", "input", s, e) EXCEPT !.g = g, !.n = n, !.keys = ks]

LEMMA InputIs ==
  ASSUME NEW s, NEW e, NEW g, NEW n, NEW ks, NEW c, c = NewInput(s, e, g, n, ks)
  PROVE  /\ c.by = "input" /\ c.op = "input" /\ c.s = s /\ c.epoch = e
         /\ c.reply = "none" /\ c.g = g /\ c.keys = ks
<1>1. PICK no : no = FALSE OBVIOUS
<1>2. PICK a : a = Ask("input", "input", s, e) OBVIOUS
<1>3. a = [by |-> "input", op |-> "input", s |-> s, g |-> 0, n |-> 0, keys |-> <<>>,
           takeover |-> no, epoch |-> e, reply |-> "none", lease |-> 0]
  BY <1>1, <1>2, Zenon DEF Ask
<1>4. PICK b : b = [a EXCEPT !.g = g] OBVIOUS
<1>5. b = [by |-> "input", op |-> "input", s |-> s, g |-> g, n |-> 0, keys |-> <<>>,
           takeover |-> no, epoch |-> e, reply |-> "none", lease |-> 0]
  BY <1>3, <1>4
<1>6. PICK d : d = [b EXCEPT !.n = n] OBVIOUS
<1>7. d = [by |-> "input", op |-> "input", s |-> s, g |-> g, n |-> n, keys |-> <<>>,
           takeover |-> no, epoch |-> e, reply |-> "none", lease |-> 0]
  BY <1>5, <1>6
<1>8. PICK f : f = [d EXCEPT !.keys = ks] OBVIOUS
<1>9. f = [by |-> "input", op |-> "input", s |-> s, g |-> g, n |-> n, keys |-> ks,
           takeover |-> no, epoch |-> e, reply |-> "none", lease |-> 0]
  BY <1>7, <1>8
<1>10. f = [a EXCEPT !.g = g, !.n = n, !.keys = ks] BY <1>4, <1>6, <1>8, Zenon
<1>11. c = f BY <1>2, <1>10, Zenon DEF NewInput
<1> QED BY <1>9, <1>11

-------------------------------------------------------------------------------
(* Steps that send nothing.                                                *)

\* No input is asked for, answered or forgotten, and nothing is granted.
QuietCalls ==
  /\ \A c \in calls' : \/ c \in calls
                       \/ Kind(c) /\ c.op # "input" /\ ~(c.op = "acquire" /\ c.reply = "ok")
  /\ \A c \in calls : c \in calls' \/ c.op # "input"

LEMMA CallsQuiet ==
  ASSUME FormInv, QuietCalls
  PROVE  /\ Inputs' = Inputs /\ Pending' = Pending /\ OnWire' = OnWire
         /\ Grants' \subseteq Grants
         /\ \A c \in calls' : Kind(c)
<1>1. \A c \in calls : Kind(c) BY DEF FormInv
<1>2. \A c \in calls' : Kind(c) BY <1>1 DEF QuietCalls
<1>3. Inputs' = Inputs BY DEF QuietCalls, Inputs
<1>4. Pending' = Pending BY <1>3 DEF Pending
<1>5. OnWire' = OnWire
  <2>1. \A c : c \in OnWire <=> c \in Inputs /\ c.by = "input" BY <1>1 DEF OnWire, Inputs, Kind
  <2>2. \A c : c \in OnWire' <=> c \in Inputs' /\ c.by = "input"
    BY <1>2 DEF OnWire, Inputs, Kind
  <2> QED BY <1>3, <2>1, <2>2
<1>6. Grants' \subseteq Grants BY DEF QuietCalls, Grants
<1> QED BY <1>2, <1>3, <1>4, <1>5, <1>6

\* The PTYs receive nothing from this view.
PtyMine ==
  \A s \in Session : \A i \in 1..Len(pty'[s]) :
    pty'[s][i].by = Self => i \in 1..Len(pty[s]) /\ pty'[s][i] = pty[s][i]

\* What comes after all that was sent still does, if nothing more is.
LEMMA AheadStays ==
  ASSUME PtyMine, \A c \in Inputs' : \E d \in Inputs : c.keys = d.keys
  PROVE  /\ \A k : Ahead(pty, Inputs, k) => Ahead(pty', Inputs', k)
         /\ \A ks : Fresh(pty, Inputs, ks) => Fresh(pty', Inputs', ks)
<1>1. ASSUME NEW k, Ahead(pty, Inputs, k) PROVE Ahead(pty', Inputs', k)
  <2>1. ASSUME NEW s \in Session, NEW i \in 1..Len(pty'[s]), pty'[s][i].by = Self
        PROVE  pty'[s][i].key < k
    BY <1>1, <2>1 DEF PtyMine, Ahead
  <2>2. ASSUME NEW c \in Inputs', NEW i \in 1..Len(c.keys) PROVE c.keys[i] < k
    <3>1. PICK d \in Inputs : c.keys = d.keys OBVIOUS
    <3> QED BY <1>1, <3>1 DEF Ahead
  <2> QED BY <2>1, <2>2 DEF Ahead
<1> QED BY <1>1 DEF Fresh

GensStay == \A s \in Session : keeper'[s].gen = keeper[s].gen
GateStays ==
  gate'.stage # "none" /\ gate'.epoch = serial' =>
    gate.stage # "none" /\ gate.epoch = serial /\ gate'.keys = gate.keys

\* The leases are left alone, or one is given up.
LEMMA LeaseQuiet ==
  ASSUME FormInv, LeaseInv, HeldInv, LoneInv, QuietCalls, GensStay,
         generation' = 0 \/ (generation' = generation /\ Here' = Here)
  PROVE  LeaseInv' /\ HeldInv' /\ LoneInv'
<1>1. Inputs' = Inputs /\ Pending' = Pending /\ Grants' \subseteq Grants BY CallsQuiet
<1>2. \A c \in Inputs : c.s \in Session BY DEF FormInv, Inputs, Kind
<1>3. \A c \in Grants : c.s \in Session BY DEF FormInv, Grants, Kind
<1>4. LeaseInv' BY <1>1, <1>2, <1>3 DEF LeaseInv, Gen, GensStay
<1>5. HeldInv' BY <1>1 DEF HeldInv, Gen, GensStay
<1>6. LoneInv' BY <1>1 DEF LoneInv
<1> QED BY <1>4, <1>5, <1>6

\* Nor does what is received and pending change.
LEMMA ReceivedQuiet ==
  ASSUME FormInv, PtyOrder, PendingOrder, QuietCalls, GensStay, PtyMine
  PROVE  PtyOrder' /\ PendingOrder'
<1>1. Pending' = Pending BY CallsQuiet
<1>2. \A c \in Pending : c.s \in Session BY DEF FormInv, Pending, Inputs, Kind
<1>3. PtyOrder' BY DEF PtyOrder, PtyMine
<1>4. PendingOrder'
  <2> SUFFICES ASSUME NEW c \in Pending
               PROVE  /\ Rising(c.keys)
                      /\ c.g = keeper'[c.s].gen =>
                           \A i \in 1..Len(pty'[c.s]) : pty'[c.s][i].by = Self =>
                             \A j \in 1..Len(c.keys) : pty'[c.s][i].key < c.keys[j]
    BY <1>1 DEF PendingOrder, Gen
  <2> QED BY <1>2 DEF PendingOrder, Gen, GensStay, PtyMine
<1> QED BY <1>3, <1>4

\* A step of other threads.
LEMMA QuietStep ==
  ASSUME FormInv, Fenced, QuietCalls, GensStay, PtyMine, GateStays,
         UNCHANGED <<queue, running, inEpoch>>,
         generation' = 0 \/ (generation' = generation /\ Here' = Here)
  PROVE  Fenced'
<1>1. Inputs' = Inputs /\ Pending' = Pending /\ OnWire' = OnWire BY CallsQuiet
<1>2. LeaseInv' /\ HeldInv' /\ LoneInv' BY LeaseQuiet DEF Fenced
<1>3. PtyOrder' /\ PendingOrder' BY ReceivedQuiet DEF Fenced
<1>4. WireInv' BY <1>1 DEF Fenced, WireInv
<1>5. LateInv' BY <1>1 DEF Fenced, LateInv
<1>6. /\ \A k : Ahead(pty, Inputs, k) => Ahead(pty', Inputs', k)
      /\ \A ks : Fresh(pty, Inputs, ks) => Fresh(pty', Inputs', ks)
  BY <1>1, AheadStays
<1>7. QueueOrder' BY <1>1, <1>6 DEF Fenced, QueueOrder
<1>8. GateOrder' BY <1>6 DEF Fenced, GateOrder, GateStays
<1> QED BY <1>2, <1>3, <1>4, <1>5, <1>7, <1>8 DEF Fenced

\* The loop stops, or what it awaits is of an epoch that is past: the queue is empty,
\* and control is not held.
LEMMA StopStep ==
  ASSUME FormInv, Fenced, Inputs' \subseteq Inputs, OnWire' \subseteq OnWire,
         Grants' \subseteq Grants, GensStay, pty' = pty, GateStays,
         queue' = <<>>, generation' = 0, inEpoch' \in {inEpoch, inEpoch + 1},
         running' <=> OnWire' # {}
  PROVE  Fenced'
<1>1. Pending' \subseteq Pending BY DEF Pending
<1>2. \A c \in Inputs : c.s \in Session BY DEF FormInv, Inputs, Kind
<1>3. \A c \in Grants : c.s \in Session BY DEF FormInv, Grants, Kind
<1>4. LeaseInv' BY <1>2, <1>3 DEF Fenced, LeaseInv, Gen, GensStay
<1>5. HeldInv' /\ LateInv' BY DEF HeldInv, LateInv
<1>6. LoneInv' BY <1>1 DEF Fenced, LoneInv
<1>7. WireInv'
  <2>1. \A c \in OnWire : c.epoch <= inEpoch /\ c.epoch \in Nat
    BY DEF Fenced, WireInv, FormInv, OnWire, Kind
  <2>2. inEpoch \in Nat BY DEF FormInv
  <2>3. \A c \in OnWire' : c.epoch <= inEpoch' BY <2>1, <2>2
  <2> QED BY <2>3 DEF Fenced, WireInv
<1>8. PtyOrder' BY DEF Fenced, PtyOrder
<1>9. PendingOrder'
  <2> SUFFICES ASSUME NEW c \in Pending
               PROVE  /\ Rising(c.keys)
                      /\ c.g = keeper'[c.s].gen =>
                           \A i \in 1..Len(pty[c.s]) : pty[c.s][i].by = Self =>
                             \A j \in 1..Len(c.keys) : pty[c.s][i].key < c.keys[j]
    BY <1>1 DEF PendingOrder, Gen
  <2>1. c.s \in Session BY <1>2 DEF Pending
  <2> QED BY <2>1 DEF Fenced, PendingOrder, Gen, GensStay
<1>10. Len(queue') = 0 BY EmptySeq
<1>11. QueueOrder' BY <1>10 DEF QueueOrder, Rising
<1>12. GateOrder'
  <2>1. PtyMine BY DEF PtyMine
  <2>2. \A ks : Fresh(pty, Inputs, ks) => Fresh(pty', Inputs', ks) BY <2>1, AheadStays
  <2> QED BY <1>10, <2>2 DEF Fenced, GateOrder, GateStays, Before
<1> QED
  BY <1>4, <1>5, <1>6, <1>7, <1>8, <1>9, <1>11, <1>12 DEF Fenced

-------------------------------------------------------------------------------
(* An input is answered, or given up.                                      *)

\* Request c becomes those of cs: its answer, or none if nobody waits for it, and
\* perhaps its late copy.
Becomes(c, cs) ==
  /\ calls' = (calls \ {c}) \union cs
  /\ \A d \in cs : Like(d, c) /\ Kind(d)
  /\ \A d, e \in cs : d.by = e.by => d = e
  /\ \A d \in cs : \/ d.by = c.by /\ d.reply # "none"
                   \/ /\ d.by = "gone" /\ c.by = "input" /\ c.reply = "none"
                      /\ \E e \in cs : e.by = "input" /\ e.reply = "error"
  /\ c.by = "input" =>
       \E e \in cs : e.by = "input" /\ (c.reply = "none" \/ e.reply = "error")

\* What is new at a PTY are the keys of c, which no other request has then.
Receives(c, cs) ==
  \A s \in Session : \A i \in 1..Len(pty'[s]) :
    pty'[s][i].by = Self =>
      \/ i \in 1..Len(pty[s]) /\ pty'[s][i] = pty[s][i]
      \/ /\ s = c.s /\ c.g = Gen(s) /\ c.reply = "none" /\ \A d \in cs : d.reply # "none"
         /\ i > Len(pty[s]) /\ i - Len(pty[s]) \in 1..Len(c.keys)
         /\ pty'[s][i].key = c.keys[i - Len(pty[s])]

LEMMA AnswerStep ==
  ASSUME FormInv, Fenced, NEW c \in Inputs, NEW cs, Becomes(c, cs), Receives(c, cs),
         \A s \in Session : Len(pty[s]) \in Nat,
         GensStay, UNCHANGED <<queue, running, inEpoch, generation, active, sel, gate, serial>>
  PROVE  Fenced'
<1>1. Inputs' = (Inputs \ {c}) \union cs BY DEF Inputs, Becomes, Like
<1>2. Grants' \subseteq Grants BY DEF Inputs, Grants, Becomes, Like
<1>3. /\ c \in calls /\ c.op = "input" /\ c.s \in Session /\ c.by \in {"input", "gone"}
      /\ \A d \in Inputs : d.s \in Session
      /\ \A d \in Grants : d.s \in Session
  BY DEF FormInv, Inputs, Grants, Kind
<1>4. \A d \in cs : d.op = "input" /\ d.s = c.s /\ d.g = c.g /\ d.keys = c.keys /\ d.epoch = c.epoch
  BY <1>3 DEF Becomes, Like
<1>5. ASSUME NEW d \in Pending'
      PROVE  \/ d \in Pending /\ d # c
             \/ /\ d \in cs /\ d.by = "gone" /\ c.by = "input" /\ c \in Pending
                /\ \E e \in cs : e.by = "input" /\ e.reply = "error"
  BY <1>1, <1>5 DEF Pending, Becomes
<1>6. OnWire' = (OnWire \ {c}) \union { d \in cs : d.by = "input" } BY DEF OnWire, Becomes
<1>7. \A d \in cs : d.by = "input" => c \in OnWire BY <1>3 DEF Becomes, OnWire
<1>8. c \in OnWire => \E e \in cs : e.by = "input" /\ (c.reply = "none" \/ e.reply = "error")
  BY DEF OnWire, Becomes
<1>9. \A d, e \in OnWire : d = e BY DEF Fenced, WireInv
<1>10. LeaseInv'
  BY <1>1, <1>2, <1>3, <1>4 DEF Fenced, LeaseInv, Gen, GensStay
<1>11. Here' = Here BY DEF Here
<1>12. HeldInv' BY <1>2, <1>11 DEF Fenced, HeldInv, Gen, GensStay
<1>13. LoneInv'
  <2> SUFFICES ASSUME NEW d \in Pending', NEW e \in Pending', d.s = e.s, d.g = e.g
               PROVE  d = e
    BY DEF LoneInv
  <2>1. CASE d \in cs /\ e \in cs /\ d.by = "gone" /\ e.by = "gone" BY <2>1 DEF Becomes
  <2>2. CASE d \in Pending /\ e \in Pending BY <2>2 DEF Fenced, LoneInv
  <2>3. CASE d \in cs /\ c \in Pending /\ e \in Pending /\ e # c
    BY <2>3, <1>4 DEF Fenced, LoneInv
  <2>4. CASE e \in cs /\ c \in Pending /\ d \in Pending /\ d # c
    BY <2>4, <1>4 DEF Fenced, LoneInv
  <2> QED BY <1>5, <2>1, <2>2, <2>3, <2>4
<1>14. WireInv'
  <2>1. running' <=> OnWire' # {} BY <1>6, <1>7, <1>8 DEF Fenced, WireInv
  <2>2. \A d, e \in OnWire' : d = e
    <3> SUFFICES ASSUME NEW d \in OnWire', NEW e \in OnWire' PROVE d = e OBVIOUS
    <3>1. CASE d \in cs /\ e \in cs /\ d.by = "input" /\ e.by = "input" BY <3>1 DEF Becomes
    <3>2. CASE d \in OnWire \ {c} \/ e \in OnWire \ {c} BY <3>2, <1>6, <1>7, <1>9
    <3> QED BY <3>1, <3>2, <1>6
  <2>3. \A d \in OnWire' : d.epoch <= inEpoch' BY <1>4, <1>6, <1>7 DEF Fenced, WireInv
  <2> QED BY <2>1, <2>2, <2>3 DEF WireInv
<1>15. LateInv'
  <2> SUFFICES ASSUME generation # 0, NEW d \in Pending', d.s = Here, d.g = generation
               PROVE  \E w \in OnWire' : w.epoch = inEpoch /\ (w = d \/ w.reply \notin {"none", "ok"})
    BY <1>11 DEF LateInv
  <2>1. CASE d \in Pending /\ d # c
    <3>1. PICK w \in OnWire : w.epoch = inEpoch /\ (w = d \/ w.reply \notin {"none", "ok"})
      BY <2>1 DEF Fenced, LateInv
    <3>2. CASE w # c BY <3>1, <3>2, <1>6
    <3>3. CASE w = c
      <4>1. PICK e \in cs : e.by = "input" /\ e.reply = "error" BY <3>1, <3>3, <2>1, <1>8
      <4>2. e \in OnWire' /\ e.epoch = inEpoch BY <4>1, <1>4, <1>6, <3>1, <3>3
      <4> QED BY <4>1, <4>2
    <3> QED BY <3>2, <3>3
  <2>2. CASE /\ d \in cs /\ d.by = "gone" /\ c.by = "input" /\ c \in Pending
             /\ \E e \in cs : e.by = "input" /\ e.reply = "error"
    <3>1. c \in OnWire BY <2>2, <1>3 DEF OnWire
    <3>2. c.epoch = inEpoch BY <2>2, <3>1, <1>4, <1>9 DEF Fenced, LateInv
    <3>3. PICK e \in cs : e.by = "input" /\ e.reply = "error" BY <2>2
    <3>4. e \in OnWire' /\ e.epoch = inEpoch BY <3>2, <3>3, <1>4, <1>6
    <3> QED BY <3>3, <3>4
  <2> QED BY <1>5, <2>1, <2>2
<1>16. PtyOrder'
  <2> SUFFICES ASSUME NEW s \in Session, NEW i \in 1..Len(pty'[s]), NEW j \in 1..Len(pty'[s]),
                      i < j, pty'[s][i].by = Self, pty'[s][j].by = Self
               PROVE  pty'[s][i].key < pty'[s][j].key
    BY DEF PtyOrder
  <2>0. Len(pty[s]) \in Nat OBVIOUS
  <2>1. CASE j \in 1..Len(pty[s]) /\ pty'[s][j] = pty[s][j]
    <3>1. i \in 1..Len(pty[s]) /\ pty'[s][i] = pty[s][i] BY <2>0, <2>1 DEF Receives
    <3> QED BY <2>1, <3>1 DEF Fenced, PtyOrder
  <2>2. CASE /\ s = c.s /\ c.g = Gen(s) /\ c.reply = "none"
             /\ j > Len(pty[s]) /\ j - Len(pty[s]) \in 1..Len(c.keys)
             /\ pty'[s][j].key = c.keys[j - Len(pty[s])]
    <3>1. c \in Pending BY <2>2 DEF Pending
    <3>2. CASE i \in 1..Len(pty[s]) /\ pty'[s][i] = pty[s][i]
      BY <2>2, <3>1, <3>2 DEF Fenced, PendingOrder
    <3>3. CASE /\ i > Len(pty[s]) /\ i - Len(pty[s]) \in 1..Len(c.keys)
               /\ pty'[s][i].key = c.keys[i - Len(pty[s])]
      <4>1. Rising(c.keys) BY <3>1 DEF Fenced, PendingOrder
      <4>2. i - Len(pty[s]) < j - Len(pty[s]) BY <2>0
      <4> QED BY <2>2, <3>3, <4>1, <4>2 DEF Rising
    <3> QED BY <3>2, <3>3 DEF Receives
  <2> QED BY <2>1, <2>2 DEF Receives
<1>17. PendingOrder'
  <2> SUFFICES ASSUME NEW d \in Pending'
               PROVE  /\ Rising(d.keys)
                      /\ d.g = keeper'[d.s].gen =>
                           \A i \in 1..Len(pty'[d.s]) : pty'[d.s][i].by = Self =>
                             \A j \in 1..Len(d.keys) : pty'[d.s][i].key < d.keys[j]
    BY DEF PendingOrder, Gen
  <2>1. d.s \in Session /\ \E e \in Pending : e.s = d.s /\ e.g = d.g /\ e.keys = d.keys
    BY <1>3, <1>4, <1>5 DEF Pending
  <2>2. Rising(d.keys) BY <2>1 DEF Fenced, PendingOrder
  <2>3. ASSUME d.g = keeper'[d.s].gen, NEW i \in 1..Len(pty'[d.s]), pty'[d.s][i].by = Self,
               NEW j \in 1..Len(d.keys)
        PROVE  pty'[d.s][i].key < d.keys[j]
    <3>1. d.g = Gen(d.s) BY <2>1, <2>3 DEF GensStay, Gen
    <3>2. CASE i \in 1..Len(pty[d.s]) /\ pty'[d.s][i] = pty[d.s][i]
      BY <2>1, <2>3, <3>1, <3>2 DEF Fenced, PendingOrder
    <3>3. CASE d.s = c.s /\ c.g = Gen(d.s) /\ c.reply = "none" /\ \A e \in cs : e.reply # "none"
      <4>1. c \in Pending BY <3>3 DEF Pending
      <4>2. d \in Pending /\ d # c BY <1>5, <3>3 DEF Pending
      <4> QED BY <3>1, <3>3, <4>1, <4>2 DEF Fenced, LoneInv
    <3> QED BY <2>1, <2>3, <3>2, <3>3 DEF Receives
  <2> QED BY <2>2, <2>3
<1>18. ASSUME NEW k, Ahead(pty, Inputs, k) PROVE Ahead(pty', Inputs', k)
  <2>1. ASSUME NEW s \in Session, NEW i \in 1..Len(pty'[s]), pty'[s][i].by = Self
        PROVE  pty'[s][i].key < k
    BY <1>18, <2>1 DEF Receives, Ahead
  <2>2. ASSUME NEW d \in Inputs', NEW i \in 1..Len(d.keys) PROVE d.keys[i] < k
    BY <1>1, <1>4, <1>18 DEF Ahead
  <2> QED BY <2>1, <2>2 DEF Ahead
<1>19. QueueOrder'
  <2>1. \A j \in 1..Len(queue) :
          (\A d \in OnWire' : d.epoch = inEpoch => j > Len(d.keys)) =>
          (\A d \in OnWire : d.epoch = inEpoch => j > Len(d.keys))
    BY <1>4, <1>6, <1>8
  <2> QED BY <1>18, <2>1 DEF Fenced, QueueOrder
<1>20. GateOrder' BY <1>18 DEF Fenced, GateOrder, Fresh
<1> QED
  BY <1>10, <1>12, <1>13, <1>14, <1>15, <1>16, <1>17, <1>19, <1>20 DEF Fenced

-------------------------------------------------------------------------------
(* Leases are granted and taken.                                           *)

\* A keeper grants its next lease, to this view or to the other.
LEMMA GrantStep ==
  ASSUME FormInv, Fenced, NEW s \in Session, keeper'[s].gen = Gen(s) + 1,
         \A r \in Session : r # s => keeper'[r].gen = keeper[r].gen,
         Inputs' = Inputs, OnWire' = OnWire,
         \A c \in Grants' : c \in Grants \/ (c.s = s /\ c.lease = Gen(s) + 1),
         \A c, d \in Grants' : c \in Grants \/ d \in Grants \/ c = d,
         UNCHANGED <<pty, queue, running, inEpoch, generation, active, sel, gate, serial>>
  PROVE  Fenced'
<1>1. Pending' = Pending BY DEF Pending
<1>2. Gen(s) \in Nat /\ \A r \in Session : Gen(r) \in Nat BY DEF FormInv, KeeperForm
<1>3. \A r \in Session : Gen(r) <= keeper'[r].gen BY <1>2 DEF Gen
<1>4. /\ \A c \in Inputs : c.s \in Session /\ c.g \in Nat
      /\ \A c \in Grants : c.s \in Session /\ c.lease \in Nat
  BY DEF FormInv, Inputs, Grants, Kind
<1>5. LeaseInv'
  <2>1. \A c \in Inputs : c.g <= keeper'[c.s].gen
    BY <1>2, <1>3, <1>4 DEF Fenced, LeaseInv, Gen
  <2>2. \A c \in Grants' : c.lease <= keeper'[c.s].gen
    <3> SUFFICES ASSUME NEW c \in Grants' PROVE c.lease <= keeper'[c.s].gen OBVIOUS
    <3>1. CASE c \in Grants
      <4>1. c.s \in Session /\ c.lease \in Nat /\ c.lease <= Gen(c.s)
        BY <3>1, <1>4 DEF Fenced, LeaseInv
      <4> QED BY <4>1, <1>2 DEF Gen
    <3>2. CASE c.s = s /\ c.lease = Gen(s) + 1 BY <3>2, <1>2
    <3> QED BY <3>1, <3>2
  <2>3. \A c \in Grants', d \in Inputs : c.s = d.s => c.lease # d.g
    <3> SUFFICES ASSUME NEW c \in Grants', NEW d \in Inputs, c.s = d.s PROVE c.lease # d.g
      OBVIOUS
    <3>1. d.g <= Gen(d.s) /\ d.g \in Nat BY <1>4 DEF Fenced, LeaseInv
    <3>2. CASE c \in Grants BY <3>2 DEF Fenced, LeaseInv
    <3>3. CASE c.s = s /\ c.lease = Gen(s) + 1 BY <3>1, <3>3, <1>2
    <3> QED BY <3>2, <3>3
  <2>4. \A c, d \in Grants' : c.s = d.s /\ c.lease = d.lease => c = d
    <3> SUFFICES ASSUME NEW c \in Grants', NEW d \in Grants', c.s = d.s, c.lease = d.lease
                 PROVE  c = d
      OBVIOUS
    <3>1. \A e \in Grants : e.s = s => e.lease < Gen(s) + 1
      <4> SUFFICES ASSUME NEW e \in Grants, e.s = s PROVE e.lease < Gen(s) + 1 OBVIOUS
      <4>1. e.lease \in Nat /\ e.lease <= Gen(s) BY <1>4 DEF Fenced, LeaseInv
      <4> QED BY <4>1, <1>2
    <3>2. CASE c \in Grants /\ d \in Grants BY <3>2 DEF Fenced, LeaseInv
    <3>3. CASE c \in Grants /\ d.s = s /\ d.lease = Gen(s) + 1 BY <3>1, <3>3, <1>2
    <3>4. CASE d \in Grants /\ c.s = s /\ c.lease = Gen(s) + 1
      <4>1. d.s = s /\ d.lease = Gen(s) + 1 BY <3>4
      <4>2. d.lease < Gen(s) + 1 BY <3>1, <3>4, <4>1
      <4> QED BY <1>2, <4>1, <4>2
    <3> QED BY <3>2, <3>3, <3>4
  <2> QED BY <2>1, <2>2, <2>3, <2>4 DEF LeaseInv, Gen
<1>6. Here' = Here BY DEF Here
<1>7. HeldInv'
  <2> SUFFICES ASSUME generation # 0
               PROVE  /\ Here \in Session /\ generation <= keeper'[Here].gen
                      /\ \A c \in Grants' : c.s = Here => c.lease # generation
    BY <1>6 DEF HeldInv, Gen
  <2>1. Here \in Session /\ generation <= Gen(Here) /\ generation \in Nat
    BY DEF Fenced, HeldInv, FormInv
  <2>2. generation <= keeper'[Here].gen BY <2>1, <1>2 DEF Gen
  <2>3. \A c \in Grants' : c.s = Here => c.lease # generation
    <3> SUFFICES ASSUME NEW c \in Grants', c.s = Here PROVE c.lease # generation OBVIOUS
    <3>1. CASE c \in Grants BY <3>1 DEF Fenced, HeldInv
    <3>2. CASE c.s = s /\ c.lease = Gen(s) + 1 BY <3>2, <2>1, <1>2
    <3> QED BY <3>1, <3>2
  <2> QED BY <2>1, <2>2, <2>3
<1>8. LoneInv' BY <1>1 DEF Fenced, LoneInv
<1>9. WireInv' BY DEF Fenced, WireInv
<1>10. LateInv' BY <1>1, <1>6 DEF Fenced, LateInv
<1>11. PtyOrder' BY DEF Fenced, PtyOrder
<1>12. PendingOrder'
  <2> SUFFICES ASSUME NEW c \in Pending
               PROVE  /\ Rising(c.keys)
                      /\ c.g = keeper'[c.s].gen =>
                           \A i \in 1..Len(pty[c.s]) : pty[c.s][i].by = Self =>
                             \A j \in 1..Len(c.keys) : pty[c.s][i].key < c.keys[j]
    BY <1>1 DEF PendingOrder, Gen
  <2>1. c \in Inputs /\ c.s \in Session /\ c.g \in Nat /\ c.g <= Gen(c.s)
    BY <1>4 DEF Pending, Fenced, LeaseInv
  <2>2. c.g = keeper'[c.s].gen => c.s # s BY <2>1, <1>2
  <2> QED BY <2>1, <2>2 DEF Fenced, PendingOrder, Gen
<1>13. QueueOrder' BY DEF Fenced, QueueOrder
<1>14. GateOrder' BY DEF Fenced, GateOrder
<1> QED
  BY <1>5, <1>7, <1>8, <1>9, <1>10, <1>11, <1>12, <1>13, <1>14 DEF Fenced

\* The view takes a lease that it was granted for the session it shows.
LEMMA TakenStep ==
  ASSUME FormInv, Fenced, NEW c \in Grants, c.s = Here, calls' = calls \ {c},
         generation' = c.lease,
         UNCHANGED <<keeper, pty, queue, running, inEpoch, active, sel, gate, serial>>
  PROVE  Fenced'
<1>1. c \in calls /\ c.op = "acquire" /\ c.s \in Session
  BY DEF FormInv, Grants, Kind
<1>2. QuietCalls BY <1>1 DEF QuietCalls
<1>3. /\ Inputs' = Inputs /\ Pending' = Pending /\ OnWire' = OnWire
      /\ Grants' = Grants \ {c}
  BY <1>2, CallsQuiet DEF Grants
<1>4. Here' = Here BY DEF Here
<1>5. LeaseInv' BY <1>3 DEF Fenced, LeaseInv, Gen
<1>6. HeldInv'
  <2>1. \A d \in Grants' : d.s = Here => d.lease # c.lease BY <1>3 DEF Fenced, LeaseInv
  <2> QED BY <1>1, <1>4, <2>1 DEF Fenced, LeaseInv, HeldInv, Gen
<1>7. LateInv'
  <2>1. \A d \in Pending : d.s = Here => d.g # c.lease BY DEF Fenced, LeaseInv, Pending
  <2> QED BY <1>3, <1>4, <2>1 DEF LateInv
<1>8. LoneInv' /\ WireInv' BY <1>3 DEF Fenced, LoneInv, WireInv
<1>9. PtyOrder' BY DEF Fenced, PtyOrder
<1>10. PendingOrder' BY <1>3 DEF Fenced, PendingOrder, Gen
<1>11. QueueOrder' BY <1>3 DEF Fenced, QueueOrder
<1>12. GateOrder' BY <1>3 DEF Fenced, GateOrder
<1> QED
  BY <1>5, <1>6, <1>7, <1>8, <1>9, <1>10, <1>11, <1>12 DEF Fenced

-------------------------------------------------------------------------------
(* The loop sends.                                                         *)

\* It goes on with keys q, that come after all that was sent, when nothing is on
\* its way and no input of the lease it holds is unanswered.
LEMMA SendStep ==
  ASSUME FormInv, Fenced, NEW q, NEW n, NEW cs, SendOn(q, generation, n, cs),
         cs \subseteq calls, \A c \in calls : c \in cs <=> c.by # "input",
         Fresh(pty, Inputs, q), active \in Place,
         generation # 0 => \A d \in Pending : d \in cs => ~(d.s = Here /\ d.g = generation),
         GateStays, gate'.stage # "none" /\ gate'.epoch = serial' => Before(q, gate'.keys),
         UNCHANGED <<keeper, pty, active, sel>>
  PROVE  Fenced'
<1>1. \A c \in calls : Kind(c) BY DEF FormInv
<1>2. GensStay BY DEF GensStay
<1>3. Here' = Here BY DEF Here
<1>4. CASE q # <<>> /\ (active = Nowhere \/ generation = 0)
  <2>1. calls' = cs /\ queue' = <<>> /\ generation' = 0 /\ inEpoch' = inEpoch + 1 /\ ~running'
    BY <1>4 DEF SendOn
  <2>2. /\ Inputs' \subseteq Inputs /\ Grants' \subseteq Grants
        /\ OnWire' \subseteq OnWire /\ OnWire' = {}
    BY <2>1 DEF Inputs, Grants, OnWire
  <2> QED BY <1>2, <2>1, <2>2, StopStep
<1>5. CASE q = <<>>
  <2>1. /\ calls' = cs /\ queue' = <<>> /\ generation' = generation /\ inEpoch' = inEpoch
        /\ ~running'
    BY <1>5 DEF SendOn
  <2>2. /\ Inputs' \subseteq Inputs /\ Grants' \subseteq Grants
        /\ Pending' \subseteq Pending /\ OnWire' = {}
    BY <2>1 DEF Inputs, Grants, OnWire, Pending
  <2>3. LeaseInv' BY <2>2 DEF Fenced, LeaseInv, Gen
  <2>4. HeldInv' BY <1>3, <2>1, <2>2 DEF Fenced, HeldInv, Gen
  <2>5. LoneInv' BY <2>2 DEF Fenced, LoneInv
  <2>6. WireInv' BY <2>1, <2>2 DEF WireInv
  <2>7. LateInv'
    <3>1. \A d \in Pending' : d \in Pending /\ d \in cs BY <2>1, <2>2 DEF Pending, Inputs
    <3> QED BY <1>3, <2>1, <3>1 DEF LateInv
  <2>8. PtyOrder' BY DEF Fenced, PtyOrder
  <2>9. PendingOrder' BY <2>2 DEF Fenced, PendingOrder, Gen
  <2>10. Len(queue') = 0 BY <2>1, EmptySeq
  <2>11. QueueOrder' BY <2>1, <2>10 DEF QueueOrder, Rising
  <2>12. PtyMine BY DEF PtyMine
  <2>13. \A ks : Fresh(pty, Inputs, ks) => Fresh(pty', Inputs', ks)
    BY <2>2, <2>12, AheadStays
  <2>14. GateOrder' BY <2>10, <2>13 DEF Fenced, GateOrder, GateStays, Before
  <2> QED
    BY <2>3, <2>4, <2>5, <2>6, <2>7, <2>8, <2>9, <2>11, <2>14 DEF Fenced
<1>6. CASE q # <<>> /\ ~(active = Nowhere \/ generation = 0)
  <2>1. PICK c : c = NewInput(active, inEpoch, generation, n, q) OBVIOUS
  <2>2. /\ c.by = "input" /\ c.op = "input" /\ c.s = active /\ c.epoch = inEpoch
        /\ c.reply = "none" /\ c.g = generation /\ c.keys = q
    BY <2>1, InputIs
  <2>3. /\ calls' = cs \union {c} /\ queue' = q /\ running' /\ generation' = generation
        /\ inEpoch' = inEpoch
    <3>1. calls' = cs \union {NewInput(active, inEpoch, generation, n, q)}
      BY <1>6, Zenon DEF SendOn, NewInput
    <3> QED BY <1>6, <2>1, <3>1 DEF SendOn
  <2>4. active = Here /\ active \in Session BY <1>6 DEF Here, Place
  <2>5. Inputs' = { d \in Inputs : d \in cs } \union {c} BY <2>2, <2>3 DEF Inputs
  <2>6. Pending' = { d \in Pending : d \in cs } \union {c} BY <2>2, <2>5 DEF Pending
  <2>7. OnWire' = {c} BY <2>2, <2>3 DEF OnWire
  <2>8. Grants' \subseteq Grants BY <2>2, <2>3 DEF Grants
  <2>9. LeaseInv'
    <3>1. \A d \in Grants : d.s = active => d.lease # generation
      BY <1>6, <2>4 DEF Fenced, HeldInv
    <3>2. generation <= Gen(active) BY <1>6, <2>4 DEF Fenced, HeldInv
    <3> QED BY <2>2, <2>5, <2>8, <3>1, <3>2 DEF Fenced, LeaseInv, Gen
  <2>10. HeldInv' BY <1>3, <2>3, <2>8 DEF Fenced, HeldInv, Gen
  <2>11. LoneInv' BY <1>6, <2>2, <2>4, <2>6 DEF Fenced, LoneInv
  <2>12. WireInv'
    <3>1. inEpoch \in Nat BY DEF FormInv
    <3> QED BY <2>2, <2>3, <2>7, <3>1 DEF WireInv
  <2>13. LateInv' BY <1>3, <1>6, <2>2, <2>3, <2>6, <2>7 DEF LateInv
  <2>14. PtyOrder' BY DEF Fenced, PtyOrder
  <2>15. PendingOrder'
    <3> SUFFICES ASSUME NEW d \in Pending'
                 PROVE  /\ Rising(d.keys)
                        /\ d.g = Gen(d.s) =>
                             \A i \in 1..Len(pty[d.s]) : pty[d.s][i].by = Self =>
                               \A j \in 1..Len(d.keys) : pty[d.s][i].key < d.keys[j]
      BY DEF PendingOrder, Gen
    <3>1. CASE d \in Pending BY <3>1 DEF Fenced, PendingOrder
    <3>2. CASE d = c BY <3>2, <2>2, <2>4 DEF Fresh, Ahead
    <3> QED BY <2>6, <3>1, <3>2
  <2>16. QueueOrder'
    <3>1. Rising(queue') BY <2>3 DEF Fresh
    <3>2. \A j \in 1..Len(queue') : ~(j > Len(c.keys)) BY <2>2, <2>3
    <3> QED BY <2>2, <2>3, <2>7, <3>1, <3>2 DEF QueueOrder
  <2>17. GateOrder'
    <3> SUFFICES ASSUME gate'.stage # "none", gate'.epoch = serial'
                 PROVE  Fresh(pty, Inputs', gate'.keys) /\ Before(q, gate'.keys)
      BY <2>3 DEF GateOrder
    <3>1. Fresh(pty, Inputs, gate'.keys) /\ Before(q, gate'.keys)
      BY DEF GateStays, Fenced, GateOrder
    <3>2. \A j \in 1..Len(gate'.keys) : Ahead(pty, Inputs', gate'.keys[j])
      BY <2>2, <2>5, <3>1 DEF Fresh, Ahead, Before
    <3> QED BY <3>1, <3>2 DEF Fresh
  <2> QED
    BY <2>9, <2>10, <2>11, <2>12, <2>13, <2>14, <2>15, <2>16, <2>17 DEF Fenced
<1> QED BY <1>4, <1>5, <1>6

\* Keys behind others that all come before them.
LEMMA RisingJoin ==
  ASSUME NEW T, NEW a \in Seq(T), NEW b \in Seq(T), Rising(a), Rising(b), Before(a, b)
  PROVE  Rising(a \o b)
<1>1. /\ Len(a \o b) = Len(a) + Len(b)
      /\ \A i \in 1..Len(a) + Len(b) : (a \o b)[i] = IF i <= Len(a) THEN a[i] ELSE b[i - Len(a)]
  BY ConcatProperties
<1>2. Len(a) \in Nat /\ Len(b) \in Nat BY LenProperties
<1>3. PICK c : c = a \o b OBVIOUS
<1>4. ASSUME NEW i \in 1..Len(c), NEW j \in 1..Len(c), i < j PROVE c[i] < c[j]
  <2>1. CASE j <= Len(a)
    <3>1. c[i] = a[i] /\ c[j] = a[j] BY <1>1, <1>2, <1>3, <1>4, <2>1
    <3> QED BY <1>1, <1>2, <1>3, <1>4, <2>1, <3>1 DEF Rising
  <2>2. CASE i > Len(a)
    <3>1. c[i] = b[i - Len(a)] /\ c[j] = b[j - Len(a)] BY <1>1, <1>2, <1>3, <1>4, <2>2
    <3>2. /\ i - Len(a) \in 1..Len(b) /\ j - Len(a) \in 1..Len(b)
          /\ i - Len(a) < j - Len(a)
      BY <1>1, <1>2, <1>3, <1>4, <2>2
    <3> QED BY <3>1, <3>2 DEF Rising
  <2>3. CASE i <= Len(a) /\ j > Len(a)
    <3>1. c[i] = a[i] /\ c[j] = b[j - Len(a)] BY <1>1, <1>2, <1>3, <1>4, <2>3
    <3>2. i \in 1..Len(a) /\ j - Len(a) \in 1..Len(b) BY <1>1, <1>2, <1>3, <1>4, <2>3
    <3> QED BY <3>1, <3>2 DEF Before
  <2> QED BY <1>2, <1>4, <2>1, <2>2, <2>3
<1> QED BY <1>3, <1>4 DEF Rising

\* Keys are submitted that come after all others; the gate is closed then.
LEMMA SubmitStep ==
  ASSUME FormInv, Fenced, NEW T, NEW ks \in Seq(T), queue \in Seq(T), Submit(ks),
         Fresh(pty, Inputs, ks), Before(queue, ks), active \in Place,
         gate'.stage = "none", UNCHANGED <<keeper, pty, active, sel>>
  PROVE  Fenced'
<1>1. GensStay /\ PtyMine /\ GateStays BY DEF GensStay, PtyMine, GateStays
<1>2. Here' = Here BY DEF Here
<1>3. CASE active = Nowhere \/ generation = 0
  <2>1. UNCHANGED <<calls, generation, queue, running, inEpoch>> BY <1>3 DEF Submit, input
  <2>2. QuietCalls BY <2>1 DEF QuietCalls
  <2> QED BY <1>1, <1>2, <2>1, <2>2, QuietStep
<1>4. CASE ~(active = Nowhere \/ generation = 0) /\ running
  <2>1. queue' = queue \o ks /\ UNCHANGED <<calls, generation, running, inEpoch>>
    BY <1>4 DEF Submit
  <2>2. QuietCalls BY <2>1 DEF QuietCalls
  <2>3. Inputs' = Inputs /\ Pending' = Pending /\ OnWire' = OnWire BY <2>1 DEF Inputs, Pending, OnWire
  <2>4. LeaseInv' /\ HeldInv' /\ LoneInv' BY <1>1, <1>2, <2>1, <2>2, LeaseQuiet DEF Fenced
  <2>5. PtyOrder' /\ PendingOrder' BY <1>1, <2>2, ReceivedQuiet DEF Fenced
  <2>6. WireInv' BY <2>1, <2>3 DEF Fenced, WireInv
  <2>7. LateInv' BY <1>2, <2>1, <2>3 DEF Fenced, LateInv
  <2>8. QueueOrder'
    <3>1. PICK q : q = queue \o ks OBVIOUS
    <3>2. Rising(q)
      <4>1. Rising(queue) /\ Rising(ks) BY DEF Fenced, QueueOrder, Fresh
      <4> QED BY <3>1, <4>1, RisingJoin
    <3>3. /\ Len(q) = Len(queue) + Len(ks)
          /\ \A i \in 1..Len(queue) + Len(ks) :
               q[i] = IF i <= Len(queue) THEN queue[i] ELSE ks[i - Len(queue)]
      BY <3>1, ConcatProperties
    <3>4. Len(queue) \in Nat /\ Len(ks) \in Nat BY LenProperties
    <3>5. ASSUME NEW j \in 1..Len(q),
                 \A c \in OnWire : c.epoch = inEpoch => j > Len(c.keys)
          PROVE  Ahead(pty, Inputs, q[j])
      <4>1. CASE j <= Len(queue)
        <5>1. q[j] = queue[j] /\ j \in 1..Len(queue) BY <3>3, <3>4, <4>1
        <5> QED BY <3>5, <5>1 DEF Fenced, QueueOrder
      <4>2. CASE j > Len(queue)
        <5>1. q[j] = ks[j - Len(queue)] /\ j - Len(queue) \in 1..Len(ks) BY <3>3, <3>4, <4>2
        <5> QED BY <5>1 DEF Fresh
      <4> QED BY <3>4, <4>1, <4>2
    <3> QED BY <1>4, <2>1, <2>3, <3>1, <3>2, <3>5 DEF QueueOrder
  <2>9. GateOrder' BY DEF GateOrder
  <2> QED BY <2>4, <2>5, <2>6, <2>7, <2>8, <2>9 DEF Fenced
<1>5. CASE ~(active = Nowhere \/ generation = 0) /\ ~running
  <2>1. queue = <<>> BY <1>5 DEF Fenced, QueueOrder
  <2>2. queue \o ks = ks BY <2>1
  <2>3. SendOn(ks, generation, sequence, calls) BY <1>5, <2>2 DEF Submit
  <2>4. OnWire = {} BY <1>5 DEF Fenced, WireInv
  <2>5. \A c \in calls : c.by # "input" BY <2>4 DEF OnWire
  <2>6. generation # 0 => \A d \in Pending : ~(d.s = Here /\ d.g = generation)
    BY <2>4 DEF Fenced, LateInv
  <2> QED BY <1>1, <2>3, <2>5, <2>6, SendStep
<1> QED BY <1>3, <1>4, <1>5

-------------------------------------------------------------------------------
(* The other threads and the keepers.                                      *)

LEMMA KeepersStay ==
  ASSUME KeeperForm, keeper' = keeper
  PROVE  KeeperForm' /\ GensStay
BY Zenon DEF KeeperForm, GensStay, Gen

LEMMA KeeperChanges ==
  ASSUME KeeperForm, NEW s \in Session, NEW g \in Nat, NEW h, NEW l, NEW b,
         keeper' = [keeper EXCEPT ![s] = [gen |-> g, held |-> h, last |-> l, busy |-> b]]
  PROVE  /\ KeeperForm' /\ keeper'[s].gen = g
         /\ \A r \in Session : r # s => keeper'[r].gen = keeper[r].gen
<1>1. keeper'[s] = [gen |-> g, held |-> h, last |-> l, busy |-> b] BY DEF KeeperForm
<1>2. keeper'[s].gen = g BY <1>1
<1>3. \A r \in Session : r # s => keeper'[r] = keeper[r] BY DEF KeeperForm
<1>4. \A r \in Session : keeper'[r].gen \in Nat BY <1>2, <1>3 DEF KeeperForm, Gen
<1>5. \A r \in Session :
        keeper'[r] = [gen |-> keeper'[r].gen, held |-> keeper'[r].held,
                      last |-> keeper'[r].last, busy |-> keeper'[r].busy]
  <2> TAKE r \in Session
  <2>1. CASE r = s BY <1>1, <2>1
  <2>2. CASE r # s
    <3>1. keeper[r] = [gen |-> keeper[r].gen, held |-> keeper[r].held,
                       last |-> keeper[r].last, busy |-> keeper[r].busy]
      BY Zenon DEF KeeperForm
    <3> QED BY <1>3, <2>2, <3>1, Zenon
  <2> QED BY <2>1, <2>2
<1>6. keeper' = [r \in Session |-> keeper'[r]] BY DEF KeeperForm
<1>7. keeper' = [r \in Session |-> [gen |-> keeper'[r].gen, held |-> keeper'[r].held,
                                    last |-> keeper'[r].last, busy |-> keeper'[r].busy]]
  BY <1>5, <1>6, Zenon
<1> QED BY <1>2, <1>3, <1>4, <1>7 DEF KeeperForm, Gen

\* What a keeper notes besides its lease.
LEMMA KeeperNotes ==
  ASSUME KeeperForm, NEW s \in Session, NEW g, g = keeper[s].gen, NEW h, NEW l, NEW b,
         keeper' = [keeper EXCEPT ![s] = [gen |-> g, held |-> h, last |-> l, busy |-> b]]
  PROVE  KeeperForm' /\ GensStay
<1>1. g \in Nat BY DEF KeeperForm, Gen
<1> QED BY <1>1, KeeperChanges DEF GensStay

LEMMA NotesAre ==
  ASSUME KeeperForm, NEW s \in Session, NEW a, NEW b,
         \/ keeper' = [keeper EXCEPT ![s].held = a]
         \/ keeper' = [keeper EXCEPT ![s].busy = a]
         \/ keeper' = [keeper EXCEPT ![s].last = a, ![s].busy = b]
  PROVE  KeeperForm' /\ GensStay
<1>1. PICK g, h, l, y : /\ g = keeper[s].gen /\ h = keeper[s].held
                        /\ l = keeper[s].last /\ y = keeper[s].busy
  OBVIOUS
<1>2. keeper = [r \in Session |-> keeper[r]] /\ keeper[s] = [gen |-> g, held |-> h, last |-> l, busy |-> y]
  BY <1>1, Zenon DEF KeeperForm
<1>3. g = keeper[s].gen BY <1>1
<1>4. KeeperForm' /\ GensStay
  <2>1. CASE keeper' = [keeper EXCEPT ![s].held = a]
    <3>1. keeper'[s] = [gen |-> g, held |-> a, last |-> l, busy |-> y] BY <1>2, <2>1
    <3>2. keeper' = [r \in Session |-> keeper'[r]] /\ \A r \in Session : r # s => keeper'[r] = keeper[r]
      BY <1>2, <2>1
    <3>3. keeper' = [keeper EXCEPT ![s] = [gen |-> g, held |-> a, last |-> l, busy |-> y]] BY <1>2, <3>1, <3>2
    <3> QED BY <1>3, <3>3, KeeperNotes
  <2>2. CASE keeper' = [keeper EXCEPT ![s].busy = a]
    <3>1. keeper'[s] = [gen |-> g, held |-> h, last |-> l, busy |-> a] BY <1>2, <2>2
    <3>2. keeper' = [r \in Session |-> keeper'[r]] /\ \A r \in Session : r # s => keeper'[r] = keeper[r]
      BY <1>2, <2>2
    <3>3. keeper' = [keeper EXCEPT ![s] = [gen |-> g, held |-> h, last |-> l, busy |-> a]] BY <1>2, <3>1, <3>2
    <3> QED BY <1>3, <3>3, KeeperNotes
  <2>3. CASE keeper' = [keeper EXCEPT ![s].last = a, ![s].busy = b]
    <3>1. PICK m : m = [keeper EXCEPT ![s].last = a] OBVIOUS
    <3>2. m[s] = [gen |-> g, held |-> h, last |-> a, busy |-> y] BY <1>2, <3>1
    <3>3. m = [r \in Session |-> m[r]] /\ \A r \in Session : r # s => m[r] = keeper[r]
      BY <1>2, <3>1
    <3>4. keeper' = [m EXCEPT ![s].busy = b] BY <2>3, <3>1, Zenon
    <3>5. keeper'[s] = [gen |-> g, held |-> h, last |-> a, busy |-> b] BY <3>2, <3>3, <3>4
    <3>6. keeper' = [r \in Session |-> keeper'[r]] /\ \A r \in Session : r # s => keeper'[r] = keeper[r]
      BY <3>3, <3>4
    <3>7. keeper' = [keeper EXCEPT ![s] = [gen |-> g, held |-> h, last |-> a, busy |-> b]] BY <1>2, <3>5, <3>6
    <3> QED BY <1>3, <3>7, KeeperNotes
  <2> QED BY <2>1, <2>2, <2>3, Zenon
<1> QED BY <1>4

\* Such a step keeps the invariant.
LEMMA QuietOk ==
  ASSUME FormInv, mistaken \/ Fenced, QuietCalls, KeeperForm', GensStay, PtyMine, GateStays,
         UNCHANGED <<queue, running, inEpoch, mistaken>>,
         generation' = 0 \/ (generation' = generation /\ Here' = Here),
         sel'.stage = "clearing" => active' = Nowhere
  PROVE  FormInv' /\ (mistaken' \/ Fenced')
<1>1. FormInv' BY CallsQuiet DEF FormInv
<1>2. Fenced => Fenced' BY QuietStep
<1>3. mistaken => mistaken' BY Zenon
<1> QED BY <1>1, <1>2, <1>3, Zenon

\* So does one that stays with the view and its threads.
LEMMA ViewOk ==
  ASSUME FormInv, mistaken \/ Fenced, QuietCalls, GateStays,
         UNCHANGED <<keeper, pty, queue, running, inEpoch, mistaken>>,
         generation' = 0 \/ generation' = generation, Here' = Here,
         sel'.stage = "clearing" => active' = Nowhere
  PROVE  FormInv' /\ (mistaken' \/ Fenced')
<1>1. KeeperForm' /\ GensStay BY KeepersStay DEF FormInv
<1>2. PtyMine BY DEF PtyMine
<1> QED BY <1>1, <1>2, QuietOk

\* Whatever a keeper answers, but to an input, and but for a grant.
LEMMA AnsweredQuiet ==
  ASSUME FormInv, CallsInv, NEW c \in calls, c.op # "input", NEW r, NEW l, Answered(c, r, l),
         c.op = "acquire" => r # "ok"
  PROVE  QuietCalls
<1>1. PICK d : d = AnswerTo(c, r, l) OBVIOUS
<1>2. CallForm(c) BY DEF CallsInv, CallOk
<1>3. Like(d, c) /\ d.by = c.by /\ d.reply = r BY <1>1, <1>2, LikeIt
<1>4. Kind(c) BY DEF FormInv
<1>5. Kind(d) /\ d.op # "input" /\ ~(d.op = "acquire" /\ d.reply = "ok")
  BY <1>3, <1>4 DEF Like, Kind
<1>6. calls' \in {calls \ {c}, (calls \ {c}) \union {d}} BY <1>1, Zenon DEF Answered, AnswerTo
<1> QED BY <1>5, <1>6 DEF QuietCalls

\* A keeper answers an input, and takes it to its PTY or does not.
LEMMA AnsweredInput ==
  ASSUME FormInv, CallsInv, NEW c \in Inputs, c.reply = "none", NEW r, r # "none",
         NEW l, Answered(c, r, l)
  PROVE  /\ \A d \in calls' : Kind(d)
         /\ \E cs : Becomes(c, cs) /\ \A d \in cs : d.reply # "none"
<1>1. PICK d : d = AnswerTo(c, r, l) OBVIOUS
<1>2. c \in calls /\ c.op = "input" /\ Kind(c) BY DEF FormInv, Inputs
<1>3. CallForm(c) BY <1>2 DEF CallsInv, CallOk
<1>4. Like(d, c) /\ d.by = c.by /\ d.reply = r BY <1>1, <1>3, LikeIt
<1>5. Kind(d) BY <1>2, <1>4 DEF Like, Kind
<1>6. c.by \in {"input", "gone"} BY <1>2 DEF Kind
<1>7. PICK cs : /\ cs = IF c.by = "gone" THEN {} ELSE {d}
                /\ calls' = (calls \ {c}) \union cs
  BY <1>1, Zenon DEF Answered, AnswerTo
<1>8. Becomes(c, cs) BY <1>4, <1>5, <1>6, <1>7 DEF Becomes
<1>9. \A e \in cs : e.reply # "none" BY <1>4, <1>7
<1>10. \A e \in calls' : Kind(e) BY <1>5, <1>7 DEF FormInv
<1> QED BY <1>8, <1>9, <1>10

LEMMA PtyLengths ==
  ASSUME PtyInv
  PROVE  \A s \in Session : Len(pty[s]) \in Nat
BY LenProperties DEF PtyInv, PtyOk

\* What a PTY received of an input is behind what it had.
LEMMA PtyReceives ==
  ASSUME PtyInv, CallsInv, NEW c \in calls, c.s \in Session,
         pty' = [pty EXCEPT ![c.s] = @ \o Received(c)]
  PROVE  /\ \A s \in Session : s # c.s => pty'[s] = pty[s]
         /\ \A i \in 1..Len(pty'[c.s]) :
              \/ i \in 1..Len(pty[c.s]) /\ pty'[c.s][i] = pty[c.s][i]
              \/ /\ i > Len(pty[c.s]) /\ i - Len(pty[c.s]) \in 1..Len(c.keys)
                 /\ pty'[c.s][i].key = c.keys[i - Len(pty[c.s])]
                 /\ pty'[c.s][i].gen = c.g
<1>1. pty'[c.s] = pty[c.s] \o Received(c) /\ \A s \in Session : s # c.s => pty'[s] = pty[s]
  BY DEF PtyInv
<1>2. c.keys \in Seq(DOMAIN want) BY DEF CallsInv, CallOk, KeysFor
<1>3. Len(c.keys) \in Nat /\ DOMAIN c.keys = 1..Len(c.keys) BY <1>2, LenProperties
<1>4. PICK r : r = Received(c) OBVIOUS
<1>5. r = [i \in 1..Len(c.keys) |-> [by |-> Self, key |-> c.keys[i], gen |-> c.g]]
  BY <1>3, <1>4 DEF Received
<1>6. PICK T : pty[c.s] \in Seq(T) BY DEF PtyInv, PtyOk
<1>7. PICK U : U = { [by |-> Self, key |-> c.keys[i], gen |-> c.g] : i \in 1..Len(c.keys) }
  OBVIOUS
<1>8. r \in Seq(U) BY <1>3, <1>5, <1>7, IsASeq
<1>9. Len(r) = Len(c.keys) /\ \A i \in 1..Len(r) : r[i].key = c.keys[i] /\ r[i].gen = c.g
  BY <1>3, <1>5
<1>10. PICK p, q : p = pty[c.s] /\ q = p \o r OBVIOUS
<1>11. p \in Seq(T \cup U) /\ r \in Seq(T \cup U) BY <1>6, <1>8, <1>10
<1>12. /\ Len(q) = Len(p) + Len(r)
       /\ \A i \in 1..Len(p) + Len(r) : q[i] = IF i <= Len(p) THEN p[i] ELSE r[i - Len(p)]
  BY <1>10, <1>11, ConcatProperties
<1>13. Len(p) \in Nat /\ Len(r) \in Nat BY <1>11, LenProperties
<1>14. ASSUME NEW i \in 1..Len(q)
       PROVE  \/ i \in 1..Len(p) /\ q[i] = p[i]
              \/ /\ i > Len(p) /\ i - Len(p) \in 1..Len(c.keys)
                 /\ q[i].key = c.keys[i - Len(p)] /\ q[i].gen = c.g
  <2>1. CASE i <= Len(p) BY <1>12, <1>13, <2>1
  <2>2. CASE i > Len(p)
    <3>1. i - Len(p) \in 1..Len(r) /\ q[i] = r[i - Len(p)] BY <1>12, <1>13, <2>2
    <3> QED BY <1>9, <2>2, <3>1
  <2> QED BY <1>12, <1>13, <2>1, <2>2
<1>15. pty'[c.s] = q /\ pty[c.s] = p BY <1>1, <1>4, <1>10, Zenon
<1> QED BY <1>1, <1>14, <1>15

\* A keeper serves a request.
LEMMA ServeOk ==
  ASSUME KeyInv, FormInv, mistaken \/ Fenced, NEW c \in calls, KeeperServes(c)
  PROVE  FormInv' /\ (mistaken' \/ Fenced')
<1>1. /\ UNCHANGED <<serial, active, generation, sel, gate, queue, running, inEpoch, mistaken>>
      /\ c.reply = "none"
  BY DEF KeeperServes, shown, input
<1>2. Here' = Here /\ GateStays /\ (sel'.stage = "clearing" => active' = Nowhere)
  BY <1>1 DEF Here, GateStays, FormInv
<1>3. CallsInv /\ PtyInv /\ KeeperForm /\ Kind(c) BY DEF KeyInv, FormInv
<1>4. c.op \in {"input", "acquire", "release"} => c.s \in Session BY <1>3 DEF Kind
<1>5. ASSUME c.op # "input", KeeperForm', GensStay, pty' = pty,
             NEW r, NEW l, Answered(c, r, l), c.op = "acquire" => r # "ok"
      PROVE  FormInv' /\ (mistaken' \/ Fenced')
  <2>1. QuietCalls BY <1>3, <1>5, AnsweredQuiet
  <2>2. PtyMine BY <1>5 DEF PtyMine
  <2> QED BY <1>1, <1>2, <1>5, <2>1, <2>2, QuietOk
<1>6. CASE ServeHello(c) \/ ServeCheck(c) \/ ServeResize(c)
  <2>1. keeper' = keeper /\ pty' = pty /\ c.op \in {"hello", "check", "resize"}
    BY <1>6 DEF ServeHello, ServeCheck, ServeResize, leases
  <2>2. KeeperForm' /\ GensStay BY <1>3, <2>1, KeepersStay
  <2>3. \E r, l : Answered(c, r, l) BY <1>6 DEF ServeHello, ServeCheck, ServeResize
  <2> QED BY <1>5, <2>1, <2>2, <2>3
<1>7. CASE ServeRelease(c)
  <2>1. c.op = "release" /\ pty' = pty BY <1>7 DEF ServeRelease
  <2>2. PICK no : no = FALSE OBVIOUS
  <2>3. keeper' = keeper \/ keeper' = [keeper EXCEPT ![c.s].held = no]
    BY <1>7, <2>2, Zenon DEF ServeRelease
  <2>4. KeeperForm' /\ GensStay
    <3>1. CASE keeper' = keeper BY <1>3, <3>1, KeepersStay
    <3>2. CASE keeper' = [keeper EXCEPT ![c.s].held = no]
      BY <1>3, <1>4, <2>1, <3>2, NotesAre
    <3> QED BY <2>3, <3>1, <3>2
  <2>5. \E r, l : Answered(c, r, l) BY <1>7 DEF ServeRelease
  <2> QED BY <1>5, <2>1, <2>4, <2>5
<1>8. CASE ServeAcquire(c)
  <2>0. c.op = "acquire" /\ c.s \in Session BY <1>4, <1>8 DEF ServeAcquire
  <2>1. CASE Answered(c, "refused", 0) /\ UNCHANGED leases
    <3>1. keeper' = keeper /\ pty' = pty BY <2>1 DEF leases
    <3>2. KeeperForm' /\ GensStay BY <1>3, <3>1, KeepersStay
    <3> QED BY <1>5, <2>0, <2>1, <3>1, <3>2
  <2>2. CASE Grant(c.s, Self) /\ Answered(c, "ok", keeper[c.s].gen + 1) /\ pty' = pty
    <3>1. PICK g : g = Gen(c.s) + 1 OBVIOUS
    <3>2. Gen(c.s) \in Nat /\ g \in Nat BY <1>3, <2>0, <3>1 DEF KeeperForm
    <3>3. PICK yes : yes = TRUE OBVIOUS
    <3>4. keeper' = [keeper EXCEPT ![c.s] = [gen |-> @.gen + 1, held |-> TRUE, last |-> 0,
                                             busy |-> TRUE]]
      BY <2>2 DEF Grant
    <3>5. keeper' = [keeper EXCEPT ![c.s] = [gen |-> g, held |-> yes, last |-> 0, busy |-> yes]]
      BY <3>1, <3>3, <3>4, Zenon DEF Gen
    <3>6. /\ KeeperForm' /\ keeper'[c.s].gen = g
          /\ \A r \in Session : r # c.s => keeper'[r].gen = keeper[r].gen
      BY <1>3, <2>0, <3>2, <3>5, KeeperChanges
    <3>7. PICK d : d = AnswerTo(c, "ok", g) OBVIOUS
    <3>8. CallForm(c) BY <1>3 DEF CallsInv, CallOk
    <3>9. Like(d, c) /\ d.by = c.by /\ d.reply = "ok" /\ d.lease = g BY <3>7, <3>8, LikeIt
    <3>10. calls' \in {calls \ {c}, (calls \ {c}) \union {d}}
      BY <2>2, <3>1, <3>7, Zenon DEF Answered, AnswerTo, Gen
    <3>11. Kind(d) BY <1>3, <2>0, <3>2, <3>9 DEF Like, Kind
    <3>12. \A e \in calls' : Kind(e) BY <3>10, <3>11 DEF FormInv
    <3>13. FormInv' BY <1>1, <1>2, <3>6, <3>12 DEF FormInv
    <3>14. Inputs' = Inputs BY <2>0, <3>9, <3>10 DEF Inputs, Like
    <3>15. OnWire' = OnWire
      <4>1. c.by # "input" BY <1>3, <2>0 DEF Kind
      <4> QED BY <3>9, <3>10, <4>1 DEF OnWire
    <3>16. /\ \A e \in Grants' : e \in Grants \/ e = d
           /\ d.s = c.s
      BY <3>9, <3>10 DEF Grants, Like
    <3>17. Fenced => Fenced'
      BY <1>1, <2>0, <2>2, <3>1, <3>6, <3>9, <3>14, <3>15, <3>16, GrantStep
    <3> QED BY <1>1, <3>13, <3>17, Zenon
  <2> QED BY <1>8, <2>1, <2>2 DEF ServeAcquire
<1>9. CASE ServeInput(c)
  <2>1. c \in Inputs /\ c.s \in Session BY <1>4, <1>9 DEF ServeInput, Inputs
  <2>2. PICK r : /\ r # "none" /\ Answered(c, r, 0)
                 /\ \/ UNCHANGED <<keeper, pty>>
                    \/ /\ Honours(c.s, c.g)
                       /\ pty' = [pty EXCEPT ![c.s] = @ \o Received(c)]
                       /\ keeper' = [keeper EXCEPT ![c.s].last = c.n, ![c.s].busy = TRUE]
    BY <1>9, Zenon DEF ServeInput
  <2>3. PICK cs : /\ Becomes(c, cs) /\ \A d \in cs : d.reply # "none"
                  /\ \A d \in calls' : Kind(d)
    BY <1>1, <1>3, <2>1, <2>2, AnsweredInput
  <2>4. KeeperForm' /\ GensStay
    <3>1. CASE keeper' = keeper BY <1>3, <3>1, KeepersStay
    <3>2. CASE keeper' = [keeper EXCEPT ![c.s].last = c.n, ![c.s].busy = TRUE]
      <4>1. PICK yes, n : yes = TRUE /\ n = c.n OBVIOUS
      <4>2. keeper' = [keeper EXCEPT ![c.s].last = n, ![c.s].busy = yes]
        BY <3>2, <4>1, Zenon
      <4> QED BY <1>3, <2>1, <4>2, NotesAre
    <3> QED BY <2>2, <3>1, <3>2
  <2>5. Receives(c, cs)
    <3>1. CASE pty' = pty BY <3>1 DEF Receives
    <3>2. CASE Honours(c.s, c.g) /\ pty' = [pty EXCEPT ![c.s] = @ \o Received(c)]
      <4>1. c.g = Gen(c.s) BY <3>2 DEF Honours, Gen
      <4>2. /\ \A s \in Session : s # c.s => pty'[s] = pty[s]
            /\ \A i \in 1..Len(pty'[c.s]) :
                 \/ i \in 1..Len(pty[c.s]) /\ pty'[c.s][i] = pty[c.s][i]
                 \/ /\ i > Len(pty[c.s]) /\ i - Len(pty[c.s]) \in 1..Len(c.keys)
                    /\ pty'[c.s][i].key = c.keys[i - Len(pty[c.s])]
        BY <1>3, <2>1, <3>2, PtyReceives
      <4> QED BY <1>1, <2>3, <4>1, <4>2 DEF Receives
    <3> QED BY <2>2, <3>1, <3>2
  <2>6. FormInv' BY <1>1, <1>2, <2>3, <2>4 DEF FormInv
  <2>7. \A s \in Session : Len(pty[s]) \in Nat BY <1>3, PtyLengths
  <2>8. Fenced => Fenced' BY <1>1, <2>1, <2>3, <2>4, <2>5, <2>7, AnswerStep
  <2> QED BY <1>1, <2>6, <2>8, Zenon
<1> QED BY <1>6, <1>7, <1>8, <1>9 DEF KeeperServes

\* It says that an input was not accepted.
LEMMA BlockedOk ==
  ASSUME KeyInv, FormInv, mistaken \/ Fenced, NEW c \in calls, KeeperIsBlocked(c)
  PROVE  FormInv' /\ (mistaken' \/ Fenced')
<1>1. /\ UNCHANGED <<keeper, pty, serial, active, generation, sel, gate, queue, running,
                     inEpoch, mistaken>>
      /\ c.reply = "none" /\ c.op = "input" /\ Answered(c, "blocked", 0)
  BY DEF KeeperIsBlocked, leases, shown, input
<1>2. CallsInv /\ PtyInv /\ KeeperForm BY DEF KeyInv, FormInv
<1>3. c \in Inputs BY <1>1 DEF Inputs
<1>4. PICK cs : Becomes(c, cs) /\ \A d \in calls' : Kind(d)
  BY <1>1, <1>2, <1>3, AnsweredInput
<1>5. KeeperForm' /\ GensStay BY <1>1, <1>2, KeepersStay
<1>6. Receives(c, cs) BY <1>1 DEF Receives
<1>7. FormInv' BY <1>1, <1>4, <1>5 DEF FormInv
<1>8. \A s \in Session : Len(pty[s]) \in Nat BY <1>2, PtyLengths
<1>9. Fenced => Fenced' BY <1>1, <1>3, <1>4, <1>5, <1>6, <1>8, AnswerStep
<1> QED BY <1>1, <1>7, <1>9, Zenon

\* The view gives up on a request.
LEMMA TimesOutOk ==
  ASSUME KeyInv, FormInv, mistaken \/ Fenced, NEW c \in calls, TimesOut(c)
  PROVE  FormInv' /\ (mistaken' \/ Fenced')
<1>1. /\ UNCHANGED <<keeper, pty, serial, active, generation, sel, gate, queue, running,
                     inEpoch, mistaken>>
      /\ c.by # "gone"
  BY DEF TimesOut, leases, shown, input
<1>2. CallsInv /\ PtyInv /\ KeeperForm /\ Kind(c) BY DEF KeyInv, FormInv
<1>3. PICK e, d : e = Failed(c) /\ d = Gone(c) OBVIOUS
<1>4. CallForm(c) BY <1>2 DEF CallsInv, CallOk
<1>5. /\ Like(e, c) /\ e.by = c.by /\ e.reply = "error"
      /\ Like(d, c) /\ d.by = "gone" /\ d.reply = c.reply
  BY <1>3, <1>4, LikeIt
<1>6. PICK cs : /\ cs = {e} \/ (cs = {e, d} /\ c.reply = "none")
                /\ calls' = (calls \ {c}) \union cs
  <2>1. PICK late \in {{}, {d}} :
          /\ late = {} \/ c.reply = "none"
          /\ calls' = (calls \ {c}) \union {e} \union late
    BY <1>3, Zenon DEF TimesOut, Failed, Gone
  <2>2. PICK cs : cs = {e} \union late OBVIOUS
  <2> QED BY <2>1, <2>2
<1>7. Kind(e) BY <1>2, <1>5 DEF Kind, Like
<1>8. c.reply = "none" => Kind(d) BY <1>2, <1>5 DEF Kind, Like
<1>9. CASE c.op # "input"
  <2>1. \A x \in cs : Kind(x) /\ x.op # "input" /\ ~(x.op = "acquire" /\ x.reply = "ok")
    BY <1>5, <1>6, <1>7, <1>8, <1>9 DEF Like
  <2>2. QuietCalls BY <1>6, <1>9, <2>1 DEF QuietCalls
  <2>3. Here' = Here /\ GateStays /\ (sel'.stage = "clearing" => active' = Nowhere)
    BY <1>1 DEF Here, GateStays, FormInv
  <2> QED BY <1>1, <2>2, <2>3, ViewOk
<1>10. CASE c.op = "input"
  <2>1. c \in Inputs /\ c.by = "input" BY <1>1, <1>2, <1>10 DEF Inputs, Kind
  <2>2. Becomes(c, cs) BY <1>5, <1>6, <1>7, <1>8, <2>1 DEF Becomes
  <2>3. KeeperForm' /\ GensStay BY <1>1, <1>2, KeepersStay
  <2>4. Receives(c, cs) BY <1>1 DEF Receives
  <2>5. \A x \in calls' : Kind(x) BY <1>6, <1>7, <1>8 DEF FormInv
  <2>6. FormInv' BY <1>1, <2>3, <2>5 DEF FormInv
  <2>7. \A s \in Session : Len(pty[s]) \in Nat BY <1>2, PtyLengths
  <2>8. Fenced => Fenced' BY <1>1, <2>1, <2>2, <2>3, <2>4, <2>7, AnswerStep
  <2> QED BY <1>1, <2>6, <2>8, Zenon
<1> QED BY <1>9, <1>10

\* What the other view types, this view has not sent.
LEMMA OtherReceives ==
  ASSUME PtyInv, NEW s \in Session, OtherTypes(s)
  PROVE  PtyMine
<1>1. PICK e : e = [by |-> Other, key |-> 0, gen |-> others[s]] OBVIOUS
<1>2. pty' = [pty EXCEPT ![s] = Append(@, e)] BY <1>1 DEF OtherTypes
<1>3. e.by # Self BY <1>1, OtherIsNotSelf
<1>4. pty'[s] = Append(pty[s], e) /\ \A r \in Session : r # s => pty'[r] = pty[r]
  BY <1>2 DEF PtyInv
<1>5. PICK T : pty[s] \in Seq(T) BY DEF PtyInv, PtyOk
<1>6. PICK p, q : p = pty[s] /\ q = Append(p, e) OBVIOUS
<1>7. p \in Seq(T \cup {e}) BY <1>5, <1>6
<1>8. /\ Len(q) = Len(p) + 1 /\ Len(p) \in Nat /\ q[Len(p) + 1] = e
      /\ \A i \in 1..Len(p) : q[i] = p[i]
  BY <1>6, <1>7, AppendProperties, LenProperties
<1>9. \A i \in 1..Len(q) : q[i].by = Self => i \in 1..Len(p) /\ q[i] = p[i]
  BY <1>3, <1>8
<1>10. pty'[s] = q /\ pty[s] = p BY <1>4, <1>6, Zenon
<1> QED BY <1>4, <1>9, <1>10 DEF PtyMine

\* The other view takes a lease, types and gives it back, or is quiet.
LEMMA OthersOk ==
  ASSUME KeyInv, FormInv, mistaken \/ Fenced, NEW s \in Session, OtherMoves(s) \/ HolderGoesQuiet(s)
  PROVE  FormInv' /\ (mistaken' \/ Fenced')
<1>1. UNCHANGED <<calls, serial, active, generation, sel, gate, queue, running, inEpoch, mistaken>>
  BY DEF OtherMoves, HolderGoesQuiet, shown, input
<1>2. Here' = Here /\ GateStays /\ (sel'.stage = "clearing" => active' = Nowhere)
  BY <1>1 DEF Here, GateStays, FormInv
<1>3. PtyInv /\ KeeperForm BY DEF KeyInv, FormInv
<1>4. QuietCalls BY <1>1 DEF QuietCalls
<1>5. PICK no, yes : no = FALSE /\ yes = TRUE OBVIOUS
<1>6. CASE OtherTakes(s)
  <2>1. PICK g : g = Gen(s) + 1 OBVIOUS
  <2>2. Gen(s) \in Nat /\ g \in Nat BY <1>3, <2>1 DEF KeeperForm
  <2>3. keeper' = [keeper EXCEPT ![s] = [gen |-> @.gen + 1, held |-> TRUE, last |-> 0,
                                         busy |-> TRUE]] /\ pty' = pty
    BY <1>6 DEF OtherTakes, Grant
  <2>4. keeper' = [keeper EXCEPT ![s] = [gen |-> g, held |-> yes, last |-> 0, busy |-> yes]]
    BY <1>5, <2>1, <2>3, Zenon DEF Gen
  <2>5. /\ KeeperForm' /\ keeper'[s].gen = g
        /\ \A r \in Session : r # s => keeper'[r].gen = keeper[r].gen
    BY <1>3, <2>2, <2>4, KeeperChanges
  <2>6. FormInv' BY <1>1, <1>2, <2>5 DEF FormInv
  <2>7. Inputs' = Inputs /\ OnWire' = OnWire /\ Grants' = Grants
    BY <1>1 DEF Inputs, OnWire, Grants
  <2>8. Fenced => Fenced' BY <1>1, <2>1, <2>3, <2>5, <2>7, GrantStep
  <2> QED BY <1>1, <2>6, <2>8, Zenon
<1>7. CASE OtherGivesBack(s) \/ HolderGoesQuiet(s)
  <2>1. pty' = pty BY <1>7 DEF OtherGivesBack, HolderGoesQuiet
  <2>2. \/ keeper' = [keeper EXCEPT ![s].held = no]
        \/ keeper' = [keeper EXCEPT ![s].busy = no]
    BY <1>5, <1>7, Zenon DEF OtherGivesBack, HolderGoesQuiet
  <2>3. KeeperForm' /\ GensStay BY <1>3, <2>2, NotesAre
  <2>4. PtyMine BY <2>1 DEF PtyMine
  <2> QED BY <1>1, <1>2, <1>4, <2>3, <2>4, QuietOk
<1>8. CASE OtherTypes(s)
  <2>1. keeper' = [keeper EXCEPT ![s].last = 1, ![s].busy = yes]
    BY <1>5, <1>8, Zenon DEF OtherTypes
  <2>2. KeeperForm' /\ GensStay BY <1>3, <2>1, NotesAre
  <2>3. PtyMine BY <1>3, <1>8, OtherReceives
  <2> QED BY <1>1, <1>2, <1>4, <2>2, <2>3, QuietOk
<1> QED BY <1>6, <1>7, <1>8 DEF OtherMoves

\* Control is given back.
LEMMA GiveUpStops ==
  ASSUME KeyInv, FormInv, NEW by \in {"select", "gone"}, GiveUpControl(by)
  PROVE  /\ Inputs' = Inputs /\ OnWire' = OnWire /\ Grants' \subseteq Grants
         /\ \A c \in calls' : Kind(c) /\ (c \in calls \/ c.op = "release")
         /\ queue' = <<>> /\ generation' = 0 /\ inEpoch' = inEpoch + 1 /\ running' = running
<1>1. queue' = <<>> /\ generation' = 0 /\ inEpoch' = inEpoch + 1 /\ running' = running
  BY DEF GiveUpControl, ResetInput
<1>2. PICK a : a = AskAbout(by, "release", active, serial, generation) OBVIOUS
<1>3. a.by = by /\ a.op = "release" /\ a.s = active BY <1>2, AskIs
<1>4. active # Nowhere => active \in Session BY DEF KeyInv, SelInv, Place
<1>5. active # Nowhere => Kind(a) BY <1>3, <1>4 DEF Kind
<1>6. PICK old : old = { IF c.by = "select" THEN Gone(c) ELSE c : c \in
                          { d \in calls : ~(d.by = "select" /\ d.reply # "none") } }
  OBVIOUS
<1>7. \A c \in calls : Kind(c) /\ CallForm(c)
  BY DEF FormInv, KeyInv, CallsInv, CallOk
<1>8. ASSUME NEW c \in calls, c.by = "select"
      PROVE  c.op = "release" /\ Gone(c).op = "release" /\ Gone(c).by = "gone" /\ Kind(Gone(c))
  <2>1. PICK d : d = Gone(c) OBVIOUS
  <2>2. Like(d, c) /\ d.by = "gone" BY <1>7, <2>1, LikeIt
  <2>3. c.op = "release" /\ c.s \in Session BY <1>7, <1>8 DEF Kind
  <2> QED BY <2>1, <2>2, <2>3 DEF Like, Kind
<1>9. /\ \A d \in old : d \in calls \/ (d.op = "release" /\ d.by = "gone" /\ Kind(d))
      /\ \A c \in calls : c.by # "select" => c \in old
  BY <1>6, <1>8
<1>10. PICK drop : /\ drop = IF by = "select" THEN old ELSE calls
                   /\ calls' = IF active # Nowhere /\ generation # 0
                               THEN drop \union {a} ELSE drop
  BY <1>2, <1>6, Zenon DEF GiveUpControl, Gone, AskAbout
<1>11. /\ \A c \in calls' : c \in calls \/ (c.op = "release" /\ c.by # "input" /\ Kind(c))
       /\ \A c \in calls : c.by # "select" => c \in calls'
  BY <1>3, <1>5, <1>9, <1>10
<1>12. \A c \in calls : c.by = "select" => c.op = "release" BY <1>8
<1>13. Inputs' = Inputs BY <1>11, <1>12 DEF Inputs
<1>14. OnWire' = OnWire BY <1>11, <1>12 DEF OnWire
<1>15. Grants' \subseteq Grants BY <1>11 DEF Grants
<1>16. \A c \in calls' : Kind(c) /\ (c \in calls \/ c.op = "release") BY <1>7, <1>11
<1> QED BY <1>1, <1>13, <1>14, <1>15, <1>16

\* Another session is selected, the selection goes on, or control is given back.
LEMMA StopsOk ==
  ASSUME KeyInv, FormInv, mistaken \/ Fenced,
         (\E s \in Session : Select(s)) \/ (\E c \in calls : SelectReleased(c)) \/ Detach
  PROVE  FormInv' /\ (mistaken' \/ Fenced')
<1>1. UNCHANGED <<keeper, pty, gate, mistaken>> BY DEF Select, SelectReleased, Detach, leases
<1>2. KeeperForm' /\ GensStay BY <1>1, KeepersStay DEF FormInv
<1>3. ASSUME Inputs' = Inputs, OnWire' = OnWire, Grants' \subseteq Grants,
             \A c \in calls' : Kind(c), queue' = <<>>, generation' = 0,
             inEpoch' = inEpoch + 1, running' = running, GateStays,
             sel'.stage = "clearing" => active' = Nowhere
      PROVE  FormInv' /\ (mistaken' \/ Fenced')
  <2>1. FormInv' BY <1>2, <1>3 DEF FormInv
  <2>2. Fenced => (running' <=> OnWire' # {}) BY <1>3 DEF Fenced, WireInv
  <2>3. Fenced => Fenced' BY <1>1, <1>2, <1>3, <2>2, StopStep
  <2> QED BY <1>1, <2>1, <2>3, Zenon
<1>4. ASSUME NEW s \in Session, Select(s) PROVE FormInv' /\ (mistaken' \/ Fenced')
  <2>1. GiveUpControl("select") BY <1>4 DEF Select
  <2>2. GateStays
    <3>1. serial' = serial + 1 /\ serial \in Nat /\ gate.epoch \in Nat /\ gate.epoch <= serial
      BY <1>4 DEF Select, KeyInv, GateInv
    <3> QED BY <1>1, <3>1 DEF GateStays
  <2>3. sel'.stage = "clearing" => active' = Nowhere BY <1>4 DEF Select
  <2> QED BY <1>3, <2>1, <2>2, <2>3, GiveUpStops
<1>5. CASE Detach
  <2>1. GiveUpControl("gone") /\ UNCHANGED <<serial, active, sel>>
    BY <1>5 DEF Detach, shown
  <2>2. GateStays BY <1>1, <2>1 DEF GateStays
  <2>3. sel'.stage = "clearing" => active' = Nowhere BY <2>1 DEF FormInv
  <2> QED BY <1>3, <2>1, <2>2, <2>3, GiveUpStops
<1>6. ASSUME NEW c \in calls, SelectReleased(c) PROVE FormInv' /\ (mistaken' \/ Fenced')
  <2>1. /\ calls' = calls \ {c} /\ c.by = "select" /\ active' = Nowhere /\ generation' = 0
        /\ queue' = <<>> /\ inEpoch' = inEpoch + 1 /\ running' = running /\ serial' = serial
    BY <1>6 DEF SelectReleased, Clear, ResetInput
  <2>2. c.op = "release" BY <2>1 DEF FormInv, Kind
  <2>3. QuietCalls BY <2>1, <2>2 DEF QuietCalls
  <2>4. GateStays BY <1>1, <2>1 DEF GateStays
  <2> QED BY <1>3, <2>1, <2>3, <2>4, CallsQuiet
<1> QED BY <1>4, <1>5, <1>6

\* The selection goes on to show its session, which is the one that will be shown.
LEMMA HereStays ==
  ASSUME KeyInv, FormInv, SelectShows \/ SelectEnds
  PROVE  Here' = Here /\ sel'.stage # "clearing"
<1>1. sel = [item |-> sel.item, stage |-> sel.stage] BY DEF KeyInv, SelInv
<1>2. CASE SelectShows
  <2>1. active = Nowhere /\ active' = sel.item /\ sel' = [sel EXCEPT !.stage = "asking"]
    BY <1>2 DEF SelectShows, FormInv
  <2>2. sel'.item = sel.item /\ sel'.stage = "asking" BY <1>1, <2>1
  <2> QED BY <2>1, <2>2 DEF Here
<1>3. CASE SelectEnds
  <2>1. active' = active /\ sel' = [sel EXCEPT !.stage = "idle"]
    BY <1>3 DEF SelectEnds, shown
  <2>2. sel'.item = sel.item /\ sel'.stage = "idle" BY <1>1, <2>1
  <2> QED BY <2>1, <2>2 DEF Here
<1> QED BY <1>2, <1>3

LEMMA ShowsOk ==
  ASSUME KeyInv, FormInv, mistaken \/ Fenced, SelectShows \/ SelectEnds
  PROVE  FormInv' /\ (mistaken' \/ Fenced')
<1>1. UNCHANGED <<keeper, pty, queue, running, inEpoch, mistaken, calls, gate, serial, generation>>
  BY DEF SelectShows, SelectEnds, leases, shown, input
<1>2. Here' = Here /\ sel'.stage # "clearing" BY HereStays
<1>3. QuietCalls /\ GateStays BY <1>1 DEF QuietCalls, GateStays
<1> QED BY <1>1, <1>2, <1>3, ViewOk

\* Requests that are no inputs come and go.
LEMMA RequestsOk ==
  ASSUME FormInv, mistaken \/ Fenced, QuietCalls, GateStays,
         UNCHANGED <<keeper, pty, queue, running, inEpoch, mistaken, active, sel>>,
         generation' = 0 \/ generation' = generation
  PROVE  FormInv' /\ (mistaken' \/ Fenced')
<1>1. Here' = Here /\ (sel'.stage = "clearing" => active' = Nowhere) BY DEF Here, FormInv
<1> QED BY <1>1, ViewOk

LEMMA TakeQuiet ==
  ASSUME KeyInv, NEW c \in Control, NEW key, NEW force, NEW cs \in SUBSET calls,
         TakeControl(c, key, force, cs), \A d \in calls : d \in cs \/ d.op # "input"
  PROVE  QuietCalls
<1>1. PICK a : a = AskTaking(c, "acquire", active, serial, force) OBVIOUS
<1>2. a.by = c /\ a.op = "acquire" /\ a.s = active /\ a.reply = "none" BY <1>1, AskIs
<1>3. active # Nowhere => active \in Session BY DEF KeyInv, SelInv, Place
<1>4. active # Nowhere => Kind(a) BY <1>2, <1>3 DEF Kind, Control
<1>5. calls' = cs \/ (active # Nowhere /\ calls' = cs \union {a})
  BY <1>1, Zenon DEF TakeControl, AskTaking
<1> QED BY <1>2, <1>4, <1>5 DEF QuietCalls

LEMMA TapQuiet ==
  ASSUME NEW key, StartTap(key)
  PROVE  QuietCalls
<1>1. PICK a : a = Ask("tap", "hello", active, serial) OBVIOUS
<1>2. a.by = "tap" /\ a.op = "hello" BY <1>1, AskIs
<1>3. Kind(a) BY <1>2 DEF Kind
<1>4. calls' = calls \union {a} BY <1>1 DEF StartTap
<1> QED BY <1>2, <1>3, <1>4 DEF QuietCalls

\* A tap, the button, the poll and the threads that take control.
LEMMA ThreadsOk ==
  ASSUME KeyInv, FormInv, mistaken \/ Fenced,
         \/ Tap \/ Push \/ Poll \/ GateAsks
         \/ \E c \in Control : Resize(c)
         \/ \E c \in calls : TapGreeted(c) \/ AcquireFails(c) \/ ControlSettles(c)
  PROVE  FormInv' /\ (mistaken' \/ Fenced')
<1>1. /\ UNCHANGED <<keeper, pty, queue, running, inEpoch, mistaken, active, sel, serial>>
      /\ generation' = 0 \/ generation' = generation
      /\ gate' = gate \/ (gate.stage = "waiting" /\ \E x : gate' = [gate EXCEPT !.stage = x])
  BY DEF Tap, Push, Poll, PollAsks, PollReturns, GateAsks, Resize, TapGreeted, AcquireFails,
         ControlSettles, leases, shown, input
<1>2. GateStays
  <2>1. CASE gate' = gate BY <1>1, <2>1 DEF GateStays
  <2>2. ASSUME NEW x, gate.stage = "waiting", gate' = [gate EXCEPT !.stage = x] PROVE GateStays
    <3>1. gate' = [stage |-> x, epoch |-> gate.epoch, keys |-> gate.keys]
      BY <2>2 DEF KeyInv, GateInv
    <3> QED BY <1>1, <2>2, <3>1 DEF GateStays
  <2> QED BY <1>1, <2>1, <2>2
<1>3. SUFFICES QuietCalls BY <1>1, <1>2, RequestsOk
<1>4. CASE Tap BY <1>4, TapQuiet DEF Tap
<1>5. CASE Push BY <1>5, TakeQuiet DEF Push, Control
<1>6. CASE Poll
  <2>1. CASE PollAsks
    <3>1. PICK a : a = AskAbout("poll", "check", active, serial, generation) OBVIOUS
    <3>2. a.by = "poll" /\ a.op = "check" BY <3>1, AskIs
    <3>3. Kind(a) BY <3>2 DEF Kind
    <3>4. calls' = calls \union {a} BY <2>1, <3>1, Zenon DEF PollAsks, AskAbout
    <3> QED BY <3>2, <3>3, <3>4 DEF QuietCalls
  <2>2. ASSUME NEW c \in calls, PollReturns(c) PROVE QuietCalls
    <3>1. c.by = "poll" /\ calls' = calls \ {c} BY <2>2 DEF PollReturns
    <3>2. c.op # "input" BY <3>1 DEF FormInv, Kind
    <3> QED BY <3>1, <3>2 DEF QuietCalls
  <2> QED BY <1>6, <2>1, <2>2 DEF Poll
<1>7. CASE GateAsks
  <2>1. CASE calls' = calls BY <2>1 DEF QuietCalls
  <2>2. CASE \E key : StartTap(key) BY <2>2, TapQuiet
  <2> QED BY <1>7, <2>1, <2>2 DEF GateAsks
<1>8. ASSUME NEW c \in Control, Resize(c) PROVE QuietCalls
  <2>1. PICK a : a = AskAbout(c, "resize", ctl[c].s, serial, ctl[c].g) OBVIOUS
  <2>2. a.by = c /\ a.op = "resize" BY <2>1, AskIs
  <2>3. Kind(a) BY <2>2 DEF Kind, Control
  <2>4. calls' = calls \/ calls' = calls \union {a}
    BY <1>8, <2>1, Zenon DEF Resize, AskAbout
  <2> QED BY <2>2, <2>3, <2>4 DEF QuietCalls
<1>9. ASSUME NEW c \in calls, TapGreeted(c) PROVE QuietCalls
  <2>1. c.op = "hello" BY <1>9 DEF TapGreeted
  <2>2. CASE calls' = calls \ {c} BY <2>1, <2>2 DEF QuietCalls
  <2>3. CASE \E key, force : TakeControl("tap", key, force, calls \ {c})
    BY <2>1, <2>3, TakeQuiet DEF Control
  <2> QED BY <1>9, <2>2, <2>3 DEF TapGreeted
<1>10. ASSUME NEW c \in calls, AcquireFails(c) PROVE QuietCalls
  <2>1. c.op = "acquire" /\ c.by \in Control /\ c.s \in Session
    BY <1>10 DEF AcquireFails, FormInv, Kind
  <2>2. PICK yes : yes = TRUE OBVIOUS
  <2>3. PICK a : a = AskTaking(c.by, "acquire", c.s, c.epoch, yes) OBVIOUS
  <2>4. a.by = c.by /\ a.op = "acquire" /\ a.s = c.s /\ a.reply = "none" BY <2>3, AskIs
  <2>5. Kind(a) BY <2>1, <2>4 DEF Kind, Control
  <2>6. calls' = calls \ {c} \/ calls' = (calls \ {c}) \union {a}
    BY <1>10, <2>2, <2>3, Zenon DEF AcquireFails, AskTaking
  <2> QED BY <2>1, <2>4, <2>5, <2>6 DEF QuietCalls
<1>11. ASSUME NEW c \in calls, ControlSettles(c) PROVE QuietCalls
  BY <1>11 DEF ControlSettles, QuietCalls
<1> QED BY <1>4, <1>5, <1>6, <1>7, <1>8, <1>9, <1>10, <1>11

\* A lease that is granted is given back, or taken.
LEMMA AcquiredOk ==
  ASSUME KeyInv, FormInv, mistaken \/ Fenced, NEW c \in calls, Acquired(c)
  PROVE  FormInv' /\ (mistaken' \/ Fenced')
<1>1. /\ UNCHANGED <<keeper, pty, queue, running, inEpoch, active, sel, serial, gate>>
      /\ c.op = "acquire" /\ c.reply = "ok" /\ c.by \in Control
  BY DEF Acquired, leases, shown, input
<1>2. c.s \in Session /\ c.lease \in Nat /\ KeeperForm BY <1>1 DEF FormInv, Kind
<1>3. GateStays BY <1>1 DEF GateStays
<1>4. CASE c.epoch # serial
  <2>1. PICK a : a = AskAbout(c.by, "release", c.s, c.epoch, c.lease) OBVIOUS
  <2>2. a.by = c.by /\ a.op = "release" /\ a.s = c.s BY <2>1, AskIs
  <2>3. Kind(a) BY <1>1, <1>2, <2>2 DEF Kind, Control
  <2>4. calls' = (calls \ {c}) \union {a} /\ generation' = generation /\ mistaken' = mistaken
    BY <1>4, <2>1, Zenon DEF Acquired, AskAbout
  <2>5. QuietCalls BY <1>1, <2>2, <2>3, <2>4 DEF QuietCalls
  <2> QED BY <1>1, <1>3, <2>4, <2>5, RequestsOk
<1>5. CASE c.epoch = serial
  <2>1. /\ calls' = calls \ {c} /\ generation' = c.lease
        /\ mistaken' = (mistaken \/ c.s # Here)
    BY <1>5 DEF Acquired
  <2>2. KeeperForm' BY <1>1, <1>2, KeepersStay
  <2>3. FormInv' BY <1>1, <1>2, <2>1, <2>2 DEF FormInv
  <2>4. c.s = Here /\ Fenced => Fenced'
    <3>1. c \in Grants BY <1>1 DEF Grants
    <3> QED BY <1>1, <2>1, <3>1, TakenStep
  <2> QED BY <2>1, <2>3, <2>4, Zenon
<1> QED BY <1>4, <1>5

\* The loop goes on with what it has.
LEMMA SendForm ==
  ASSUME FormInv, NEW q, NEW n, NEW cs \in SUBSET calls, SendOn(q, generation, n, cs),
         active \in Place, UNCHANGED <<keeper, active, sel>>
  PROVE  FormInv'
<1>1. KeeperForm' BY KeepersStay DEF FormInv
<1>2. PICK c : c = NewInput(active, inEpoch, generation, n, q) OBVIOUS
<1>3. /\ c.by = "input" /\ c.op = "input" /\ c.s = active /\ c.epoch = inEpoch
      /\ c.reply = "none" /\ c.g = generation /\ c.keys = q
  BY <1>2, InputIs
<1>4. /\ calls' = cs \/ (active # Nowhere /\ calls' = cs \union {c})
      /\ generation' \in {0, generation} /\ inEpoch' \in {inEpoch, inEpoch + 1}
  BY <1>2, Zenon DEF SendOn, NewInput
<1>5. active # Nowhere => Kind(c) BY <1>3 DEF FormInv, Kind, Place
<1>6. \A d \in calls' : Kind(d) BY <1>4, <1>5 DEF FormInv
<1>7. generation' \in Nat /\ inEpoch' \in Nat BY <1>4 DEF FormInv
<1> QED BY <1>1, <1>6, <1>7 DEF FormInv

LEMMA SubmitForm ==
  ASSUME FormInv, NEW ks, Submit(ks), active \in Place, UNCHANGED <<keeper, active, sel>>
  PROVE  FormInv'
<1>1. KeeperForm' BY KeepersStay DEF FormInv
<1>2. CASE UNCHANGED <<calls, generation, inEpoch>> BY <1>1, <1>2 DEF FormInv
<1>3. CASE SendOn(queue \o ks, generation, sequence, calls) BY <1>3, SendForm
<1> QED BY <1>2, <1>3 DEF Submit, input

\* The keys behind the first n.
LEMMA RestIs ==
  ASSUME NEW T, NEW ks \in Seq(T), NEW n \in Nat, NEW r, r = SubSeq(ks, n + 1, Len(ks))
  PROVE  \A i \in 1..Len(r) : n + i \in 1..Len(ks) /\ r[i] = ks[n + i]
<1>1. Len(ks) \in Nat BY LenProperties
<1>2. \A i \in (n + 1)..Len(ks) : ks[i] \in T
  <2> TAKE i \in (n + 1)..Len(ks)
  <2>1. i \in 1..Len(ks) BY <1>1
  <2> QED BY <2>1, ElementOfSeq
<1>3. /\ Len(r) = IF n + 1 <= Len(ks) THEN Len(ks) - (n + 1) + 1 ELSE 0
      /\ \A i \in 1..Len(ks) - (n + 1) + 1 : r[i] = ks[n + 1 + i - 1]
  <2>1. n + 1 \in Int /\ Len(ks) \in Int BY <1>1
  <2> QED BY <1>1, <1>2, <2>1, SubSeqProperties
<1>4. ASSUME NEW i \in 1..Len(r) PROVE n + i \in 1..Len(ks) /\ r[i] = ks[n + i]
  <2>1. i \in 1..Len(ks) - (n + 1) + 1 /\ n + i \in 1..Len(ks) BY <1>1, <1>3
  <2>2. n + 1 + i - 1 = n + i BY <1>1
  <2> QED BY <1>3, <2>1, <2>2
<1> QED BY <1>4

\* The answer to an input.
LEMMA InputReturnsOk ==
  ASSUME KeyInv, FormInv, mistaken \/ Fenced, NEW c \in calls, InputReturns(c)
  PROVE  FormInv' /\ (mistaken' \/ Fenced')
<1>1. /\ UNCHANGED <<keeper, pty, active, sel, serial, gate, mistaken>>
      /\ c.by = "input" /\ c.reply # "none"
  BY DEF InputReturns, leases, shown
<1>2. GensStay /\ GateStays BY <1>1 DEF GensStay, GateStays
<1>3. active \in Place BY DEF KeyInv, SelInv
<1>4. CASE c.epoch = inEpoch /\ c.reply # "ok"
  <2>1. /\ queue' = <<>> /\ ~running' /\ inEpoch' = inEpoch + 1 /\ generation' = 0
        /\ calls' = calls \ {c}
    BY <1>4 DEF InputReturns
  <2>2. KeeperForm' BY <1>1, KeepersStay DEF FormInv
  <2>3. FormInv' BY <1>1, <2>1, <2>2 DEF FormInv
  <2>4. Fenced => Fenced'
    <3> SUFFICES ASSUME Fenced PROVE Fenced' OBVIOUS
    <3>1. OnWire' = {} BY <1>1, <2>1 DEF OnWire, Fenced, WireInv
    <3>2. Inputs' \subseteq Inputs /\ OnWire' \subseteq OnWire /\ Grants' \subseteq Grants
      BY <2>1, <3>1 DEF Inputs, Grants
    <3> QED BY <1>1, <1>2, <2>1, <3>1, <3>2, StopStep
  <2> QED BY <1>1, <2>3, <2>4, Zenon
<1>5. CASE ~(c.epoch = inEpoch /\ c.reply # "ok")
  <2>1. PICK m : m = Len(c.keys) OBVIOUS
  <2>2. m \in Nat
    <3>1. c.keys \in Seq(DOMAIN want) BY DEF KeyInv, CallsInv, CallOk, KeysFor
    <3> QED BY <2>1, <3>1, LenProperties
  <2>3. PICK q, n : /\ SendOn(q, generation, n, calls \ {c})
                    /\ IF c.epoch = inEpoch THEN q = SubSeq(queue, m + 1, Len(queue)) ELSE q = queue
    <3>1. PICK q, n, cs :
            /\ cs = calls \ {c}
            /\ q = IF c.epoch = inEpoch /\ c.reply = "ok"
                   THEN SubSeq(queue, m + 1, Len(queue)) ELSE queue
            /\ SendOn(q, generation, n, cs)
      BY <1>5, <2>1, Zenon DEF InputReturns
    <3> QED BY <1>5, <3>1
  <2>4. FormInv' BY <1>1, <1>3, <2>3, SendForm
  <2>5. Fenced => Fenced'
    <3> SUFFICES ASSUME Fenced PROVE Fenced' OBVIOUS
    <3>1. OnWire = {c} BY <1>1 DEF OnWire, Fenced, WireInv
    <3>2. \A d \in calls : d \in calls \ {c} <=> d.by # "input" BY <3>1 DEF OnWire
    <3>3. queue \in Seq(DOMAIN want) BY DEF KeyInv, QueueInv, KeysFor
    <3>4. PICK o \in Nat : /\ \A i \in 1..Len(q) : o + i \in 1..Len(queue) /\ q[i] = queue[o + i]
                           /\ c.epoch = inEpoch => o = m
      <4>1. CASE c.epoch = inEpoch BY <2>2, <2>3, <3>3, <4>1, RestIs
      <4>2. CASE c.epoch # inEpoch
        <5>1. \A i \in 1..Len(q) : 0 + i \in 1..Len(queue) /\ q[i] = queue[0 + i]
          BY <2>3, <4>2
        <5> QED BY <4>2, <5>1
      <4> QED BY <4>1, <4>2
    <3>5. Rising(q)
      <4> SUFFICES ASSUME NEW i \in 1..Len(q), NEW j \in 1..Len(q), i < j PROVE q[i] < q[j]
        BY DEF Rising
      <4>1. o + i < o + j BY <3>4
      <4> QED BY <3>4, <4>1 DEF Fenced, QueueOrder, Rising
    <3>6. \A j \in 1..Len(q) : Ahead(pty, Inputs, q[j])
      <4> TAKE j \in 1..Len(q)
      <4>1. o + j \in 1..Len(queue) /\ q[j] = queue[o + j] BY <3>4
      <4>2. \A d \in OnWire : d.epoch = inEpoch => o + j > Len(d.keys)
        BY <2>1, <2>2, <3>1, <3>4
      <4> QED BY <4>1, <4>2 DEF Fenced, QueueOrder
    <3>7. Fresh(pty, Inputs, q) BY <3>5, <3>6 DEF Fresh
    <3>8. generation # 0 =>
            \A d \in Pending : d \in calls \ {c} => ~(d.s = Here /\ d.g = generation)
      BY <1>1, <1>5, <3>1 DEF Fenced, LateInv
    <3>9. gate'.stage # "none" /\ gate'.epoch = serial' => Before(q, gate'.keys)
      BY <1>1, <3>4 DEF Fenced, GateOrder, Before
    <3>10. PICK cs : cs = calls \ {c} OBVIOUS
    <3>11. SendOn(q, generation, n, cs) BY <2>3, <3>10, Zenon
    <3> QED BY <1>1, <1>2, <1>3, <3>2, <3>7, <3>8, <3>9, <3>10, <3>11, SendStep
  <2> QED BY <1>1, <2>4, <2>5, Zenon
<1> QED BY <1>4, <1>5

\* A key that is typed comes after all others.
LEMMA KeyIsLast ==
  ASSUME KeyInv, FormInv, NEW k, k = Len(want) + 1
  PROVE  /\ k \in Nat /\ queue \in Seq(Nat)
         /\ Ahead(pty, Inputs, k)
         /\ \A i \in 1..Len(queue) : queue[i] < k
         /\ gate.stage # "none" /\ gate.epoch = serial =>
              gate.keys \in Seq(Nat) /\ \A i \in 1..Len(gate.keys) : gate.keys[i] < k
<1>1. want \in Seq(Place) BY DEF KeyInv, SelInv
<1>2. Len(want) \in Nat /\ DOMAIN want = 1..Len(want) BY <1>1, LenProperties
<1>3. \A x \in DOMAIN want : x \in Nat /\ x < k BY <1>2
<1>4. ASSUME NEW ks, NEW s, KeysFor(want, ks, s)
      PROVE  ks \in Seq(Nat) /\ \A i \in 1..Len(ks) : ks[i] < k
  <2>1. ks \in Seq(DOMAIN want) BY <1>4 DEF KeysFor
  <2>2. ks \in Seq(Nat) BY <1>3, <2>1
  <2>3. \A i \in 1..Len(ks) : ks[i] \in DOMAIN want BY <2>1, ElementOfSeq
  <2> QED BY <1>3, <2>2, <2>3
<1>5. \A c \in Inputs : \A i \in 1..Len(c.keys) : c.keys[i] < k
  BY <1>4 DEF KeyInv, CallsInv, CallOk, Inputs
<1>6. \A s \in Session : \A i \in 1..Len(pty[s]) : pty[s][i].by = Self => pty[s][i].key < k
  BY <1>3 DEF KeyInv, PtyInv, PtyOk
<1>7. queue \in Seq(Nat) /\ \A i \in 1..Len(queue) : queue[i] < k
  BY <1>4 DEF KeyInv, QueueInv
<1>8. gate.stage # "none" /\ gate.epoch = serial =>
        gate.keys \in Seq(Nat) /\ \A i \in 1..Len(gate.keys) : gate.keys[i] < k
  BY <1>4 DEF KeyInv, GateInv
<1>9. k \in Nat BY <1>2
<1> QED BY <1>5, <1>6, <1>7, <1>8, <1>9 DEF Ahead

\* Only the gate changes.
LEMMA GateStep ==
  ASSUME Fenced, UNCHANGED <<keeper, pty, calls, generation, active, sel, queue, running, inEpoch>>,
         GateOrder'
  PROVE  Fenced'
<1>1. Inputs' = Inputs /\ Grants' = Grants /\ OnWire' = OnWire /\ Pending' = Pending
  BY DEF Inputs, Grants, OnWire, Pending
<1>2. Here' = Here BY DEF Here
<1>3. LeaseInv' BY <1>1 DEF Fenced, LeaseInv, Gen
<1>4. HeldInv' BY <1>1, <1>2 DEF Fenced, HeldInv, Gen
<1>5. LoneInv' /\ WireInv' BY <1>1 DEF Fenced, LoneInv, WireInv
<1>6. LateInv' BY <1>1, <1>2 DEF Fenced, LateInv
<1>7. PtyOrder' BY DEF Fenced, PtyOrder
<1>8. PendingOrder' BY <1>1 DEF Fenced, PendingOrder, Gen
<1>9. QueueOrder' BY <1>1 DEF Fenced, QueueOrder
<1> QED BY <1>3, <1>4, <1>5, <1>6, <1>7, <1>8, <1>9 DEF Fenced

\* A key is submitted, or waits at the gate.
LEMMA TypedOk ==
  ASSUME KeyInv, FormInv, mistaken \/ Fenced, Key
  PROVE  FormInv' /\ (mistaken' \/ Fenced')
<1>1. UNCHANGED <<keeper, pty, active, sel, serial, mistaken>> BY DEF Key, leases, shown
<1>2. active \in Place BY DEF KeyInv, SelInv
<1>3. PICK k : k = Len(want) + 1 OBVIOUS
<1>4. /\ k \in Nat /\ queue \in Seq(Nat)
      /\ Ahead(pty, Inputs, k)
      /\ \A i \in 1..Len(queue) : queue[i] < k
      /\ gate.stage # "none" /\ gate.epoch = serial =>
           gate.keys \in Seq(Nat) /\ \A i \in 1..Len(gate.keys) : gate.keys[i] < k
  BY <1>3, KeyIsLast
<1>5. PICK ks : ks = <<k>> OBVIOUS
<1>6. ks \in Seq(Nat) /\ Len(ks) = 1 /\ ks[1] = k BY <1>4, <1>5
<1>7. Fresh(pty, Inputs, ks) /\ Before(queue, ks) BY <1>4, <1>6 DEF Fresh, Rising, Before
<1>8. CASE Submit(ks) /\ gate' = NoGate
  <2>1. FormInv' BY <1>1, <1>2, <1>8, SubmitForm
  <2>2. gate'.stage = "none" BY <1>8 DEF NoGate
  <2>3. Fenced => Fenced'
    <3> SUFFICES ASSUME Fenced PROVE Fenced' OBVIOUS
    <3>1. PICK T : T = Nat OBVIOUS
    <3>2. ks \in Seq(T) /\ queue \in Seq(T) BY <1>4, <1>6, <3>1
    <3> QED BY <1>1, <1>2, <1>7, <1>8, <2>2, <3>2, SubmitStep
  <2> QED BY <1>1, <2>1, <2>3, Zenon
<1>9. CASE /\ UNCHANGED <<calls, generation, queue, running, inEpoch>>
           /\ \/ gate.stage # "none" /\ gate.epoch = serial
                   /\ gate' = [gate EXCEPT !.keys = Append(@, k)]
              \/ gate' = [stage |-> "waiting", epoch |-> serial, keys |-> ks]
  <2>1. KeeperForm' BY <1>1, KeepersStay DEF FormInv
  <2>2. FormInv' BY <1>1, <1>9, <2>1 DEF FormInv
  <2>3. Inputs' = Inputs BY <1>9 DEF Inputs
  <2>4. Fenced => Fenced'
    <3> SUFFICES ASSUME Fenced PROVE Fenced' OBVIOUS
    <3>1. CASE gate' = [stage |-> "waiting", epoch |-> serial, keys |-> ks]
      <4>1. GateOrder' BY <1>1, <1>7, <1>9, <2>3, <3>1 DEF GateOrder
      <4> QED BY <1>1, <1>9, <4>1, GateStep
    <3>2. CASE /\ gate.stage # "none" /\ gate.epoch = serial
               /\ gate' = [gate EXCEPT !.keys = Append(@, k)]
      <4>1. PICK a, b : a = gate.keys /\ b = Append(a, k) OBVIOUS
      <4>2. gate'.keys = b
        <5>1. gate' = [gate EXCEPT !.keys = b] BY <3>2, <4>1, Zenon
        <5>2. gate = [stage |-> gate.stage, epoch |-> gate.epoch, keys |-> gate.keys]
          BY DEF KeyInv, GateInv
        <5> QED BY <5>1, <5>2
      <4>3. a \in Seq(Nat) /\ \A i \in 1..Len(a) : a[i] < k BY <1>4, <3>2, <4>1
      <4>4. /\ Len(b) = Len(a) + 1 /\ Len(a) \in Nat /\ b[Len(a) + 1] = k
            /\ \A i \in 1..Len(a) : b[i] = a[i]
        BY <1>4, <4>1, <4>3, AppendProperties, LenProperties
      <4>5. Fresh(pty, Inputs, a) /\ Before(queue, a)
        BY <3>2, <4>1 DEF Fenced, GateOrder
      <4>6. Rising(b)
        <5> SUFFICES ASSUME NEW i \in 1..Len(b), NEW j \in 1..Len(b), i < j PROVE b[i] < b[j]
          BY DEF Rising
        <5>1. i \in 1..Len(a) /\ b[i] = a[i] BY <4>4
        <5>2. CASE j \in 1..Len(a) BY <4>4, <4>5, <5>1, <5>2 DEF Fresh, Rising
        <5>3. CASE j = Len(a) + 1 BY <4>3, <4>4, <5>1, <5>3
        <5> QED BY <4>4, <5>2, <5>3
      <4>7. \A j \in 1..Len(b) : Ahead(pty, Inputs, b[j])
        <5> TAKE j \in 1..Len(b)
        <5>1. CASE j \in 1..Len(a) BY <4>4, <4>5, <5>1 DEF Fresh
        <5>2. CASE j = Len(a) + 1 BY <1>4, <4>4, <5>2
        <5> QED BY <4>4, <5>1, <5>2
      <4>8. Before(queue, b)
        <5> SUFFICES ASSUME NEW i \in 1..Len(queue), NEW j \in 1..Len(b) PROVE queue[i] < b[j]
          BY DEF Before
        <5>1. CASE j \in 1..Len(a) BY <4>4, <4>5, <5>1 DEF Before
        <5>2. CASE j = Len(a) + 1 BY <1>4, <4>4, <5>2
        <5> QED BY <4>4, <5>1, <5>2
      <4>9. GateOrder' BY <1>1, <1>9, <2>3, <4>2, <4>6, <4>7, <4>8 DEF GateOrder, Fresh
      <4> QED BY <1>1, <1>9, <4>9, GateStep
    <3> QED BY <1>9, <3>1, <3>2
  <2> QED BY <1>1, <2>2, <2>4, Zenon
<1>10. \/ Submit(ks) /\ gate' = NoGate
       \/ /\ UNCHANGED <<calls, generation, queue, running, inEpoch>>
          /\ \/ gate.stage # "none" /\ gate.epoch = serial
                  /\ gate' = [gate EXCEPT !.keys = Append(@, k)]
             \/ gate' = [stage |-> "waiting", epoch |-> serial, keys |-> ks]
  BY <1>3, <1>5, Zenon DEF Key, input
<1> QED BY <1>8, <1>9, <1>10

\* The gate opens, or drops its keys.
LEMMA OpenedOk ==
  ASSUME KeyInv, FormInv, mistaken \/ Fenced, GateOpens
  PROVE  FormInv' /\ (mistaken' \/ Fenced')
<1>1. UNCHANGED <<keeper, pty, active, sel, serial, mistaken>> /\ gate' = NoGate
  BY DEF GateOpens, leases, shown
<1>2. gate'.stage = "none" BY <1>1 DEF NoGate
<1>3. active \in Place BY DEF KeyInv, SelInv
<1>4. CASE gate.epoch = serial /\ generation # 0
  <2>1. gate.stage # "none" /\ Submit(gate.keys) BY <1>4 DEF GateOpens
  <2>2. FormInv' BY <1>1, <1>3, <2>1, SubmitForm
  <2>3. Fenced => Fenced'
    <3> SUFFICES ASSUME Fenced PROVE Fenced' OBVIOUS
    <3>1. PICK T, ks : T = DOMAIN want /\ ks = gate.keys OBVIOUS
    <3>2. ks \in Seq(T) /\ queue \in Seq(T)
      BY <1>4, <2>1, <3>1 DEF KeyInv, GateInv, QueueInv, KeysFor
    <3>3. Fresh(pty, Inputs, ks) /\ Before(queue, ks)
      BY <1>4, <2>1, <3>1 DEF Fenced, GateOrder
    <3>4. Submit(ks) BY <2>1, <3>1
    <3> QED BY <1>1, <1>2, <1>3, <3>2, <3>3, <3>4, SubmitStep
  <2> QED BY <1>1, <2>2, <2>3, Zenon
<1>5. CASE ~(gate.epoch = serial /\ generation # 0)
  <2>1. UNCHANGED <<calls, generation, queue, running, inEpoch>> BY <1>5 DEF GateOpens, input
  <2>2. QuietCalls /\ GateStays BY <1>2, <2>1 DEF QuietCalls, GateStays
  <2> QED BY <1>1, <2>1, <2>2, RequestsOk
<1> QED BY <1>4, <1>5

LEMMA OrderInit == Init => OrderInv
<1> SUFFICES ASSUME Init PROVE OrderInv OBVIOUS
<1>1. KeyInv BY KeyInit
<1>2. /\ calls = {} /\ queue = <<>> /\ generation = 0 /\ inEpoch = 0 /\ active = Nowhere
      /\ serial = 0
  BY DEF Init
<1>3. running = FALSE BY DEF Init
<1>4. sel = [item |-> Nowhere, stage |-> "idle"] /\ gate = NoGate BY DEF Init
<1>5. PICK no : no = FALSE OBVIOUS
<1>6. keeper = [s \in Session |-> [gen |-> 0, held |-> no, last |-> 0, busy |-> no]]
  BY <1>5, Zenon DEF Init
<1>7. KeeperForm
  <2>1. \A s \in Session : keeper[s] = [gen |-> 0, held |-> no, last |-> 0, busy |-> no] BY <1>6
  <2>2. \A s \in Session : Gen(s) = 0 BY <2>1 DEF Gen
  <2>3. \A s \in Session :
          keeper[s] = [gen |-> keeper[s].gen, held |-> keeper[s].held,
                       last |-> keeper[s].last, busy |-> keeper[s].busy]
    BY <2>1
  <2>4. keeper = [s \in Session |-> keeper[s]] BY <1>6
  <2>5. keeper = [s \in Session |-> [gen |-> keeper[s].gen, held |-> keeper[s].held,
                                     last |-> keeper[s].last, busy |-> keeper[s].busy]]
    BY <2>3, <2>4, Zenon
  <2> QED BY <2>2, <2>5 DEF KeeperForm
<1>8. FormInv BY <1>2, <1>4, <1>7 DEF FormInv
<1>9. Inputs = {} /\ Grants = {} /\ Pending = {} /\ OnWire = {}
  BY <1>2 DEF Inputs, Grants, Pending, OnWire
<1>10. LeaseInv /\ HeldInv /\ LoneInv /\ LateInv
  BY <1>2, <1>9 DEF LeaseInv, HeldInv, LoneInv, LateInv
<1>11. WireInv BY <1>3, <1>9 DEF WireInv
<1>12. Len(<<>>) = 0 BY EmptySeq
<1>13. \A s \in Session : Len(pty[s]) = 0
  <2>1. pty = [s \in Session |-> <<>>] BY DEF Init
  <2> QED BY <1>12, <2>1
<1>14. PtyOrder BY <1>13 DEF PtyOrder
<1>15. PendingOrder BY <1>9 DEF PendingOrder
<1>16. QueueOrder BY <1>2, <1>12 DEF QueueOrder, Rising
<1>17. GateOrder BY <1>4 DEF GateOrder, NoGate
<1> QED
  BY <1>1, <1>8, <1>10, <1>11, <1>14, <1>15, <1>16, <1>17 DEF OrderInv, Fenced

LEMMA OrderStep ==
  ASSUME OrderInv, [Next]_vars
  PROVE  OrderInv'
<1>0. KeyInv /\ FormInv /\ (mistaken \/ Fenced) BY DEF OrderInv
<1>1. KeyInv' BY <1>0, KeyStep
<1>2. SUFFICES FormInv' /\ (mistaken' \/ Fenced') BY <1>1 DEF OrderInv
<1>3. CASE UNCHANGED vars
  <2>1. /\ UNCHANGED <<keeper, pty, queue, running, inEpoch, mistaken, active, sel, calls, gate,
                       serial, generation>>
    BY <1>3 DEF vars, leases, shown, input
  <2>2. QuietCalls /\ GateStays BY <2>1 DEF QuietCalls, GateStays
  <2> QED BY <1>0, <2>1, <2>2, RequestsOk
<1>4. CASE \E c \in calls : KeeperServes(c) BY <1>0, <1>4, ServeOk
<1>5. CASE \E c \in calls : KeeperIsBlocked(c) \/ TimesOut(c) BY <1>0, <1>5, BlockedOk, TimesOutOk
<1>6. CASE \E s \in Session : OtherMoves(s) \/ HolderGoesQuiet(s) BY <1>0, <1>6, OthersOk
<1>7. CASE \/ \E s \in Session : Select(s)
           \/ \E c \in calls : SelectReleased(c)
           \/ Detach
  BY <1>0, <1>7, StopsOk
<1>8. CASE SelectShows \/ SelectEnds BY <1>0, <1>8, ShowsOk
<1>9. CASE \/ Tap \/ Push \/ Poll \/ GateAsks
           \/ \E c \in Control : Resize(c)
           \/ \E c \in calls : TapGreeted(c) \/ AcquireFails(c) \/ ControlSettles(c)
  BY <1>0, <1>9, ThreadsOk
<1>10. CASE \E c \in calls : Acquired(c) BY <1>0, <1>10, AcquiredOk
<1>11. CASE \E c \in calls : InputReturns(c) BY <1>0, <1>11, InputReturnsOk
<1>12. CASE Key BY <1>0, <1>12, TypedOk
<1>13. CASE GateOpens BY <1>0, <1>13, OpenedOk
<1> QED
  BY <1>3, <1>4, <1>5, <1>6, <1>7, <1>8, <1>9, <1>10, <1>11, <1>12, <1>13
    DEF Next, Serve, Thread, Return

-------------------------------------------------------------------------------
\* Keys arrive in the order they were typed, none twice, whatever is lost, late or
\* taken over, as long as the view takes no lease of one session for a lease of
\* another (control, the input loop and the gate of main.js and input-gate.js, and
\* the fences of the keepers).
THEOREM KeysArriveInOrder == Spec => []KeysInOrder
<1>1. OrderInv => KeysInOrder BY DEF OrderInv, Fenced, PtyOrder, KeysInOrder
<1> QED BY <1>1, OrderInit, OrderStep, PTL DEF Spec

-------------------------------------------------------------------------------
(* Whose leases are used: the lease held, those in requests, those granted  *)
(* and those a thread keeps for a resize were granted to this view by the   *)
(* keeper of the session they are used on.                                  *)

Mine(s, g) == s \in Session /\ g \in 1..Gen(s) /\ granted[s][g] = Self

GrantForm ==
  /\ granted = [s \in Session |-> [g \in 1..MaxGen |-> granted[s][g]]]
  /\ \A s \in Session : Gen(s) <= MaxGen
ThreadForm ==
  ctl = [c \in Control |-> [stage |-> ctl[c].stage, epoch |-> ctl[c].epoch, s |-> ctl[c].s,
                            g |-> ctl[c].g, key |-> ctl[c].key]]

OwnCall(c) ==
  /\ c.op \in {"input", "resize"} => Mine(c.s, c.g)
  /\ c.op = "acquire" /\ c.reply = "ok" => Mine(c.s, c.lease)
OwnThread(t) == t.stage = "draining" /\ t.s # Nowhere => Mine(t.s, t.g)

OwnView == generation # 0 => Mine(Here, generation)
OwnPty ==
  \A s \in Session : \A i \in 1..Len(pty[s]) : pty[s][i].by = Self => Mine(s, pty[s][i].gen)
OwnSizes == \A r \in resized : Mine(r[1], r[2])
Own ==
  /\ OwnView /\ (\A c \in calls : OwnCall(c)) /\ (\A c \in Control : OwnThread(ctl[c]))
  /\ OwnPty /\ OwnSizes

OwnInv == OrderInv /\ GrantForm /\ ThreadForm /\ (mistaken \/ Own)

\* What was granted stays granted.
GrantsStay ==
  /\ GrantForm'
  /\ \A s \in Session : \A g \in 1..Gen(s) : Gen(s)' >= Gen(s) /\ granted'[s][g] = granted[s][g]

LEMMA MineStays ==
  ASSUME GrantsStay, KeeperForm, KeeperForm', NEW s, NEW g, Mine(s, g)
  PROVE  Mine(s, g)'
BY DEF GrantsStay, Mine, KeeperForm, Gen

\* What a new lease changes.
LEMMA GrantIs ==
  ASSUME KeeperForm, GrantForm, NEW s \in Session, NEW v, Grant(s, v)
  PROVE  /\ KeeperForm' /\ GrantsStay
         /\ Gen(s) + 1 \in 1..Gen(s)' /\ granted'[s][Gen(s) + 1] = v
<1>1. PICK g : g = Gen(s) + 1 OBVIOUS
<1>2. Gen(s) \in Nat /\ g \in Nat /\ MaxGen \in Nat BY <1>1, DesktopViewAssumption DEF KeeperForm
<1>3. PICK yes : yes = TRUE OBVIOUS
<1>4. keeper' = [keeper EXCEPT ![s] = [gen |-> @.gen + 1, held |-> TRUE, last |-> 0, busy |-> TRUE]]
  BY DEF Grant
<1>5. keeper' = [keeper EXCEPT ![s] = [gen |-> g, held |-> yes, last |-> 0, busy |-> yes]]
  BY <1>1, <1>3, <1>4, Zenon DEF Gen
<1>6. /\ KeeperForm' /\ keeper'[s].gen = g
      /\ \A r \in Session : r # s => keeper'[r].gen = keeper[r].gen
  BY <1>2, <1>5, KeeperChanges
<1>7. g \in 1..MaxGen BY <1>1, <1>2 DEF Grant, Gen
<1>8. granted' = [granted EXCEPT ![s][g] = v] BY <1>1, Zenon DEF Grant, Gen
<1>9. PICK f : f = granted[s] OBVIOUS
<1>10. /\ granted = [r \in Session |-> granted[r]] /\ f = [h \in 1..MaxGen |-> f[h]]
       /\ \A r \in Session : granted[r] = [h \in 1..MaxGen |-> granted[r][h]]
  BY <1>9 DEF GrantForm
<1>11. PICK e : e = [f EXCEPT ![g] = v] OBVIOUS
<1>12. /\ e = [h \in 1..MaxGen |-> e[h]] /\ e[g] = v
       /\ \A h \in 1..MaxGen : h # g => e[h] = f[h]
  BY <1>7, <1>10, <1>11
<1>13. granted' = [granted EXCEPT ![s] = e] BY <1>8, <1>9, <1>11
<1>14. /\ granted'[s] = e /\ granted' = [r \in Session |-> granted'[r]]
       /\ \A r \in Session : r # s => granted'[r] = granted[r]
  BY <1>10, <1>13
<1>15. \A r \in Session : granted'[r] = [h \in 1..MaxGen |-> granted'[r][h]]
  BY <1>10, <1>12, <1>14
<1>16. granted' = [r \in Session |-> [h \in 1..MaxGen |-> granted'[r][h]]]
  BY <1>14, <1>15, Zenon
<1>17. \A r \in Session : Gen(r)' <= MaxGen BY <1>6, <1>7 DEF GrantForm, Gen
<1>18. ASSUME NEW r \in Session, NEW h \in 1..Gen(r)
       PROVE  Gen(r)' >= Gen(r) /\ granted'[r][h] = granted[r][h]
  <2>1. Gen(r) \in Nat /\ Gen(r) <= MaxGen BY DEF KeeperForm, GrantForm
  <2>2. CASE r = s BY <1>1, <1>2, <1>6, <1>9, <1>12, <1>14, <2>1, <2>2 DEF Gen
  <2>3. CASE r # s BY <1>6, <1>14, <2>1, <2>3 DEF Gen
  <2> QED BY <2>2, <2>3
<1>19. GrantsStay BY <1>16, <1>17, <1>18 DEF GrantsStay, GrantForm
<1> QED BY <1>1, <1>2, <1>6, <1>7, <1>12, <1>14, <1>19 DEF Gen

LEMMA NothingGranted ==
  ASSUME KeeperForm, GrantForm, GensStay, granted' = granted
  PROVE  GrantsStay
<1>1. \A s \in Session : Gen(s)' = Gen(s) /\ Gen(s) \in Nat BY DEF KeeperForm, GensStay, Gen
<1>2. GrantForm' BY <1>1 DEF GrantForm
<1> QED BY <1>1, <1>2 DEF GrantsStay

LEMMA AboutIs ==
  ASSUME NEW by, NEW op, NEW s, NEW e, NEW g, NEW d, d = AskAbout(by, op, s, e, g)
  PROVE  d.op = op /\ d.s = s /\ d.g = g /\ d.reply = "none"
<1>1. PICK no : no = FALSE OBVIOUS
<1>2. PICK a : a = Ask(by, op, s, e) OBVIOUS
<1>3. a = [by |-> by, op |-> op, s |-> s, g |-> 0, n |-> 0, keys |-> <<>>, takeover |-> no,
           epoch |-> e, reply |-> "none", lease |-> 0]
  BY <1>1, <1>2, Zenon DEF Ask
<1>4. PICK b : b = [a EXCEPT !.g = g] OBVIOUS
<1>5. b.op = op /\ b.s = s /\ b.g = g /\ b.reply = "none" BY <1>3, <1>4
<1> QED BY <1>2, <1>4, <1>5, Zenon DEF AskAbout

\* What a thread does to where it stands, but for keeping a lease.
LEMMA ThreadGoes ==
  ASSUME ThreadForm, NEW c \in Control, NEW x, x # "draining",
         \/ ctl' = [ctl EXCEPT ![c] = NoControl]
         \/ ctl' = [ctl EXCEPT ![c].stage = x]
         \/ \E e, s, g, k :
              ctl' = [ctl EXCEPT ![c] = [stage |-> x, epoch |-> e, s |-> s, g |-> g, key |-> k]]
  PROVE  ThreadForm' /\ \A d \in Control : ctl'[d] = ctl[d] \/ ctl'[d].stage # "draining"
<1>1. ASSUME NEW y, y # "draining", NEW e, NEW s, NEW g, NEW k, NEW t,
             t = [stage |-> y, epoch |-> e, s |-> s, g |-> g, key |-> k],
             ctl' = [ctl EXCEPT ![c] = t]
      PROVE  ThreadForm' /\ \A d \in Control : ctl'[d] = ctl[d] \/ ctl'[d].stage # "draining"
  <2>1. /\ ctl = [d \in Control |-> ctl[d]]
        /\ \A d \in Control :
             ctl[d] = [stage |-> ctl[d].stage, epoch |-> ctl[d].epoch, s |-> ctl[d].s,
                       g |-> ctl[d].g, key |-> ctl[d].key]
    BY Zenon DEF ThreadForm
  <2>2. ctl'[c] = t /\ \A d \in Control : d # c => ctl'[d] = ctl[d] BY <1>1, <2>1
  <2>3. /\ t = [stage |-> t.stage, epoch |-> t.epoch, s |-> t.s, g |-> t.g, key |-> t.key]
        /\ t.stage = y
    BY <1>1
  <2>4. \A d \in Control :
          ctl'[d] = [stage |-> ctl'[d].stage, epoch |-> ctl'[d].epoch, s |-> ctl'[d].s,
                     g |-> ctl'[d].g, key |-> ctl'[d].key]
    BY <2>1, <2>2, <2>3, Zenon
  <2>5. ctl' = [d \in Control |-> ctl'[d]] BY <1>1, <2>1
  <2>6. ThreadForm' BY <2>4, <2>5, Zenon DEF ThreadForm
  <2> QED BY <1>1, <2>2, <2>3, <2>6
<1>2. CASE ctl' = [ctl EXCEPT ![c] = NoControl]
  <2>1. PICK no : no = FALSE OBVIOUS
  <2>2. NoControl = [stage |-> "none", epoch |-> 0, s |-> Nowhere, g |-> 0, key |-> no]
    BY <2>1, Zenon DEF NoControl
  <2>3. "none" # "draining" OBVIOUS
  <2> QED BY <1>1, <1>2, <2>2, <2>3
<1>3. CASE ctl' = [ctl EXCEPT ![c].stage = x]
  <2>1. PICK e, s, g, k : e = ctl[c].epoch /\ s = ctl[c].s /\ g = ctl[c].g /\ k = ctl[c].key
    OBVIOUS
  <2>2. ctl[c] = [stage |-> ctl[c].stage, epoch |-> e, s |-> s, g |-> g, key |-> k]
    BY <2>1, Zenon DEF ThreadForm
  <2>3. PICK t : t = [ctl[c] EXCEPT !.stage = x] OBVIOUS
  <2>4. t = [stage |-> x, epoch |-> e, s |-> s, g |-> g, key |-> k] BY <2>2, <2>3
  <2>5. ctl' = [ctl EXCEPT ![c] = t] BY <1>3, <2>3
  <2> QED BY <1>1, <2>4, <2>5
<1>4. ASSUME NEW e, NEW s, NEW g, NEW k,
             ctl' = [ctl EXCEPT ![c] = [stage |-> x, epoch |-> e, s |-> s, g |-> g, key |-> k]]
      PROVE  ThreadForm' /\ \A d \in Control : ctl'[d] = ctl[d] \/ ctl'[d].stage # "draining"
  <2>1. PICK t : t = [stage |-> x, epoch |-> e, s |-> s, g |-> g, key |-> k] OBVIOUS
  <2> QED BY <1>1, <1>4, <2>1, Zenon
<1> QED BY <1>2, <1>3, <1>4

LEMMA ThreadsStay ==
  ASSUME ThreadForm, ctl' = ctl
  PROVE  ThreadForm' /\ \A d \in Control : ctl'[d] = ctl[d] \/ ctl'[d].stage # "draining"
BY Zenon DEF ThreadForm

\* Requests that use or bring no lease.
Plain(c) == c.op \notin {"input", "resize"} /\ (c.op = "acquire" => c.reply # "ok")

\* Nothing is used but what was this view's before, or is now.
LEMMA OwnStays ==
  ASSUME Own, KeeperForm, KeeperForm', GrantsStay,
         generation' = 0 \/ (generation' = generation /\ Here' = Here) \/ OwnView',
         \A c \in calls' : c \in calls \/ Plain(c) \/ OwnCall(c)',
         \A c \in Control : ctl'[c] = ctl[c] \/ ctl'[c].stage # "draining" \/ OwnThread(ctl[c])',
         pty' = pty \/ OwnPty', resized' = resized \/ OwnSizes'
  PROVE  Own'
<1>1. \A s, g : Mine(s, g) => Mine(s, g)' BY MineStays
<1>2. OwnView' BY <1>1 DEF Own, OwnView
<1>3. \A c \in calls' : OwnCall(c)' BY <1>1 DEF Own, OwnCall, Plain
<1>4. \A c \in Control : OwnThread(ctl[c])' BY <1>1 DEF Own, OwnThread
<1>5. OwnPty' BY <1>1 DEF Own, OwnPty
<1>6. OwnSizes' BY <1>1 DEF Own, OwnSizes
<1> QED BY <1>2, <1>3, <1>4, <1>5, <1>6 DEF Own

\* The view and its threads act; nothing is granted.
LEMMA OwnActs ==
  ASSUME KeyInv, FormInv, GrantForm, mistaken \/ Own, ThreadForm', UNCHANGED leases,
         generation' = 0 \/ (generation' = generation /\ Here' = Here) \/ (Own => OwnView'),
         \A c \in calls' : c \in calls \/ Plain(c) \/ (Own => OwnCall(c)'),
         \A c \in Control :
           ctl'[c] = ctl[c] \/ ctl'[c].stage # "draining" \/ (Own => OwnThread(ctl[c])'),
         mistaken' = mistaken
  PROVE  GrantForm' /\ ThreadForm' /\ (mistaken' \/ Own')
<1>1. UNCHANGED <<keeper, granted, pty, resized>> BY DEF leases
<1>2. KeeperForm /\ KeeperForm' /\ GensStay BY <1>1, KeepersStay DEF FormInv
<1>3. GrantsStay BY <1>1, <1>2, NothingGranted
<1>4. Own => Own' BY <1>1, <1>2, <1>3, OwnStays
<1> QED BY <1>3, <1>4, Zenon DEF GrantsStay

\* Another session is selected, the selection goes on, or control is given back.
LEMMA OwnStops ==
  ASSUME KeyInv, FormInv, GrantForm, ThreadForm, mistaken \/ Own,
         \/ \E s \in Session : Select(s)
         \/ \E c \in calls : SelectReleased(c)
         \/ Detach
         \/ SelectShows \/ SelectEnds
  PROVE  GrantForm' /\ ThreadForm' /\ (mistaken' \/ Own')
<1>1. UNCHANGED <<leases, ctl, mistaken>>
  BY DEF Select, SelectReleased, Detach, SelectShows, SelectEnds
<1>2. ThreadForm' /\ \A d \in Control : ctl'[d] = ctl[d] BY <1>1, ThreadsStay
<1>3. /\ generation' = 0 \/ (generation' = generation /\ Here' = Here)
      /\ \A c \in calls' : c \in calls \/ Plain(c)
  <2>1. CASE (\E s \in Session : Select(s)) \/ Detach
    <3>1. PICK by \in {"select", "gone"} : GiveUpControl(by) BY <2>1 DEF Select, Detach
    <3> QED BY <3>1, GiveUpStops DEF Plain
  <2>2. CASE \E c \in calls : SelectReleased(c) BY <2>2 DEF SelectReleased, Clear
  <2>3. CASE SelectShows \/ SelectEnds BY <2>3, HereStays DEF SelectShows, SelectEnds
  <2> QED BY <2>1, <2>2, <2>3
<1> QED BY <1>1, <1>2, <1>3, OwnActs

\* A thread that asks for control, or a tap that asks who has it.
LEMMA OwnTakes ==
  ASSUME ThreadForm, NEW c \in Control, NEW key, NEW force, NEW cs \in SUBSET calls,
         TakeControl(c, key, force, cs)
  PROVE  /\ \A d \in calls' : d \in calls \/ Plain(d)
         /\ ThreadForm' /\ \A d \in Control : ctl'[d] = ctl[d] \/ ctl'[d].stage # "draining"
<1>1. PICK a : a = AskTaking(c, "acquire", active, serial, force) OBVIOUS
<1>2. a.op = "acquire" /\ a.reply = "none" BY <1>1, AskIs
<1>3. calls' = cs \/ calls' = cs \union {a} BY <1>1, Zenon DEF TakeControl, AskTaking
<1>4. "acquire" # "draining" OBVIOUS
<1>5. \/ ctl' = [ctl EXCEPT ![c] = NoControl]
      \/ ctl' = [ctl EXCEPT ![c] = [stage |-> "acquire", epoch |-> serial, s |-> active,
                                    g |-> 0, key |-> key]]
  BY Zenon DEF TakeControl
<1>6. ThreadForm' /\ \A d \in Control : ctl'[d] = ctl[d] \/ ctl'[d].stage # "draining"
  BY <1>4, <1>5, ThreadGoes
<1> QED BY <1>2, <1>3, <1>6 DEF Plain

LEMMA OwnTaps ==
  ASSUME ThreadForm, NEW key, StartTap(key)
  PROVE  /\ \A d \in calls' : d \in calls \/ Plain(d)
         /\ ThreadForm' /\ \A d \in Control : ctl'[d] = ctl[d] \/ ctl'[d].stage # "draining"
<1>1. PICK a : a = Ask("tap", "hello", active, serial) OBVIOUS
<1>2. a.op = "hello" /\ a.reply = "none" BY <1>1, AskIs
<1>3. calls' = calls \union {a} BY <1>1 DEF StartTap
<1>4. PICK no : no = FALSE OBVIOUS
<1>5. PICK n : n = NoControl OBVIOUS
<1>6. n = [stage |-> "none", epoch |-> 0, s |-> Nowhere, g |-> 0, key |-> no]
  BY <1>4, <1>5, Zenon DEF NoControl
<1>7. PICK e, s : e = serial /\ s = active OBVIOUS
<1>8. [n EXCEPT !.stage = "hello", !.epoch = e, !.s = s, !.key = key]
        = [stage |-> "hello", epoch |-> e, s |-> s, g |-> 0, key |-> key]
  <2>1. PICK n1 : n1 = [n EXCEPT !.stage = "hello"] OBVIOUS
  <2>2. PICK n2 : n2 = [n1 EXCEPT !.epoch = e] OBVIOUS
  <2>3. PICK n3 : n3 = [n2 EXCEPT !.s = s] OBVIOUS
  <2>4. PICK n4 : n4 = [n3 EXCEPT !.key = key] OBVIOUS
  <2>5. n1 = [stage |-> "hello", epoch |-> 0, s |-> Nowhere, g |-> 0, key |-> no] BY <1>6, <2>1
  <2>6. n2 = [stage |-> "hello", epoch |-> e, s |-> Nowhere, g |-> 0, key |-> no] BY <2>2, <2>5
  <2>7. n3 = [stage |-> "hello", epoch |-> e, s |-> s, g |-> 0, key |-> no] BY <2>3, <2>6
  <2>8. n4 = [stage |-> "hello", epoch |-> e, s |-> s, g |-> 0, key |-> key] BY <2>4, <2>7
  <2>9. n4 = [n EXCEPT !.stage = "hello", !.epoch = e, !.s = s, !.key = key]
    BY <2>1, <2>2, <2>3, <2>4, Zenon
  <2> QED BY <2>8, <2>9
<1>9. ctl' = [ctl EXCEPT !["tap"] = [stage |-> "hello", epoch |-> e, s |-> s, g |-> 0, key |-> key]]
  BY <1>5, <1>7, <1>8, Zenon DEF StartTap
<1>10. "tap" \in Control /\ "hello" # "draining" BY DEF Control
<1>11. ThreadForm' /\ \A d \in Control : ctl'[d] = ctl[d] \/ ctl'[d].stage # "draining"
  BY <1>9, <1>10, ThreadGoes
<1> QED BY <1>2, <1>3, <1>11 DEF Plain

\* A tap, the button, the poll and the threads that take control.
LEMMA OwnThreads ==
  ASSUME KeyInv, FormInv, GrantForm, ThreadForm, mistaken \/ Own,
         \/ Tap \/ Push \/ Poll \/ GateAsks
         \/ \E c \in Control : Resize(c)
         \/ \E c \in calls : TapGreeted(c) \/ AcquireFails(c) \/ ControlSettles(c)
  PROVE  GrantForm' /\ ThreadForm' /\ (mistaken' \/ Own')
<1>1. /\ UNCHANGED <<leases, mistaken, active, sel>>
      /\ generation' = 0 \/ generation' = generation
  BY DEF Tap, Push, Poll, PollAsks, PollReturns, GateAsks, Resize, TapGreeted, AcquireFails,
         ControlSettles, shown
<1>2. Here' = Here BY <1>1 DEF Here
<1>3. SUFFICES /\ ThreadForm'
               /\ \A c \in calls' : c \in calls \/ Plain(c) \/ (Own => OwnCall(c)')
               /\ \A c \in Control : ctl'[c] = ctl[c] \/ ctl'[c].stage # "draining"
  BY <1>1, <1>2, OwnActs
<1>4. /\ "tap" \in Control /\ "button" \in Control /\ "resizing" # "draining"
      /\ "none" # "draining"
  BY DEF Control
<1>5. CASE Tap BY <1>5, OwnTaps DEF Tap
<1>6. CASE Push BY <1>4, <1>6, OwnTakes DEF Push
<1>7. CASE Poll
  <2>1. ctl' = ctl BY <1>7 DEF Poll, PollAsks, PollReturns
  <2>2. PICK a : a = AskAbout("poll", "check", active, serial, generation) OBVIOUS
  <2>3. a.op = "check" BY <2>2, AskIs
  <2>4. CASE PollAsks
    <3>1. calls' = calls \union {a} BY <2>2, <2>4, Zenon DEF PollAsks, AskAbout
    <3> QED BY <2>1, <2>3, <3>1, ThreadsStay DEF Plain
  <2>5. CASE \E c \in calls : PollReturns(c)
    <3>1. calls' \subseteq calls BY <2>5 DEF PollReturns
    <3> QED BY <2>1, <3>1, ThreadsStay
  <2> QED BY <1>7, <2>4, <2>5 DEF Poll
<1>8. CASE GateAsks
  <2>1. CASE \E key : StartTap(key) BY <2>1, OwnTaps
  <2>2. CASE UNCHANGED <<ctl, calls>> BY <2>2, ThreadsStay
  <2> QED BY <1>8, <2>1, <2>2 DEF GateAsks
<1>9. ASSUME NEW c \in Control, Resize(c)
      PROVE  /\ ThreadForm'
             /\ \A d \in calls' : d \in calls \/ Plain(d) \/ (Own => OwnCall(d)')
             /\ \A d \in Control : ctl'[d] = ctl[d] \/ ctl'[d].stage # "draining"
  <2>1. PICK a : a = AskAbout(c, "resize", ctl[c].s, serial, ctl[c].g) OBVIOUS
  <2>2. a.op = "resize" /\ a.s = ctl[c].s /\ a.g = ctl[c].g /\ a.reply = "none"
    BY <2>1, AboutIs
  <2>3. \/ calls' = calls
        \/ calls' = calls \union {a} /\ ctl[c].stage = "draining" /\ ctl[c].s # Nowhere
    BY <1>9, <2>1, Zenon DEF Resize, AskAbout
  <2>4. ASSUME Own, calls' = calls \union {a}, ctl[c].stage = "draining", ctl[c].s # Nowhere
        PROVE  OwnCall(a)'
    <3>1. Mine(a.s, a.g) BY <2>2, <2>4 DEF Own, OwnThread
    <3>2. keeper' = keeper /\ granted' = granted BY <1>1 DEF leases
    <3>3. Mine(a.s, a.g)' BY <3>1, <3>2 DEF Mine, Gen
    <3> QED BY <2>2, <3>3 DEF OwnCall
  <2>5. ctl' = [ctl EXCEPT ![c].stage = "resizing"] \/ ctl' = [ctl EXCEPT ![c] = NoControl]
    BY <1>9 DEF Resize
  <2>6. ThreadForm' /\ \A d \in Control : ctl'[d] = ctl[d] \/ ctl'[d].stage # "draining"
    BY <1>4, <2>5, ThreadGoes
  <2> QED BY <2>3, <2>4, <2>6
<1>10. ASSUME NEW c \in calls, TapGreeted(c)
       PROVE  /\ ThreadForm'
              /\ \A d \in calls' : d \in calls \/ Plain(d)
              /\ \A d \in Control : ctl'[d] = ctl[d] \/ ctl'[d].stage # "draining"
  <2>1. CASE ctl' = [ctl EXCEPT !["tap"] = NoControl] /\ calls' = calls \ {c}
    <3>1. ThreadForm' /\ \A d \in Control : ctl'[d] = ctl[d] \/ ctl'[d].stage # "draining"
      BY <1>4, <2>1, ThreadGoes
    <3> QED BY <2>1, <3>1
  <2>2. CASE \E key, force : TakeControl("tap", key, force, calls \ {c})
    BY <1>4, <2>2, OwnTakes
  <2> QED BY <1>10, <2>1, <2>2 DEF TapGreeted
<1>11. ASSUME NEW c \in calls, AcquireFails(c)
       PROVE  /\ ThreadForm'
              /\ \A d \in calls' : d \in calls \/ Plain(d)
              /\ \A d \in Control : ctl'[d] = ctl[d] \/ ctl'[d].stage # "draining"
  <2>1. PICK yes : yes = TRUE OBVIOUS
  <2>2. PICK a : a = AskTaking(c.by, "acquire", c.s, c.epoch, yes) OBVIOUS
  <2>3. a.op = "acquire" /\ a.reply = "none" BY <2>2, AskIs
  <2>4. calls' = calls \ {c} \/ calls' = (calls \ {c}) \union {a}
    BY <1>11, <2>1, <2>2, Zenon DEF AcquireFails, AskTaking
  <2>5. c.by \in Control /\ (ctl' = ctl \/ ctl' = [ctl EXCEPT ![c.by] = NoControl])
    BY <1>11 DEF AcquireFails
  <2>6. ThreadForm' /\ \A d \in Control : ctl'[d] = ctl[d] \/ ctl'[d].stage # "draining"
    BY <1>4, <2>5, ThreadGoes, ThreadsStay
  <2> QED BY <2>3, <2>4, <2>6 DEF Plain
<1>12. ASSUME NEW c \in calls, ControlSettles(c)
       PROVE  /\ ThreadForm'
              /\ \A d \in calls' : d \in calls
              /\ \A d \in Control : ctl'[d] = ctl[d] \/ ctl'[d].stage # "draining"
  <2>1. c.by \in Control /\ ctl' = [ctl EXCEPT ![c.by] = NoControl] /\ calls' = calls \ {c}
    BY <1>12 DEF ControlSettles
  <2>2. ThreadForm' /\ \A d \in Control : ctl'[d] = ctl[d] \/ ctl'[d].stage # "draining"
    BY <1>4, <2>1, ThreadGoes
  <2> QED BY <2>1, <2>2
<1> QED BY <1>5, <1>6, <1>7, <1>8, <1>9, <1>10, <1>11, <1>12

\* A lease that is granted is given back, or taken for the session shown.
LEMMA OwnAcquired ==
  ASSUME KeyInv, FormInv, GrantForm, ThreadForm, mistaken \/ Own, NEW c \in calls, Acquired(c)
  PROVE  GrantForm' /\ ThreadForm' /\ (mistaken' \/ Own')
<1>1. /\ UNCHANGED <<leases, active, sel>>
      /\ c.op = "acquire" /\ c.reply = "ok" /\ c.by \in Control
  BY DEF Acquired, shown
<1>2. Here' = Here BY <1>1 DEF Here
<1>3. CASE c.epoch # serial
  <2>1. PICK a : a = AskAbout(c.by, "release", c.s, c.epoch, c.lease) OBVIOUS
  <2>2. a.op = "release" BY <2>1, AboutIs
  <2>3. /\ calls' = (calls \ {c}) \union {a} /\ generation' = generation /\ mistaken' = mistaken
        /\ ctl' = [ctl EXCEPT ![c.by].stage = "giveback"]
    BY <1>3, <2>1, Zenon DEF Acquired, AskAbout
  <2>4. \A d \in calls' : d \in calls \/ Plain(d) BY <2>2, <2>3 DEF Plain
  <2>5. "giveback" # "draining" OBVIOUS
  <2>6. ThreadForm' /\ \A d \in Control : ctl'[d] = ctl[d] \/ ctl'[d].stage # "draining"
    BY <1>1, <2>3, <2>5, ThreadGoes
  <2> QED BY <1>1, <1>2, <2>3, <2>4, <2>6, OwnActs
<1>4. CASE c.epoch = serial
  <2>1. PICK g, s : g = c.lease /\ s = active OBVIOUS
  <2>2. /\ calls' = calls \ {c} /\ generation' = g
        /\ mistaken' = (mistaken \/ c.s # Here)
        /\ ctl' = [ctl EXCEPT ![c.by] = [@ EXCEPT !.stage = "draining", !.s = s, !.g = g]]
    BY <1>4, <2>1, Zenon DEF Acquired
  <2>3. PICK t : t = [ctl[c.by] EXCEPT !.stage = "draining", !.s = s, !.g = g] OBVIOUS
  <2>4. PICK e, k : t = [stage |-> "draining", epoch |-> e, s |-> s, g |-> g, key |-> k]
    <3>0. PICK x, e, y, z, k : /\ x = ctl[c.by].stage /\ e = ctl[c.by].epoch /\ y = ctl[c.by].s
                               /\ z = ctl[c.by].g /\ k = ctl[c.by].key
      OBVIOUS
    <3>1. ctl[c.by] = [stage |-> x, epoch |-> e, s |-> y, g |-> z, key |-> k]
      BY <1>1, <3>0, Zenon DEF ThreadForm
    <3>2. PICK t1 : t1 = [ctl[c.by] EXCEPT !.stage = "draining"] OBVIOUS
    <3>3. PICK t2 : t2 = [t1 EXCEPT !.s = s] OBVIOUS
    <3>4. PICK t3 : t3 = [t2 EXCEPT !.g = g] OBVIOUS
    <3>5. t1 = [stage |-> "draining", epoch |-> e, s |-> y, g |-> z, key |-> k] BY <3>1, <3>2
    <3>6. t2 = [stage |-> "draining", epoch |-> e, s |-> s, g |-> z, key |-> k] BY <3>3, <3>5
    <3>7. t3 = [stage |-> "draining", epoch |-> e, s |-> s, g |-> g, key |-> k] BY <3>4, <3>6
    <3>8. t = t3 BY <2>3, <3>2, <3>3, <3>4, Zenon
    <3> QED BY <3>7, <3>8
  <2>5. t.stage = "draining" /\ t.s = s /\ t.g = g BY <2>4
  <2>6. t = [stage |-> t.stage, epoch |-> t.epoch, s |-> t.s, g |-> t.g, key |-> t.key]
    BY <2>4
  <2>7. /\ ctl = [d \in Control |-> ctl[d]]
        /\ \A d \in Control :
             ctl[d] = [stage |-> ctl[d].stage, epoch |-> ctl[d].epoch, s |-> ctl[d].s,
                       g |-> ctl[d].g, key |-> ctl[d].key]
    BY Zenon DEF ThreadForm
  <2>8. ctl' = [ctl EXCEPT ![c.by] = t] BY <2>2, <2>3, Zenon
  <2>9. ctl'[c.by] = t /\ \A d \in Control : d # c.by => ctl'[d] = ctl[d]
    BY <1>1, <2>7, <2>8
  <2>10. \A d \in Control :
           ctl'[d] = [stage |-> ctl'[d].stage, epoch |-> ctl'[d].epoch, s |-> ctl'[d].s,
                      g |-> ctl'[d].g, key |-> ctl'[d].key]
    BY <2>6, <2>7, <2>9, Zenon
  <2>11. ctl' = [d \in Control |-> ctl'[d]] BY <2>7, <2>8
  <2>12. ThreadForm' BY <2>10, <2>11, Zenon DEF ThreadForm
  <2>13. UNCHANGED <<keeper, granted>> BY <1>1 DEF leases
  <2>14. c.s = Here /\ Own => OwnView' /\ \A d \in Control : ctl'[d] = ctl[d] \/ OwnThread(ctl[d])'
    <3> SUFFICES ASSUME c.s = Here, Own
                 PROVE  OwnView' /\ \A d \in Control : ctl'[d] = ctl[d] \/ OwnThread(ctl[d])'
      OBVIOUS
    <3>1. Mine(Here, g) BY <1>1, <2>1 DEF Own, OwnCall
    <3>2. Mine(Here, g)' BY <1>2, <2>13, <3>1 DEF Mine, Gen
    <3>3. OwnView' BY <1>2, <2>2, <3>2 DEF OwnView
    <3>4. s # Nowhere => Here = s BY <2>1 DEF Here
    <3>5. OwnThread(ctl[c.by])' BY <1>2, <2>5, <2>9, <3>2, <3>4 DEF OwnThread
    <3> QED BY <2>9, <3>3, <3>5
  <2>15. KeeperForm /\ KeeperForm' /\ GensStay BY <2>13, KeepersStay DEF FormInv
  <2>16. GrantsStay BY <2>13, <2>15, NothingGranted
  <2>17. pty' = pty /\ resized' = resized BY <1>1 DEF leases
  <2>18. c.s = Here /\ Own => Own' BY <2>2, <2>14, <2>15, <2>16, <2>17, OwnStays
  <2> QED BY <2>2, <2>12, <2>16, <2>18, Zenon DEF GrantsStay
<1> QED BY <1>3, <1>4

\* The loop goes on: an input is sent under the lease held, to the session shown.
LEMMA OwnSends ==
  ASSUME NEW q, NEW n, NEW cs \in SUBSET calls, SendOn(q, generation, n, cs),
         UNCHANGED <<leases, active, sel>>
  PROVE  /\ generation' = 0 \/ (generation' = generation /\ Here' = Here)
         /\ \A c \in calls' : c \in calls \/ (Own => OwnCall(c)')
<1>1. Here' = Here BY DEF Here
<1>2. PICK a : a = NewInput(active, inEpoch, generation, n, q) OBVIOUS
<1>3. a.op = "input" /\ a.s = active /\ a.g = generation /\ a.reply = "none" BY <1>2, InputIs
<1>4. /\ generation' \in {0, generation}
      /\ calls' = cs \/ (active # Nowhere /\ generation # 0 /\ calls' = cs \union {a})
  BY <1>2, Zenon DEF SendOn, NewInput
<1>5. ASSUME Own, active # Nowhere, generation # 0 PROVE OwnCall(a)'
  <2>1. Mine(active, generation) BY <1>5 DEF Own, OwnView, Here
  <2>2. keeper' = keeper /\ granted' = granted BY DEF leases
  <2>3. Mine(a.s, a.g)' BY <1>3, <2>1, <2>2 DEF Mine, Gen
  <2> QED BY <1>3, <2>3 DEF OwnCall
<1> QED BY <1>1, <1>4, <1>5

\* Keys are typed or let through, and inputs answered.
LEMMA OwnTypes ==
  ASSUME KeyInv, FormInv, GrantForm, ThreadForm, mistaken \/ Own,
         Key \/ GateOpens \/ \E c \in calls : InputReturns(c)
  PROVE  GrantForm' /\ ThreadForm' /\ (mistaken' \/ Own')
<1>1. UNCHANGED <<leases, active, sel, ctl, mistaken>>
  BY DEF Key, GateOpens, InputReturns, shown
<1>2. ThreadForm' /\ \A d \in Control : ctl'[d] = ctl[d] BY <1>1, ThreadsStay
<1>3. Here' = Here BY <1>1 DEF Here
<1>4. SUFFICES /\ generation' = 0 \/ (generation' = generation /\ Here' = Here)
               /\ \A c \in calls' : c \in calls \/ (Own => OwnCall(c)')
  BY <1>1, <1>2, OwnActs
<1>5. CASE \E q, n : \E cs \in SUBSET calls : SendOn(q, generation, n, cs)
  BY <1>1, <1>5, OwnSends
<1>6. CASE calls' \subseteq calls /\ generation' \in {0, generation} BY <1>3, <1>6
<1>7. CASE \E c \in calls : InputReturns(c)
  <2>1. PICK c \in calls : InputReturns(c) BY <1>7
  <2>2. \/ generation' = 0 /\ calls' = calls \ {c}
        \/ \E q, n : SendOn(q, generation, n, calls \ {c})
    BY <2>1, Zenon DEF InputReturns
  <2>3. calls \ {c} \in SUBSET calls OBVIOUS
  <2> QED BY <1>5, <1>6, <2>2, <2>3
<1>8. CASE Key \/ GateOpens
  <2>1. UNCHANGED <<calls, generation>> \/ \E ks : Submit(ks)
    BY <1>8, Zenon DEF Key, GateOpens
  <2>2. ASSUME NEW ks, Submit(ks)
        PROVE  UNCHANGED <<calls, generation>> \/ \E q, n : SendOn(q, generation, n, calls)
    BY <2>2, Zenon DEF Submit
  <2> QED BY <1>5, <1>6, <2>1, <2>2
<1> QED BY <1>7, <1>8

\* A keeper's answer to a request that uses no lease, and is not granted one.
LEMMA AnswersPlainly ==
  ASSUME CallsInv, NEW c \in calls, NEW r, NEW l, Answered(c, r, l)
  PROVE  \E d : /\ Like(d, c) /\ d.reply = r /\ d.lease = l
                /\ \A e \in calls' : e \in calls \/ e = d
<1>1. PICK d : d = AnswerTo(c, r, l) OBVIOUS
<1>2. CallForm(c) BY DEF CallsInv, CallOk
<1>3. Like(d, c) /\ d.reply = r /\ d.lease = l BY <1>1, <1>2, LikeIt
<1>4. calls' \in {calls \ {c}, (calls \ {c}) \union {d}} BY <1>1, Zenon DEF Answered, AnswerTo
<1> QED BY <1>3, <1>4

\* A keeper serves a request, a request is refused, or the view gives up on it.
LEMMA OwnServed ==
  ASSUME KeyInv, FormInv, GrantForm, ThreadForm, mistaken \/ Own, NEW c \in calls,
         KeeperServes(c) \/ KeeperIsBlocked(c) \/ TimesOut(c)
  PROVE  GrantForm' /\ ThreadForm' /\ (mistaken' \/ Own')
<1>1. UNCHANGED <<active, generation, sel, ctl, mistaken>>
  BY DEF KeeperServes, KeeperIsBlocked, TimesOut, shown
<1>2. Here' = Here BY <1>1 DEF Here
<1>3. ThreadForm' /\ \A d \in Control : ctl'[d] = ctl[d] BY <1>1, ThreadsStay
<1>4. CallsInv /\ PtyInv /\ KeeperForm /\ Kind(c) BY DEF KeyInv, FormInv
<1>5. ASSUME KeeperForm', GrantsStay, \A d \in calls' : d \in calls \/ Plain(d) \/ (Own => OwnCall(d)'),
             pty' = pty \/ (Own => OwnPty'), resized' = resized \/ (Own => OwnSizes')
      PROVE  GrantForm' /\ ThreadForm' /\ (mistaken' \/ Own')
  <2>1. Own => Own' BY <1>1, <1>2, <1>3, <1>4, <1>5, OwnStays
  <2> QED BY <1>1, <1>3, <1>5, <2>1, Zenon DEF GrantsStay
<1>6. ASSUME granted' = granted, KeeperForm', GensStay,
             NEW r, NEW l, Answered(c, r, l), c.op = "acquire" => r # "ok",
             pty' = pty \/ (Own => OwnPty'), resized' = resized \/ (Own => OwnSizes')
      PROVE  GrantForm' /\ ThreadForm' /\ (mistaken' \/ Own')
  <2>1. GrantsStay BY <1>4, <1>6, NothingGranted
  <2>2. PICK d : /\ Like(d, c) /\ d.reply = r /\ \A e \in calls' : e \in calls \/ e = d
    BY <1>4, <1>6, AnswersPlainly
  <2>3. Own => OwnCall(d)'
    <3>1. Own => OwnCall(c) BY DEF Own
    <3>2. \A s, g : Mine(s, g) => Mine(s, g)' BY <1>4, <1>6, <2>1, MineStays
    <3> QED BY <1>6, <2>2, <3>1, <3>2 DEF OwnCall, Like
  <2> QED BY <1>5, <1>6, <2>1, <2>2, <2>3
<1>7. CASE KeeperServes(c)
  <2>1. CASE ServeHello(c) \/ ServeCheck(c)
    <3>1. /\ UNCHANGED <<keeper, granted, pty, resized>> /\ c.op \in {"hello", "check"}
          /\ \E r, l : Answered(c, r, l)
      BY <2>1 DEF ServeHello, ServeCheck, leases
    <3>2. KeeperForm' /\ GensStay BY <1>4, <3>1, KeepersStay
    <3> QED BY <1>6, <3>1, <3>2
  <2>2. CASE ServeRelease(c)
    <3>1. /\ UNCHANGED <<granted, pty, resized>> /\ c.op = "release" /\ c.s \in Session
          /\ \E r, l : Answered(c, r, l)
      BY <1>4, <2>2 DEF ServeRelease, Kind
    <3>2. PICK no : no = FALSE OBVIOUS
    <3>3. keeper' = keeper \/ keeper' = [keeper EXCEPT ![c.s].held = no]
      BY <2>2, <3>2, Zenon DEF ServeRelease
    <3>4. KeeperForm' /\ GensStay BY <1>4, <3>1, <3>3, KeepersStay, NotesAre
    <3> QED BY <1>6, <3>1, <3>4
  <2>3. CASE ServeResize(c)
    <3>1. /\ UNCHANGED <<keeper, granted, pty>> /\ c.op = "resize"
          /\ \E r, l : Answered(c, r, l)
          /\ resized' = resized \/ resized' = resized \union {<<c.s, c.g>>}
      BY <2>3 DEF ServeResize
    <3>2. KeeperForm' /\ GensStay BY <1>4, <3>1, KeepersStay
    <3>3. resized' = resized \/ (Own => OwnSizes')
      <4>1. SUFFICES ASSUME Own, resized' = resized \union {<<c.s, c.g>>} PROVE OwnSizes'
        BY <3>1
      <4>2. Mine(c.s, c.g) BY <3>1, <4>1 DEF Own, OwnCall
      <4>3. \A s, g : Mine(s, g) => Mine(s, g)' BY <3>1 DEF Mine, Gen
      <4>4. \A p \in resized' : Mine(p[1], p[2]) BY <4>1, <4>2 DEF Own, OwnSizes
      <4> QED BY <4>3, <4>4 DEF OwnSizes
    <3> QED BY <1>6, <3>1, <3>2, <3>3
  <2>4. CASE ServeInput(c)
    <3>1. /\ c.op = "input" /\ c.s \in Session /\ granted' = granted /\ resized' = resized
          /\ \E r : Answered(c, r, 0)
          /\ \/ UNCHANGED <<keeper, pty>>
             \/ /\ pty' = [pty EXCEPT ![c.s] = @ \o Received(c)]
                /\ keeper' = [keeper EXCEPT ![c.s].last = c.n, ![c.s].busy = TRUE]
      BY <1>4, <2>4, Zenon DEF ServeInput, Kind
    <3>2. PICK yes, n : yes = TRUE /\ n = c.n OBVIOUS
    <3>3. keeper' = keeper \/ keeper' = [keeper EXCEPT ![c.s].last = n, ![c.s].busy = yes]
      BY <3>1, <3>2, Zenon
    <3>4. KeeperForm' /\ GensStay
      <4>1. CASE keeper' = keeper BY <1>4, <3>1, <4>1, KeepersStay
      <4>2. CASE keeper' = [keeper EXCEPT ![c.s].last = n, ![c.s].busy = yes]
        BY <1>4, <3>1, <4>2, NotesAre
      <4> QED BY <3>3, <4>1, <4>2
    <3>5. pty' = pty \/ (Own => OwnPty')
      <4>1. SUFFICES ASSUME Own, pty' = [pty EXCEPT ![c.s] = @ \o Received(c)] PROVE OwnPty'
        BY <3>1
      <4>2. /\ \A s \in Session : s # c.s => pty'[s] = pty[s]
            /\ \A i \in 1..Len(pty'[c.s]) :
                 \/ i \in 1..Len(pty[c.s]) /\ pty'[c.s][i] = pty[c.s][i]
                 \/ pty'[c.s][i].gen = c.g
        BY <1>4, <3>1, <4>1, PtyReceives
      <4>3. Mine(c.s, c.g) BY <3>1, <4>1 DEF Own, OwnCall
      <4>4. \A s, g : Mine(s, g) => Mine(s, g)' BY <3>1, <3>4 DEF Mine, Gen, GensStay
      <4>5. \A s \in Session : \A i \in 1..Len(pty'[s]) :
              pty'[s][i].by = Self => Mine(s, pty'[s][i].gen)
        BY <4>1, <4>2, <4>3 DEF Own, OwnPty
      <4> QED BY <4>4, <4>5 DEF OwnPty
    <3> QED BY <1>6, <3>1, <3>4, <3>5
  <2>5. CASE ServeAcquire(c)
    <3>1. c.op = "acquire" /\ c.s \in Session BY <1>4, <2>5 DEF ServeAcquire, Kind
    <3>2. CASE Answered(c, "refused", 0) /\ UNCHANGED leases
      <4>1. UNCHANGED <<keeper, granted, pty, resized>> BY <3>2 DEF leases
      <4>2. KeeperForm' /\ GensStay BY <1>4, <4>1, KeepersStay
      <4> QED BY <1>6, <3>2, <4>1, <4>2
    <3>3. CASE /\ Grant(c.s, Self) /\ Answered(c, "ok", keeper[c.s].gen + 1)
               /\ pty' = pty /\ resized' = resized
      <4>1. PICK g : g = Gen(c.s) + 1 OBVIOUS
      <4>2. /\ KeeperForm' /\ GrantsStay
            /\ g \in 1..Gen(c.s)' /\ granted'[c.s][g] = Self
        BY <1>4, <3>1, <3>3, <4>1, GrantIs
      <4>3. PICK d : /\ Like(d, c) /\ d.reply = "ok" /\ d.lease = g
                     /\ \A e \in calls' : e \in calls \/ e = d
        BY <1>4, <3>3, <4>1, AnswersPlainly DEF Gen
      <4>4. OwnCall(d)' BY <3>1, <4>2, <4>3 DEF OwnCall, Like, Mine
      <4> QED BY <1>5, <3>3, <4>2, <4>3, <4>4
    <3> QED BY <2>5, <3>2, <3>3 DEF ServeAcquire
  <2> QED BY <1>7, <2>1, <2>2, <2>3, <2>4, <2>5 DEF KeeperServes
<1>8. CASE KeeperIsBlocked(c)
  <2>1. /\ UNCHANGED <<keeper, granted, pty, resized>> /\ c.op = "input"
        /\ Answered(c, "blocked", 0)
    BY <1>8 DEF KeeperIsBlocked, leases
  <2>2. KeeperForm' /\ GensStay BY <1>4, <2>1, KeepersStay
  <2> QED BY <1>6, <2>1, <2>2
<1>9. CASE TimesOut(c)
  <2>1. UNCHANGED <<keeper, granted, pty, resized>> BY <1>9 DEF TimesOut, leases
  <2>2. KeeperForm' /\ GensStay BY <1>4, <2>1, KeepersStay
  <2>3. GrantsStay BY <1>4, <2>1, <2>2, NothingGranted
  <2>4. PICK e, d : e = Failed(c) /\ d = Gone(c) OBVIOUS
  <2>5. CallForm(c) BY <1>4 DEF CallsInv, CallOk
  <2>6. Like(e, c) /\ e.reply = "error" /\ Like(d, c) /\ d.reply = c.reply
    BY <2>4, <2>5, LikeIt
  <2>7. \A x \in calls' : x \in calls \/ x = e \/ (x = d /\ c.reply = "none")
    BY <1>9, <2>4 DEF TimesOut, Failed, Gone
  <2>8. Own => OwnCall(e)' /\ (c.reply = "none" => OwnCall(d)')
    <3>1. Own => OwnCall(c) BY DEF Own
    <3>2. \A s, g : Mine(s, g) => Mine(s, g)' BY <2>1 DEF Mine, Gen
    <3> QED BY <2>6, <3>1, <3>2 DEF OwnCall, Like
  <2> QED BY <1>5, <2>1, <2>2, <2>3, <2>7, <2>8
<1> QED BY <1>7, <1>8, <1>9

\* The other view moves: what it is granted and types is its own.
LEMMA OwnOthers ==
  ASSUME KeyInv, FormInv, GrantForm, ThreadForm, mistaken \/ Own,
         NEW s \in Session, OtherMoves(s) \/ HolderGoesQuiet(s)
  PROVE  GrantForm' /\ ThreadForm' /\ (mistaken' \/ Own')
<1>1. UNCHANGED <<calls, active, generation, sel, ctl, mistaken, resized>>
  BY DEF OtherMoves, HolderGoesQuiet, shown, OtherTakes, OtherTypes, OtherGivesBack
<1>2. Here' = Here BY <1>1 DEF Here
<1>3. ThreadForm' /\ \A d \in Control : ctl'[d] = ctl[d] BY <1>1, ThreadsStay
<1>4. PtyInv /\ KeeperForm BY DEF KeyInv, FormInv
<1>5. PICK no, yes : no = FALSE /\ yes = TRUE OBVIOUS
<1>6. ASSUME KeeperForm', GrantsStay, pty' = pty \/ (Own => OwnPty')
      PROVE  GrantForm' /\ ThreadForm' /\ (mistaken' \/ Own')
  <2>1. Own => Own' BY <1>1, <1>2, <1>3, <1>4, <1>6, OwnStays
  <2> QED BY <1>1, <1>3, <1>6, <2>1, Zenon DEF GrantsStay
<1>7. CASE OtherTakes(s)
  <2>1. Grant(s, Other) /\ pty' = pty BY <1>7 DEF OtherTakes
  <2> QED BY <1>4, <1>6, <2>1, GrantIs
<1>8. CASE OtherGivesBack(s) \/ HolderGoesQuiet(s)
  <2>1. pty' = pty /\ granted' = granted BY <1>8 DEF OtherGivesBack, HolderGoesQuiet
  <2>2. \/ keeper' = [keeper EXCEPT ![s].held = no]
        \/ keeper' = [keeper EXCEPT ![s].busy = no]
    BY <1>5, <1>8, Zenon DEF OtherGivesBack, HolderGoesQuiet
  <2>3. KeeperForm' /\ GensStay BY <1>4, <2>2, NotesAre
  <2> QED BY <1>4, <1>6, <2>1, <2>3, NothingGranted
<1>9. CASE OtherTypes(s)
  <2>1. keeper' = [keeper EXCEPT ![s].last = 1, ![s].busy = yes] /\ granted' = granted
    BY <1>5, <1>9, Zenon DEF OtherTypes
  <2>2. KeeperForm' /\ GensStay BY <1>4, <2>1, NotesAre
  <2>3. GrantsStay BY <1>4, <2>1, <2>2, NothingGranted
  <2>4. Own => OwnPty'
    <3>1. PtyMine BY <1>4, <1>9, OtherReceives
    <3>2. \A r, g : Mine(r, g) => Mine(r, g)' BY <2>1, <2>2 DEF Mine, Gen, GensStay
    <3> QED BY <3>1, <3>2 DEF Own, OwnPty, PtyMine
  <2> QED BY <1>6, <2>2, <2>3, <2>4
<1> QED BY <1>7, <1>8, <1>9 DEF OtherMoves

LEMMA OwnInit == Init => OwnInv
<1> SUFFICES ASSUME Init PROVE OwnInv OBVIOUS
<1>1. OrderInv BY OrderInit
<1>2. granted = [s \in Session |-> [g \in 1..MaxGen |-> Nobody]] /\ generation = 0 /\ calls = {}
      /\ resized = {}
  BY DEF Init
<1>3. PICK no : no = FALSE OBVIOUS
<1>4. keeper = [s \in Session |-> [gen |-> 0, held |-> no, last |-> 0, busy |-> no]]
  BY <1>3, Zenon DEF Init
<1>5. \A s \in Session : Gen(s) = 0 BY <1>4 DEF Gen
<1>6. MaxGen \in Nat BY DesktopViewAssumption
<1>7. GrantForm BY <1>2, <1>5, <1>6 DEF GrantForm
<1>8. ctl = [c \in Control |-> [stage |-> "none", epoch |-> 0, s |-> Nowhere, g |-> 0, key |-> no]]
  BY <1>3, Zenon DEF Init, NoControl
<1>9. ThreadForm
  <2>1. /\ ctl = [c \in Control |-> ctl[c]]
        /\ \A c \in Control :
             ctl[c] = [stage |-> ctl[c].stage, epoch |-> ctl[c].epoch, s |-> ctl[c].s,
                       g |-> ctl[c].g, key |-> ctl[c].key]
    BY <1>8
  <2> QED BY <2>1, Zenon DEF ThreadForm
<1>10. \A c \in Control : ctl[c].stage # "draining" BY <1>8
<1>11. Len(<<>>) = 0 BY EmptySeq
<1>12. \A s \in Session : Len(pty[s]) = 0
  <2>1. pty = [s \in Session |-> <<>>] BY DEF Init
  <2> QED BY <1>11, <2>1
<1>13. Own BY <1>2, <1>10, <1>12 DEF Own, OwnView, OwnThread, OwnPty, OwnSizes
<1> QED BY <1>1, <1>7, <1>9, <1>13 DEF OwnInv

LEMMA OwnStep ==
  ASSUME OwnInv, [Next]_vars
  PROVE  OwnInv'
<1>1. KeyInv /\ FormInv /\ GrantForm /\ ThreadForm /\ (mistaken \/ Own)
  BY DEF OwnInv, OrderInv
<1>2. OrderInv' BY OrderStep DEF OwnInv
<1>3. SUFFICES GrantForm' /\ ThreadForm' /\ (mistaken' \/ Own') BY <1>2 DEF OwnInv
<1>4. CASE UNCHANGED vars
  <2>1. /\ UNCHANGED <<leases, ctl, calls, generation, mistaken, active, sel>>
    BY <1>4 DEF vars, shown
  <2>2. Here' = Here BY <2>1 DEF Here
  <2>3. ThreadForm' /\ \A c \in Control : ctl'[c] = ctl[c] BY <1>1, <2>1, ThreadsStay
  <2> QED BY <1>1, <2>1, <2>2, <2>3, OwnActs
<1>5. CASE \E c \in calls : KeeperServes(c) \/ KeeperIsBlocked(c) \/ TimesOut(c)
  BY <1>1, <1>5, OwnServed
<1>6. CASE \E s \in Session : OtherMoves(s) \/ HolderGoesQuiet(s) BY <1>1, <1>6, OwnOthers
<1>7. CASE \/ \E s \in Session : Select(s)
           \/ \E c \in calls : SelectReleased(c)
           \/ Detach \/ SelectShows \/ SelectEnds
  BY <1>1, <1>7, OwnStops
<1>8. CASE \/ Tap \/ Push \/ Poll \/ GateAsks
           \/ \E c \in Control : Resize(c)
           \/ \E c \in calls : TapGreeted(c) \/ AcquireFails(c) \/ ControlSettles(c)
  BY <1>1, <1>8, OwnThreads
<1>9. CASE \E c \in calls : Acquired(c) BY <1>1, <1>9, OwnAcquired
<1>10. CASE Key \/ GateOpens \/ \E c \in calls : InputReturns(c) BY <1>1, <1>10, OwnTypes
<1> QED BY <1>4, <1>5, <1>6, <1>7, <1>8, <1>9, <1>10 DEF Next, Serve, Thread, Return

-------------------------------------------------------------------------------
\* Keepers take bytes and sizes from this view only under leases they granted to it,
\* as long as the view takes no lease of one session for a lease of another
\* (control, the input loop and orderedResize of main.js, and the keepers' fences).
THEOREM LeasesUsedAreOwn == Spec => []LeasesAreOwn
<1>1. OwnInv => LeasesAreOwn
  <2> SUFFICES ASSUME OwnInv, ~mistaken PROVE OwnLease BY DEF LeasesAreOwn
  <2>1. Own BY DEF OwnInv
  <2>2. ASSUME NEW s \in Session, NEW e \in Range(pty[s]), e.by = Self
        PROVE  granted[s][e.gen] = Self
    <3>1. PICK T : pty[s] \in Seq(T) BY DEF OwnInv, OrderInv, KeyInv, PtyInv, PtyOk
    <3>2. PICK i \in 1..Len(pty[s]) : e = pty[s][i] BY <2>2, <3>1, LenProperties DEF Range
    <3> QED BY <2>1, <2>2, <3>2 DEF Own, OwnPty, Mine
  <2>3. \A r \in resized : granted[r[1]][r[2]] = Self BY <2>1 DEF Own, OwnSizes, Mine
  <2> QED BY <2>2, <2>3 DEF OwnLease
<1> QED BY <1>1, OwnInit, OwnStep, PTL DEF Spec
===============================================================================
