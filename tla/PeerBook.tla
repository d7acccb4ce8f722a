------------------------------- MODULE PeerBook -------------------------------
(***************************************************************************)
(* What a node promises about the devices enrolled with it (peers.json),   *)
(* whoever changes the file and whatever dies meanwhile: node/src/main.rs, *)
(* Init, Pair and Revoke, and node/src/pairing.rs, run.  A change is made  *)
(* in one step or not at all, on top of every change before it.            *)
(*                                                                         *)
(* save() syncs the file but not its directory: a power failure may take   *)
(* the last changes back (the newest ones only, never one in the middle).  *)
(***************************************************************************)
EXTENDS Naturals, Sequences

CONSTANTS
  Name,         \* names a peer can have
  Device,       \* devices, each with its own certificate
  Grants,       \* sets of services that can be granted
  MaxPeers,     \* peers a node accepts (32)
  Missing       \* there is no such file

VARIABLES
  book,         \* the peers in the file, in its order
  kept          \* what a power failure leaves of it

Peer == [name : Name, cert : Device, grants : Grants]

\* The others keep their order (a recursive function, which can be proved about).
Without(b, n) ==
  LET left[i \in 0..Len(b)] ==
        IF i = 0 THEN <<>>
        ELSE IF b[i].name # n THEN Append(left[i - 1], b[i]) ELSE left[i - 1]
  IN  left[Len(b)]

\* Pair enrols under a new name.  It does not ask whether the device has another.
CanPair(b, p) ==
  /\ \A i \in DOMAIN b : b[i].name # p.name
  /\ Len(b) < MaxPeers
Paired(b, p) == Append(b, p)

\* An invitation may replace the grants of the same device under the same name.
\* It never grants the workspace; which grants it carries is left open here.
CanInvite(b, p) ==
  /\ \A i \in DOMAIN b : b[i].name = p.name <=> b[i].cert = p.cert
  /\ Len(Without(b, p.name)) < MaxPeers
Invited(b, p) == Append(Without(b, p.name), p)

Init == book = Missing /\ kept = Missing

Found ==
  /\ book = Missing
  /\ book' = <<>>
  /\ UNCHANGED kept

Enroll(p) ==
  /\ book # Missing
  /\ \/ CanPair(book, p) /\ book' = Paired(book, p)
     \/ CanInvite(book, p) /\ book' = Invited(book, p)
  /\ UNCHANGED kept

Revoke(n) ==
  /\ book # Missing
  /\ book' = Without(book, n)
  /\ UNCHANGED kept

Settle ==
  /\ kept' = book
  /\ UNCHANGED book

PowerLoss ==
  /\ book' = kept
  /\ UNCHANGED kept

Next ==
  \/ Found \/ Settle \/ PowerLoss
  \/ \E p \in Peer : Enroll(p)
  \/ \E n \in Name : Revoke(n)

Spec == Init /\ [][Next]_<<book, kept>>

-------------------------------------------------------------------------------
TypeOK == {book, kept} \subseteq Seq(Peer) \cup {Missing}

\* Revoke takes a name, and one name is one peer, also after a power failure: what
\* is revoked is gone (main.rs:211, "peer name exists" at main.rs:183).
OneNameOnePeer ==
  \A b \in {book, kept} \ {Missing} :
    \A i, j \in DOMAIN b : b[i].name = b[j].name => i = j
===============================================================================
